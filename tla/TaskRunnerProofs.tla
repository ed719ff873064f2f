-------------------------- MODULE TaskRunnerProofs --------------------------
(***************************************************************************)
(* Proofs about TaskRunner, for every set of configuration files and       *)
(* environments and every set of tasks.                                    *)
(***************************************************************************)
EXTENDS TaskRunner, TLAPS

-----------------------------------------------------------------------------
(***************************************************************************)
(* The inductive invariant.                                                *)
(***************************************************************************)
LoopState == [pc : {"off", "new", "select", "attempt", "backoff", "record", "exited"},
              tick : BOOLEAN, attempts : Nat, age : Nat, wait : Int]

\* The stages of the signal goroutine from a given one on.
SchedulerCancelled == {"stopping scheduler", "scheduler stopped", "stopping worker",
                       "worker stopped", "done"}
SchedulerDown      == SchedulerCancelled \ {"stopping scheduler"}
WorkerCancelled    == {"stopping worker", "worker stopped", "done"}
WorkerDown         == {"worker stopped", "done"}
Drained            == SchedulerCancelled \cup {"drained"}

Shapes ==
  /\ proc \in {"init", "main", "scheduler", "worker", "serving", "exited", "panicked"}
  /\ cfg.max_retries \in Int /\ cfg.max_retries >= 1
  /\ cfg.base_backoff \in Int /\ cfg.task_timeout \in Int
  /\ cancelled \in [Runners -> BOOLEAN]
  /\ loop \in [Loops -> LoopState]
  /\ sig \in {"off", "waiting", "shutdown"} \cup Drained
  /\ request \in {"none", "open", "ready", "not_ready"}

\* No loop runs before the configuration is loaded, and the signal goroutine
\* is launched last, when every loop has been.
Launched ==
  /\ proc \in {"init", "main"} => \A l \in Loops : loop[l].pc = "off"
  /\ sig # "off" => proc \in {"serving", "exited", "panicked"}
  /\ proc \in {"scheduler", "worker", "serving"} \/ sig # "off" =>
       \A l \in Tasks : loop[l].pc # "off"
  /\ proc \in {"worker", "serving"} \/ sig # "off" => loop["reeval"].pc # "off"
  /\ proc = "init" => failures = {}

\* A loop ends only when its runner is cancelled, a runner is cancelled only
\* by the signal goroutine, which goes on only when the loops have ended.
Stopped ==
  /\ \A l \in Loops : loop[l].pc = "exited" => cancelled[owner(l)] = TRUE
  /\ cancelled["scheduler"] = TRUE => sig \in SchedulerCancelled
  /\ cancelled["worker"] = TRUE => sig \in WorkerCancelled
  /\ sig \in SchedulerDown => \A l \in Tasks : loop[l].pc = "exited"
  /\ sig \in WorkerDown => loop["reeval"].pc = "exited"

\* A request that is open after Shutdown has returned has outlived its timeout.
Outlived ==
  request # "none" => sig # "off" /\ (sig \in Drained => expired)

\* The age of a task accounts for the waits it has had, unless the timeout,
\* where the age stops, has passed.
Paced(s) ==
  /\ s.pc \in {"attempt", "backoff"} => s.attempts < cfg.max_retries
  /\ s.pc = "attempt" => s.age >= Backoffs(s.attempts) \/ s.age >= cfg.task_timeout
  /\ s.pc = "backoff" => s.age + s.wait >= Backoffs(s.attempts) \/ s.age >= cfg.task_timeout
  /\ s.pc = "record" => /\ s.attempts = cfg.max_retries
                        /\ s.age >= Backoffs(cfg.max_retries - 1) \/ s.age >= cfg.task_timeout

Pace == \A l \in Loops : Paced(loop[l])

Inv == Shapes /\ Launched /\ Stopped /\ Outlived /\ Pace /\ RecordedWithinTimeout

-----------------------------------------------------------------------------
(***************************************************************************)
(* Facts about the operators the actions are built from.                   *)
(***************************************************************************)
\* The powers of two the backoff can reach.
LEMMA Powers ==
  /\ 2^0 = 1 /\ 2^1 = 2 /\ 2^2 = 4 /\ 2^3 = 8 /\ 2^4 = 16 /\ 2^5 = 32
  /\ 2^6 = 64 /\ 2^7 = 128 /\ 2^8 = 256 /\ 2^9 = 512 /\ 2^10 = 1024 /\ 2^11 = 2048
OBVIOUS

\* The n-th wait is what n attempts have waited longer than n - 1.
LEMMA BackoffsAddUp ==
  ASSUME cfg.base_backoff \in Int, NEW n \in Nat, n >= 1
  PROVE  /\ calculateBackoff(n) \in Int /\ Backoffs(n) \in Int /\ Backoffs(n - 1) \in Int
         /\ Backoffs(n) = Backoffs(n - 1) + calculateBackoff(n)
<1> DEFINE b == cfg.base_backoff
<1>0. b \in Int
  OBVIOUS
<1>1. CASE n > 12
  <2>1. /\ calculateBackoff(n) = b * 1024
        /\ Backoffs(n) = b * (2047 + (n - 11) * 1024)
        /\ Backoffs(n - 1) = b * (2047 + (n - 12) * 1024)
    BY <1>1, Powers DEF calculateBackoff, Backoffs
  <2> HIDE DEF b
  <2> QED BY <1>0, <1>1, <2>1
<1>2. CASE n = 12
  BY <1>0, <1>2, Powers DEF calculateBackoff, Backoffs
<1>3. CASE n \in 1 .. 11
  <2>1. n = 1 \/ n = 2 \/ n = 3 \/ n = 4 \/ n = 5 \/ n = 6 \/ n = 7 \/ n = 8 \/ n = 9
        \/ n = 10 \/ n = 11
    BY <1>3
  <2>2. calculateBackoff(n) = b * 2^(n - 1) /\ Backoffs(n) = b * (2^n - 1)
        /\ Backoffs(n - 1) = b * (2^(n - 1) - 1)
    BY <1>3 DEF calculateBackoff, Backoffs
  <2>3. 2^(n - 1) \in Int /\ 2^n = 2 * 2^(n - 1)
    <3>1. CASE n = 1
      <4>1. n - 1 = 0
        BY <3>1
      <4> QED BY <3>1, <4>1, Powers
    <3>2. CASE n = 2
      <4>1. n - 1 = 1
        BY <3>2
      <4> QED BY <3>2, <4>1, Powers
    <3>3. CASE n = 3
      <4>1. n - 1 = 2
        BY <3>3
      <4> QED BY <3>3, <4>1, Powers
    <3>4. CASE n = 4
      <4>1. n - 1 = 3
        BY <3>4
      <4> QED BY <3>4, <4>1, Powers
    <3>5. CASE n = 5
      <4>1. n - 1 = 4
        BY <3>5
      <4> QED BY <3>5, <4>1, Powers
    <3>6. CASE n = 6
      <4>1. n - 1 = 5
        BY <3>6
      <4> QED BY <3>6, <4>1, Powers
    <3>7. CASE n = 7
      <4>1. n - 1 = 6
        BY <3>7
      <4> QED BY <3>7, <4>1, Powers
    <3>8. CASE n = 8
      <4>1. n - 1 = 7
        BY <3>8
      <4> QED BY <3>8, <4>1, Powers
    <3>9. CASE n = 9
      <4>1. n - 1 = 8
        BY <3>9
      <4> QED BY <3>9, <4>1, Powers
    <3>10. CASE n = 10
      <4>1. n - 1 = 9
        BY <3>10
      <4> QED BY <3>10, <4>1, Powers
    <3>11. CASE n = 11
      <4>1. n - 1 = 10
        BY <3>11
      <4> QED BY <3>11, <4>1, Powers
    <3> QED BY <2>1, <3>1, <3>2, <3>3, <3>4, <3>5, <3>6, <3>7, <3>8, <3>9, <3>10, <3>11
  <2> HIDE DEF b
  <2> QED BY <1>0, <2>2, <2>3
<1> QED BY <1>1, <1>2, <1>3

LEMMA NoBackoffs ==
  ASSUME cfg.base_backoff \in Int
  PROVE  Backoffs(0) = 0
BY Powers DEF Backoffs

\* Whatever file and environment hold, the numbers of a configuration that
\* Load returns are numbers, and there is at least one attempt.
LEMMA LoadedNumbers ==
  ASSUME NEW file \in Files, NEW env \in Envs, NEW c \in Loads(file, env)
  PROVE  /\ c.max_retries \in Int /\ c.max_retries >= 1
         /\ c.base_backoff \in Int /\ c.task_timeout \in Int
<1>0. Validate(c)
  BY DEF Loads
<1>1. c = applyEnvOverrides(Unmarshal(file), env)
  BY DEF Loads
<1>2. \A f \in Numbers : f \in Fields /\ Defaults[f] \in Int
  BY DEF Numbers, Fields, Defaults
<1>3. \A f \in Numbers : Unmarshal(file)[f] \in Int
  BY <1>2, NumbersAssumption DEF Unmarshal
<1>4. \A f \in Numbers : c[f] \in Int
  <2>1. TAKE f \in Numbers
  <2>2. f \notin {"sync_on_write", "bootstrap_ok"}
    BY DEF Numbers
  <2> QED BY <1>1, <1>2, <1>3, <2>2, NumbersAssumption DEF applyEnvOverrides
<1>5. c["max_retries"] \in Int /\ c["base_backoff"] \in Int /\ c["task_timeout"] \in Int
  BY <1>4 DEF Numbers
<1>6. c.max_retries >= 1
  BY <1>0, <1>5, SMT DEF Validate
<1> QED BY <1>5, <1>6

LEMMA Owners ==
  /\ \A l \in Tasks : owner(l) = "scheduler" /\ l # "reeval"
  /\ owner("reeval") = "worker"
  /\ "reeval" \in Loops /\ Tasks \subseteq Loops
BY TasksAssumption DEF owner, Loops

LEMMA OffIsState == Off \in LoopState /\ Off.pc = "off" /\ Off.attempts = 0 /\ Off.age = 0
BY DEF Off, LoopState

\* A loop that is not in a task has nothing to account for.
LEMMA IdlePaced ==
  ASSUME NEW s, s.pc \in {"off", "new", "select", "exited"}
  PROVE  Paced(s)
BY DEF Paced

-----------------------------------------------------------------------------
(***************************************************************************)
(* The steps of one loop.  A loop that has been launched and has not ended *)
(* may go anywhere it keeps its account, but may end only when cancelled.  *)
(***************************************************************************)
LEMMA LoopChange ==
  ASSUME Inv, NEW l \in Loops, NEW new \in LoopState, Step(l, new),
         loop[l].pc \notin {"off", "exited"}, new.pc # "off",
         new.pc = "exited" => cancelled[owner(l)] = TRUE,
         Paced(new), RecordedWithinTimeout'
  PROVE  Inv'
<1>1. /\ loop' = [loop EXCEPT ![l] = new]
      /\ UNCHANGED <<proc, cfg, started, cancelled, sig, open, expired, request>>
      /\ Running
  BY DEF Step
<1>2. /\ loop' \in [Loops -> LoopState] /\ loop'[l] = new
      /\ \A m \in Loops : m # l => loop'[m] = loop[m]
  BY <1>1 DEF Inv, Shapes
<1>3. Shapes'
  BY <1>1, <1>2 DEF Inv, Shapes
<1>4. Launched'
  BY <1>1, <1>2, Owners DEF Inv, Launched, Running
<1>5. Stopped'
  BY <1>1, <1>2, Owners DEF Inv, Stopped, Loops
<1>6. Outlived'
  BY <1>1 DEF Inv, Outlived
<1>7. Pace'
  <2>1. ASSUME NEW m \in Loops PROVE Paced(loop'[m])
    BY <1>2 DEF Inv, Pace
  <2> QED BY <1>1, <2>1 DEF Pace, Paced, Backoffs
<1> QED BY <1>3, <1>4, <1>5, <1>6, <1>7 DEF Inv

\* What is stored stays true while the configuration does.
LEMMA StoredStays ==
  ASSUME Inv, UNCHANGED <<failures, cfg>>
  PROVE  RecordedWithinTimeout'
BY DEF Inv, RecordedWithinTimeout, Backoffs

LEMMA LoopSteps ==
  ASSUME Inv, NEW l \in Loops, LoopStep(l) \/ Fire(l)
  PROVE  Inv'
<1> DEFINE s == loop[l]
<1>0. /\ s \in LoopState /\ Paced(s) /\ cancelled \in [Runners -> BOOLEAN]
      /\ cfg.max_retries \in Int /\ cfg.max_retries >= 1
      /\ cfg.base_backoff \in Int /\ cfg.task_timeout \in Int
      /\ owner(l) \in Runners
  BY DEF Inv, Shapes, Pace, owner, Runners
<1>1. CASE NewTicker(l)
  <2>1. CASE interval(l) > 0
    <3> DEFINE new == [s EXCEPT !.pc = "select"]
    <3>1. new \in LoopState /\ new.pc = "select"
      BY <1>0 DEF LoopState
    <3>2. Step(l, new) /\ UNCHANGED failures /\ s.pc = "new"
      BY <1>1, <2>1 DEF NewTicker
    <3> HIDE DEF new
    <3>3. RecordedWithinTimeout'
      BY <3>2, StoredStays DEF Step
    <3>4. Paced(new)
      BY <3>1, IdlePaced
    <3> QED BY <3>1, <3>2, <3>3, <3>4, LoopChange
  <2>2. CASE ~ (interval(l) > 0)
    <3>1. /\ proc' = "panicked" /\ Running
          /\ UNCHANGED <<cfg, started, cancelled, loop, sig, open, expired, request, failures>>
      BY <1>1, <2>2 DEF NewTicker
    <3>2. Shapes' /\ Launched' /\ Stopped' /\ Outlived'
      BY <3>1 DEF Inv, Shapes, Launched, Stopped, Outlived
    <3>3. Pace'
      BY <3>1 DEF Inv, Pace, Paced, Backoffs
    <3> QED BY <3>1, <3>2, <3>3, StoredStays DEF Inv
  <2> QED BY <2>1, <2>2
<1>2. CASE Fire(l)
  <2> DEFINE new == [s EXCEPT !.tick = TRUE]
  <2>1. /\ new \in LoopState /\ new.pc = s.pc /\ new.attempts = s.attempts
        /\ new.age = s.age /\ new.wait = s.wait
    BY <1>0 DEF LoopState
  <2>2. Step(l, new) /\ UNCHANGED failures /\ s.pc \notin {"off", "exited"}
    BY <1>2 DEF Fire
  <2> HIDE DEF new
  <2>3. Paced(new)
    BY <1>0, <2>1 DEF Paced
  <2>4. RecordedWithinTimeout'
    BY <2>2, StoredStays DEF Step
  <2> QED BY <2>1, <2>2, <2>3, <2>4, LoopChange
<1>3. CASE BeginTask(l)
  <2> DEFINE new == [Off EXCEPT !.pc = "attempt"]
  <2>1. new \in LoopState /\ new.pc = "attempt" /\ new.attempts = 0 /\ new.age = 0
    BY OffIsState DEF LoopState
  <2>2. Step(l, new) /\ UNCHANGED failures /\ s.pc = "select"
    BY <1>3 DEF BeginTask
  <2> HIDE DEF new
  <2>3. Paced(new)
    BY <1>0, <2>1, NoBackoffs DEF Paced
  <2>4. RecordedWithinTimeout'
    BY <2>2, StoredStays DEF Step
  <2> QED BY <2>1, <2>2, <2>3, <2>4, LoopChange
<1>4. ASSUME Step(l, [Off EXCEPT !.pc = "select", !.tick = s.tick]),
             s.pc \in {"attempt", "backoff", "record"}, RecordedWithinTimeout'
      PROVE  Inv'
  <2> DEFINE new == [Off EXCEPT !.pc = "select", !.tick = s.tick]
  <2>1. new \in LoopState /\ new.pc = "select"
    BY <1>0, OffIsState DEF LoopState
  <2>2. Step(l, new)
    BY <1>4
  <2> HIDE DEF new
  <2>3. Paced(new)
    BY <2>1, IdlePaced
  <2> QED BY <1>4, <2>1, <2>2, <2>3, LoopChange
<1>5. CASE Succeed(l) \/ GiveUp(l)
  <2>1. /\ Step(l, [Off EXCEPT !.pc = "select", !.tick = s.tick])
        /\ s.pc \in {"attempt", "backoff", "record"} /\ UNCHANGED failures
    BY <1>5 DEF Succeed, GiveUp
  <2>2. RecordedWithinTimeout'
    BY <2>1, StoredStays DEF Step
  <2> QED BY <1>4, <2>1, <2>2
<1>6. CASE Fail(l)
  <2> DEFINE n == s.attempts + 1
  <2>1. s.pc = "attempt" /\ UNCHANGED failures /\ n \in Nat /\ n >= 1 /\ s.attempts = n - 1
    BY <1>0, <1>6 DEF Fail, LoopState
  <2>2. /\ s.attempts < cfg.max_retries /\ s.age \in Nat /\ s.attempts \in Nat
        /\ s.age >= Backoffs(n - 1) \/ s.age >= cfg.task_timeout
    BY <1>0, <2>1 DEF Paced, LoopState
  <2>3. CASE n >= cfg.max_retries
    <3> DEFINE new == [s EXCEPT !.pc = "record", !.attempts = n]
    <3>1. new \in LoopState /\ new.pc = "record" /\ new.attempts = n /\ new.age = s.age
      BY <1>0, <2>1 DEF LoopState
    <3>2. Step(l, new)
      BY <1>6, <2>3 DEF Fail
    <3>3. n = cfg.max_retries
      BY <1>0, <2>1, <2>2, <2>3
    <3> HIDE DEF new, n
    <3>4. Paced(new)
      BY <2>2, <3>1, <3>3 DEF Paced
    <3>5. RecordedWithinTimeout'
      BY <2>1, <3>2, StoredStays DEF Step
    <3> QED BY <2>1, <3>1, <3>2, <3>4, <3>5, LoopChange
  <2>4. CASE ~ (n >= cfg.max_retries)
    <3> DEFINE w == calculateBackoff(n)
               new == [s EXCEPT !.pc = "backoff", !.attempts = n, !.wait = w]
    <3>1. /\ w \in Int /\ Backoffs(n) \in Int /\ Backoffs(n - 1) \in Int
          /\ Backoffs(n) = Backoffs(n - 1) + w
      BY <1>0, <2>1, BackoffsAddUp
    <3>2. Step(l, new)
      BY <1>6, <2>4 DEF Fail
    <3> HIDE DEF w
    <3>3. /\ new \in LoopState /\ new.pc = "backoff" /\ new.attempts = n
          /\ new.age = s.age /\ new.wait = w
      BY <1>0, <2>1, <3>1 DEF LoopState
    <3> HIDE DEF new, n
    <3>4. Paced(new)
      BY <1>0, <2>1, <2>2, <2>4, <3>1, <3>3 DEF Paced
    <3>5. RecordedWithinTimeout'
      BY <2>1, <3>2, StoredStays DEF Step
    <3> QED BY <2>1, <3>2, <3>3, <3>4, <3>5, LoopChange
  <2> QED BY <2>3, <2>4
<1>7. CASE Retry(l)
  <2> DEFINE new == [s EXCEPT !.pc = "attempt"]
  <2>1. /\ new \in LoopState /\ new.pc = "attempt" /\ new.attempts = s.attempts
        /\ new.age = s.age
    BY <1>0 DEF LoopState
  <2>2. Step(l, new) /\ UNCHANGED failures /\ s.pc = "backoff" /\ s.wait <= 0
    BY <1>7 DEF Retry
  <2>3. s.age \in Nat /\ s.wait \in Int /\ s.attempts \in Nat
    BY <1>0 DEF LoopState
  <2>4. Backoffs(s.attempts) \in Int
    <3>1. CASE s.attempts = 0
      BY <1>0, <3>1, NoBackoffs
    <3>2. CASE s.attempts >= 1
      BY <1>0, <2>3, <3>2, BackoffsAddUp
    <3> QED BY <2>3, <3>1, <3>2
  <2> HIDE DEF new
  <2>5. Paced(new)
    BY <1>0, <2>1, <2>2, <2>3, <2>4 DEF Paced
  <2>6. RecordedWithinTimeout'
    BY <2>2, StoredStays DEF Step
  <2> QED BY <2>1, <2>2, <2>5, <2>6, LoopChange
<1>8. CASE recordTaskFailure(l)
  <2>1. Step(l, [Off EXCEPT !.pc = "select", !.tick = s.tick]) /\ s.pc = "record"
    BY <1>8 DEF recordTaskFailure
  <2>2. RecordedWithinTimeout'
    <3>1. CASE UNCHANGED failures
      BY <2>1, <3>1, StoredStays DEF Step
    <3>2. CASE ~ UNCHANGED failures
      <4> DEFINE f == [task |-> l, attempts |-> s.attempts, age |-> s.age]
      <4>1. ~ Done(l) /\ failures' = failures \cup {f}
        BY <1>8, <3>2 DEF recordTaskFailure
      <4>2. s.age < cfg.task_timeout
        BY <1>0, <4>1 DEF Done, LoopState
      <4>3. s.attempts = cfg.max_retries /\ s.age >= Backoffs(cfg.max_retries - 1)
        BY <1>0, <2>1, <4>2 DEF Paced, LoopState
      <4>4. f.attempts = s.attempts /\ f.age = s.age
        OBVIOUS
      <4> HIDE DEF f
      <4> QED BY <2>1, <4>1, <4>2, <4>3, <4>4 DEF Step, Inv, RecordedWithinTimeout, Backoffs
    <3> QED BY <3>1, <3>2
  <2> QED BY <1>4, <2>1, <2>2
<1>9. CASE ExitLoop(l)
  <2> DEFINE new == [Off EXCEPT !.pc = "exited"]
  <2>1. new \in LoopState /\ new.pc = "exited"
    BY OffIsState DEF LoopState
  <2>2. Step(l, new) /\ UNCHANGED failures /\ s.pc = "select" /\ cancelled[owner(l)] = TRUE
    BY <1>0, <1>9 DEF ExitLoop
  <2> HIDE DEF new
  <2>3. RecordedWithinTimeout'
    BY <2>2, StoredStays DEF Step
  <2>4. Paced(new)
    BY <2>1, IdlePaced
  <2> QED BY <2>1, <2>2, <2>3, <2>4, LoopChange
<1> QED BY <1>1, <1>2, <1>3, <1>5, <1>6, <1>7, <1>8, <1>9 DEF LoopStep

\* A failed sweep ends like a successful one.
LEMMA FailSweepStep ==
  ASSUME Inv, FailSweep
  PROVE  Inv'
<1>1. "reeval" \in Loops /\ Succeed("reeval")
  BY Owners DEF FailSweep, Succeed
<1> QED BY <1>1, LoopSteps DEF LoopStep

\* A second passes: what a wait loses, the age gains, until the timeout.
LEMMA TickStep ==
  ASSUME Inv, Tick
  PROVE  Inv'
<1> DEFINE aged(l) == [loop[l] EXCEPT !.wait = IF @ > 0 THEN @ - 1 ELSE @,
                                      !.age = IF @ < cfg.task_timeout THEN @ + 1 ELSE @]
<1>1. /\ loop' = [l \in Loops |-> IF ~InTask(l) THEN loop[l] ELSE aged(l)]
      /\ UNCHANGED <<proc, cfg, started, cancelled, sig, open, expired, request, failures>>
  BY DEF Tick
<1>2. ASSUME NEW l \in Loops
      PROVE  /\ aged(l) \in LoopState /\ aged(l).pc = loop[l].pc
             /\ aged(l).attempts = loop[l].attempts
             /\ aged(l).age = IF loop[l].age < cfg.task_timeout THEN loop[l].age + 1 ELSE loop[l].age
             /\ aged(l).wait = IF loop[l].wait > 0 THEN loop[l].wait - 1 ELSE loop[l].wait
  <2>1. loop[l] \in LoopState /\ cfg.task_timeout \in Int
    BY DEF Inv, Shapes
  <2>2. loop[l].age \in Nat /\ loop[l].wait \in Int
    BY <2>1 DEF LoopState
  <2> DEFINE w == IF loop[l].wait > 0 THEN loop[l].wait - 1 ELSE loop[l].wait
             a == IF loop[l].age < cfg.task_timeout THEN loop[l].age + 1 ELSE loop[l].age
  <2>3. w \in Int /\ a \in Nat
    BY <2>1, <2>2
  <2>4. aged(l) = [loop[l] EXCEPT !.wait = w, !.age = a]
    BY <2>1 DEF LoopState
  <2> HIDE DEF w, a
  <2>5. /\ [loop[l] EXCEPT !.wait = w, !.age = a] \in LoopState
        /\ [loop[l] EXCEPT !.wait = w, !.age = a].pc = loop[l].pc
        /\ [loop[l] EXCEPT !.wait = w, !.age = a].attempts = loop[l].attempts
        /\ [loop[l] EXCEPT !.wait = w, !.age = a].wait = w
        /\ [loop[l] EXCEPT !.wait = w, !.age = a].age = a
    BY <2>1, <2>3 DEF LoopState
  <2> QED BY <2>4, <2>5 DEF w, a
<1> HIDE DEF aged
<1>3. /\ loop' \in [Loops -> LoopState]
      /\ \A l \in Loops : loop'[l].pc = loop[l].pc
  BY <1>1, <1>2 DEF Inv, Shapes
<1>4. Shapes' /\ Outlived'
  BY <1>1, <1>3 DEF Inv, Shapes, Outlived
<1>5. Launched' /\ Stopped'
  BY <1>1, <1>3, Owners DEF Inv, Launched, Stopped
<1>6. ASSUME NEW l \in Loops PROVE Paced(loop'[l])
  <2>1. Paced(loop[l]) /\ loop[l] \in LoopState
    BY DEF Inv, Pace, Shapes
  <2>2. CASE ~ InTask(l)
    BY <1>1, <2>1, <2>2
  <2>3. CASE InTask(l)
    <3>1. loop'[l] = aged(l)
      BY <1>1, <2>3
    <3>2. /\ cfg.task_timeout \in Int /\ cfg.max_retries \in Int /\ cfg.base_backoff \in Int
          /\ cfg.max_retries >= 1
          /\ loop[l].age \in Nat /\ loop[l].wait \in Int /\ loop[l].attempts \in Nat
      BY <2>1 DEF Inv, Shapes, LoopState
    <3>3. \A n \in Nat : Backoffs(n) \in Int
      <4>1. TAKE n \in Nat
      <4>2. CASE n = 0
        BY <3>2, <4>2, NoBackoffs
      <4>3. CASE n >= 1
        BY <3>2, <4>3, BackoffsAddUp
      <4> QED BY <4>2, <4>3
    <3>4. Backoffs(loop[l].attempts) \in Int /\ Backoffs(cfg.max_retries - 1) \in Int
      BY <3>2, <3>3
    <3> DEFINE s == loop[l]
               t == aged(l)
    <3>5. /\ t.pc = s.pc /\ t.attempts = s.attempts
          /\ t.age \in Nat /\ t.wait \in Int /\ t.age >= s.age
          /\ s.age < cfg.task_timeout => t.age = s.age + 1
          /\ t.wait >= s.wait - 1
      BY <1>2, <3>2
    <3> HIDE DEF s, t
    <3>6. /\ s.pc \in {"attempt", "backoff"} => s.attempts < cfg.max_retries
          /\ s.pc = "attempt" => s.age >= Backoffs(s.attempts) \/ s.age >= cfg.task_timeout
          /\ s.pc = "backoff" => s.age + s.wait >= Backoffs(s.attempts) \/ s.age >= cfg.task_timeout
          /\ s.pc = "record" => /\ s.attempts = cfg.max_retries
                                /\ s.age >= Backoffs(cfg.max_retries - 1) \/ s.age >= cfg.task_timeout
      BY <2>1 DEF Paced, s
    <3>7. /\ s.age \in Nat /\ s.wait \in Int /\ s.attempts \in Nat
          /\ Backoffs(s.attempts) \in Int
      BY <3>2, <3>4 DEF s
    <3>8. Paced(t)
      BY <3>2, <3>4, <3>5, <3>6, <3>7 DEF Paced
    <3> QED BY <3>1, <3>8 DEF t
  <2> QED BY <2>2, <2>3
<1>7. Pace'
  BY <1>1, <1>6 DEF Pace, Paced, Backoffs
<1> QED BY <1>1, <1>4, <1>5, <1>7, StoredStays DEF Inv

-----------------------------------------------------------------------------
(***************************************************************************)
(* Start, probe and shutdown.                                              *)
(***************************************************************************)
LEMMA BootStep ==
  ASSUME Inv, Boot
  PROVE  Inv'
<1>1. PICK file \in Files, env \in Envs :
        \/ cfg' \in Loads(file, env) /\ proc' = "main"
        \/ proc' = "exited" /\ UNCHANGED cfg
  BY DEF Boot
<1>2. /\ proc = "init"
      /\ UNCHANGED <<started, cancelled, loop, sig, expired, request, failures>>
  BY DEF Boot
<1>3. /\ cfg'.max_retries \in Int /\ cfg'.max_retries >= 1
      /\ cfg'.base_backoff \in Int /\ cfg'.task_timeout \in Int
  BY <1>1, LoadedNumbers DEF Inv, Shapes
<1>4. Shapes'
  BY <1>1, <1>2, <1>3 DEF Inv, Shapes
<1>5. sig = "off"
  BY <1>2 DEF Inv, Launched
<1>6. Launched' /\ Stopped' /\ Outlived'
  BY <1>1, <1>2, <1>5 DEF Inv, Launched, Stopped, Outlived
<1>7. Pace'
  BY <1>2 DEF Inv, Launched, Pace, Paced
<1>8. RecordedWithinTimeout'
  BY <1>2 DEF Inv, Launched, RecordedWithinTimeout
<1> QED BY <1>4, <1>6, <1>7, <1>8 DEF Inv

LEMMA StartSchedulerStep ==
  ASSUME Inv, StartScheduler
  PROVE  Inv'
<1> DEFINE new == [Off EXCEPT !.pc = "new"]
<1>1. /\ proc = "main" /\ proc' = "scheduler"
      /\ loop' = [l \in Loops |-> IF l \in Tasks THEN new ELSE loop[l]]
      /\ UNCHANGED <<cfg, cancelled, sig, open, expired, request, failures>>
  BY DEF StartScheduler
<1>2. new \in LoopState /\ new.pc = "new"
  BY OffIsState DEF LoopState
<1> HIDE DEF new
<1>3. /\ loop' \in [Loops -> LoopState]
      /\ \A l \in Loops : loop'[l] = new \/ loop'[l] = loop[l]
      /\ \A l \in Tasks : loop'[l] = new
  BY <1>1, <1>2, Owners DEF Inv, Shapes
<1>4. Shapes'
  BY <1>1, <1>3 DEF Inv, Shapes
<1>5. sig = "off"
  BY <1>1 DEF Inv, Launched
<1>6. Launched' /\ Outlived'
  BY <1>1, <1>2, <1>3, <1>5 DEF Inv, Launched, Outlived
<1>7. Stopped'
  BY <1>1, <1>2, <1>3, <1>5 DEF Inv, Stopped, SchedulerDown, SchedulerCancelled, WorkerDown
<1>8. Pace'
  <2>1. \A l \in Loops : Paced(loop'[l])
    BY <1>2, <1>3, IdlePaced DEF Inv, Pace
  <2> QED BY <1>1, <2>1 DEF Pace, Paced, Backoffs
<1> QED BY <1>1, <1>4, <1>6, <1>7, <1>8, StoredStays DEF Inv

LEMMA StartWorkerStep ==
  ASSUME Inv, StartWorker
  PROVE  Inv'
<1> DEFINE new == [loop["reeval"] EXCEPT !.pc = "new"]
<1>1. /\ proc = "scheduler" /\ proc' = "worker"
      /\ loop' = [loop EXCEPT !["reeval"] = new]
      /\ UNCHANGED <<cfg, cancelled, sig, open, expired, request, failures>>
  BY DEF StartWorker
<1>2. new \in LoopState /\ new.pc = "new"
  BY Owners DEF Inv, Shapes, LoopState
<1> HIDE DEF new
<1>3. /\ loop' \in [Loops -> LoopState]
      /\ loop'["reeval"] = new
      /\ \A l \in Loops : l # "reeval" => loop'[l] = loop[l]
  BY <1>1, <1>2, Owners DEF Inv, Shapes
<1>4. Shapes'
  BY <1>1, <1>3 DEF Inv, Shapes
<1>5. sig = "off"
  BY <1>1 DEF Inv, Launched
<1>6. Launched' /\ Outlived'
  BY <1>1, <1>2, <1>3, <1>5, Owners DEF Inv, Launched, Outlived
<1>7. Stopped'
  BY <1>1, <1>2, <1>3, <1>5, Owners DEF Inv, Stopped, SchedulerDown, SchedulerCancelled, WorkerDown
<1>8. Pace'
  <2>1. \A l \in Loops : Paced(loop'[l])
    BY <1>2, <1>3, IdlePaced DEF Inv, Pace
  <2> QED BY <1>1, <2>1 DEF Pace, Paced, Backoffs
<1> QED BY <1>1, <1>4, <1>6, <1>7, <1>8, StoredStays DEF Inv

\* A step that leaves the loops, the configuration and the failures alone.
LEMMA LoopsRest ==
  ASSUME Inv, UNCHANGED <<cfg, loop, failures>>, Shapes', Launched', Stopped', Outlived'
  PROVE  Inv'
<1>1. Pace'
  BY DEF Inv, Pace, Paced, Backoffs
<1> QED BY <1>1, StoredStays DEF Inv

LEMMA MainSteps ==
  ASSUME Inv, ListenAndServe \/ MainReturns
  PROVE  Inv'
<1>1. /\ UNCHANGED <<cfg, started, cancelled, loop, open, expired, request, failures>>
      /\ proc' \in {"serving", "exited"} /\ proc \in {"worker", "serving"}
      /\ \/ sig' = "waiting" /\ proc = "worker"
         \/ UNCHANGED sig /\ sig # "off" /\ proc' = "exited"
  BY DEF ListenAndServe, MainReturns
<1>2. Shapes'
  BY <1>1 DEF Inv, Shapes
<1>3. Launched'
  BY <1>1 DEF Inv, Launched
<1>4. Stopped' /\ Outlived'
  <2>1. CASE UNCHANGED sig
    BY <1>1, <2>1 DEF Inv, Stopped, Outlived
  <2>2. CASE sig' = "waiting" /\ proc = "worker"
    <3>1. sig = "off"
      BY <2>2 DEF Inv, Launched
    <3> QED BY <1>1, <2>2, <3>1 DEF Inv, Stopped, Outlived, SchedulerDown, SchedulerCancelled,
                                    WorkerDown, WorkerCancelled, Drained
  <2> QED BY <1>1, <2>1, <2>2
<1> QED BY <1>1, <1>2, <1>3, <1>4, LoopsRest

LEMMA ProbeSteps ==
  ASSUME Inv, Probe \/ readyz \/ EndProbe
  PROVE  Inv'
<1>1. /\ UNCHANGED <<proc, cfg, started, cancelled, loop, sig, open, expired, failures>>
      /\ request' \in {"none", "open", "ready", "not_ready"}
      /\ request # "none" \/ sig = "waiting"
  BY DEF Probe, readyz, EndProbe
<1>2. Shapes' /\ Launched' /\ Stopped'
  BY <1>1 DEF Inv, Shapes, Launched, Stopped
<1>3. Outlived'
  BY <1>1 DEF Inv, Outlived, Drained, SchedulerCancelled
<1> QED BY <1>1, <1>2, <1>3, LoopsRest

LEMMA SignalSteps ==
  ASSUME Inv, Signal \/ SignalStep
  PROVE  Inv'
<1> USE DEF SchedulerDown, SchedulerCancelled, WorkerDown, WorkerCancelled, Drained
<1>0. cancelled \in [Runners -> BOOLEAN] /\ "scheduler" \in Runners /\ "worker" \in Runners
  BY DEF Inv, Shapes, Runners
<1>1. CASE Signal
  <2>1. /\ sig = "waiting" /\ sig' = "shutdown"
        /\ UNCHANGED <<proc, cfg, started, cancelled, loop, open, expired, request, failures>>
    BY <1>1 DEF Signal
  <2>2. Shapes' /\ Launched' /\ Stopped' /\ Outlived'
    BY <2>1 DEF Inv, Shapes, Launched, Stopped, Outlived
  <2> QED BY <2>1, <2>2, LoopsRest
<1>2. CASE Shutdown
  <2>1. /\ sig = "shutdown" /\ sig' = "drained" /\ expired' = (request # "none")
        /\ UNCHANGED <<proc, cfg, started, cancelled, loop, open, request, failures>>
    BY <1>2 DEF Shutdown
  <2>2. Shapes' /\ Launched' /\ Stopped' /\ Outlived'
    BY <2>1 DEF Inv, Shapes, Launched, Stopped, Outlived
  <2> QED BY <2>1, <2>2, LoopsRest
<1>3. ASSUME NEW r \in Runners, NEW from, NEW to, Cancel(r, from, to),
             \/ r = "scheduler" /\ from = "drained" /\ to = "stopping scheduler"
             \/ r = "worker" /\ from = "scheduler stopped" /\ to = "stopping worker"
      PROVE  Inv'
  <2>1. /\ sig = from /\ sig' = to
        /\ cancelled' = [cancelled EXCEPT ![r] = TRUE]
        /\ UNCHANGED <<proc, cfg, started, loop, open, expired, request, failures>>
    BY <1>3 DEF Cancel
  <2>2. /\ cancelled' \in [Runners -> BOOLEAN] /\ cancelled'[r] = TRUE
        /\ \A q \in Runners : q # r => cancelled'[q] = cancelled[q]
    BY <1>0, <2>1
  <2>3. Shapes' /\ Launched' /\ Outlived'
    BY <1>3, <2>1, <2>2 DEF Inv, Shapes, Launched, Outlived
  <2>4. Stopped'
    BY <1>0, <1>3, <2>1, <2>2 DEF Inv, Stopped, owner
  <2> QED BY <2>1, <2>3, <2>4, LoopsRest
<1>4. ASSUME NEW r \in Runners, NEW from, NEW to, Wait(r, from, to),
             \/ r = "scheduler" /\ from = "stopping scheduler" /\ to = "scheduler stopped"
             \/ r = "worker" /\ from = "stopping worker" /\ to = "worker stopped"
      PROVE  Inv'
  <2>1. /\ sig = from /\ sig' = to
        /\ \A l \in Loops : owner(l) = r => loop[l].pc = "exited"
        /\ UNCHANGED <<proc, cfg, cancelled, loop, open, expired, request, failures>>
    BY <1>4 DEF Wait
  <2>2. Shapes' /\ Launched' /\ Outlived'
    BY <1>4, <2>1 DEF Inv, Shapes, Launched, Outlived
  <2>3. Stopped'
    BY <1>4, <2>1, Owners DEF Inv, Stopped
  <2> QED BY <2>1, <2>2, <2>3, LoopsRest
<1>5. CASE Close
  <2>1. /\ sig = "worker stopped" /\ sig' = "done"
        /\ UNCHANGED <<proc, cfg, started, cancelled, loop, expired, request, failures>>
    BY <1>5 DEF Close
  <2>2. Shapes' /\ Launched' /\ Stopped' /\ Outlived'
    BY <2>1 DEF Inv, Shapes, Launched, Stopped, Outlived
  <2> QED BY <2>1, <2>2, LoopsRest
<1> QED BY <1>0, <1>1, <1>2, <1>3, <1>4, <1>5 DEF SignalStep, StopScheduler, SchedulerStopped,
                                             StopWorker, WorkerStopped

-----------------------------------------------------------------------------
LEMMA InvInit == Init => Inv
<1> SUFFICES ASSUME Init PROVE Inv
  OBVIOUS
<1>1. /\ proc = "init" /\ sig = "off" /\ request = "none" /\ failures = {}
      /\ cancelled = [r \in Runners |-> FALSE] /\ loop = [l \in Loops |-> Off]
  BY DEF Init
<1>2. cfg.max_retries = 3 /\ cfg.base_backoff = 1 /\ cfg.task_timeout = 10
  BY DEF Init, Defaults
<1>3. Shapes
  BY <1>1, <1>2, OffIsState DEF Shapes
<1>4. Launched /\ Outlived
  BY <1>1, OffIsState DEF Launched, Outlived
<1>5. Stopped
  BY <1>1, OffIsState DEF Stopped, SchedulerDown, SchedulerCancelled, WorkerDown, Runners
<1>6. Pace
  BY <1>1, OffIsState, IdlePaced DEF Pace
<1>7. RecordedWithinTimeout
  BY <1>1 DEF RecordedWithinTimeout
<1> QED BY <1>3, <1>4, <1>5, <1>6, <1>7 DEF Inv

LEMMA InvNext == Inv /\ [Next]_vars => Inv'
<1> SUFFICES ASSUME Inv, [Next]_vars PROVE Inv'
  OBVIOUS
<1>1. CASE UNCHANGED vars
  <2>1. Shapes' /\ Launched' /\ Stopped' /\ Outlived'
    BY <1>1 DEF vars, Inv, Shapes, Launched, Stopped, Outlived
  <2> QED BY <1>1, <2>1, LoopsRest DEF vars
<1> QED
  BY <1>1, BootStep, StartSchedulerStep, StartWorkerStep, MainSteps, LoopSteps, FailSweepStep,
     TickStep, ProbeSteps, SignalSteps DEF Next, Ended

LEMMA Invariance == Spec => []Inv
BY InvInit, InvNext, PTL DEF Spec

-----------------------------------------------------------------------------
(***************************************************************************)
(* The theorems.                                                           *)
(***************************************************************************)
\* runWithRetry and recordTaskFailure store a failure only after exactly
\* MaxRetries attempts whose waits fitted into TaskTimeout, for every file and
\* environment Load accepts and any number of retries.
THEOREM FailuresAreTrue == Spec => []RecordedWithinTimeout
<1>1. Inv => RecordedWithinTimeout
  BY DEF Inv
<1> QED BY <1>1, Invariance, PTL

\* The signal goroutine closes the store only when every loop has ended, and
\* every request too unless Shutdown ran out of time.
THEOREM ClosesLast == Spec => []ClosedWhenIdle
<1>1. Inv => ClosedWhenIdle
  BY DEF Inv, Stopped, Outlived, ClosedWhenIdle, Loops, SchedulerDown, SchedulerCancelled,
         WorkerDown, Drained
<1> QED BY <1>1, Invariance, PTL

\* readyz answers ready only while every loop is alive, a request that outlived
\* Shutdown's timeout excepted.
THEOREM ReadyMeansAlive == Spec => ReadyIsTrue
<1> DEFINE Alive == request = "open" /\ request' = "ready" =>
                      expired \/ \A l \in Loops : loop[l].pc \notin {"off", "exited"}
<1>1. ASSUME Inv PROVE Alive
  <2> SUFFICES ASSUME request = "open", ~ expired, NEW l \in Loops
               PROVE  loop[l].pc \notin {"off", "exited"}
    OBVIOUS
  <2>1. sig # "off" /\ sig \notin Drained
    BY <1>1 DEF Inv, Outlived
  <2>2. loop[l].pc # "off"
    BY <1>1, <2>1 DEF Inv, Launched, Loops
  <2>3. cancelled["scheduler"] # TRUE /\ cancelled["worker"] # TRUE
    BY <1>1, <2>1 DEF Inv, Stopped, Drained, SchedulerCancelled, WorkerCancelled
  <2>4. loop[l].pc # "exited"
    BY <1>1, <2>3 DEF Inv, Stopped, owner
  <2> QED BY <2>2, <2>4
<1>2. Inv /\ [Next]_vars => [Alive]_vars
  BY <1>1
<1> QED BY <1>2, Invariance, PTL DEF Spec, ReadyIsTrue

=============================================================================
