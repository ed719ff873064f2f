----------------------------- MODULE TaskRunner -----------------------------
(***************************************************************************)
(* The process of cmd/lightgovernance: its start, the two loops of the     *)
(* scheduler with their retries, the loop of the re-evaluation worker, the *)
(* readiness probe and the shutdown on a signal.  What the tasks do to the *)
(* tables is the subject of CaseFlow and RepoStore; here an attempt        *)
(* succeeds or fails.                                                      *)
(***************************************************************************)
EXTENDS Config

CONSTANTS
    Files,   \* the configuration files a process may be started with
    Envs,    \* the environments
    Tasks    \* the scheduler's tasks: "escalation", "reconciliation"

\* The fields of the configuration that Go types as numbers or durations and
\* that the retries use.
Numbers == {"max_retries", "base_backoff", "task_timeout"}

ASSUME TasksAssumption == Tasks \subseteq {"escalation", "reconciliation"}
ASSUME NumbersAssumption ==
    \A f \in Numbers :
        /\ \A file \in Files : f \in DOMAIN file => file[f] \in Int
        /\ \A env \in Envs : f \in DOMAIN env => env[f] = Unparsable \/ env[f] \in Int

Loops == Tasks \cup {"reeval"}
owner(l) == IF l \in Tasks THEN "scheduler" ELSE "worker"
Runners == {"scheduler", "worker"}

VARIABLES
    proc,      \* the main goroutine: how far the process has come
    cfg,       \* the configuration in force
    started,   \* the Started flags of scheduler and worker
    cancelled, \* whether their contexts were cancelled
    loop,      \* the goroutine of each loop
    sig,       \* the goroutine that waits for the signal
    open,      \* the store is open
    expired,   \* history: Shutdown gave up waiting for open requests
    request,   \* one request of a monitor to /readyz
    failures   \* permanent failures stored: [task, attempts, age]

vars == <<proc, cfg, started, cancelled, loop, sig, open, expired, request, failures>>

Off == [pc |-> "off", tick |-> FALSE, attempts |-> 0, age |-> 0, wait |-> 0]

Running == proc \in {"main", "scheduler", "worker", "serving"}

interval(l) == CASE l = "escalation" -> cfg.escalation_interval
                 [] l = "reconciliation" -> cfg.reconciliation_interval
                 [] l = "reeval" -> cfg.reeval_interval

Init ==
    /\ proc = "init"
    /\ cfg = Defaults
    /\ started = [r \in Runners |-> FALSE]
    /\ cancelled = [r \in Runners |-> FALSE]
    /\ loop = [l \in Loops |-> Off]
    /\ sig = "off"
    /\ open = FALSE /\ expired = FALSE
    /\ request = "none"
    /\ failures = {}

----------------------------------------------------------------------------
(* Start: main.                                                            *)

\* Load and repo.New.  A configuration that is refused, or a store that does
\* not open, ends the process.
Boot ==
    /\ proc = "init"
    /\ \E file \in Files, env \in Envs, ok \in BOOLEAN :
        \/ /\ Loads(file, env) # {} /\ ok
           /\ cfg' \in Loads(file, env)
           /\ proc' = "main" /\ open' = TRUE
        \/ /\ Loads(file, env) = {} \/ ~ok
           /\ proc' = "exited" /\ UNCHANGED <<cfg, open>>
    /\ UNCHANGED <<started, cancelled, loop, sig, expired, request, failures>>

\* Scheduler.Start: the flag is set and both loops are launched.
StartScheduler ==
    /\ proc = "main"
    /\ proc' = "scheduler"
    /\ started' = [started EXCEPT !["scheduler"] = TRUE]
    /\ loop' = [l \in Loops |-> IF l \in Tasks THEN [Off EXCEPT !.pc = "new"] ELSE loop[l]]
    /\ UNCHANGED <<cfg, cancelled, sig, open, expired, request, failures>>

\* ReevalWorker.Start: the loop is launched, then the flag is set.
StartWorker ==
    /\ proc = "scheduler"
    /\ proc' = "worker"
    /\ loop' = [loop EXCEPT !["reeval"].pc = "new"]
    /\ started' = [started EXCEPT !["worker"] = TRUE]
    /\ UNCHANGED <<cfg, cancelled, sig, open, expired, request, failures>>

\* The signal goroutine is launched and the server listens; without its port
\* the process ends and nobody stops the loops.
ListenAndServe ==
    /\ proc = "worker"
    /\ proc' \in {"serving", "exited"}
    /\ sig' = "waiting"
    /\ UNCHANGED <<cfg, started, cancelled, loop, open, expired, request, failures>>

----------------------------------------------------------------------------
(* The loops.                                                              *)

Step(l, new) ==
    /\ Running
    /\ loop' = [loop EXCEPT ![l] = new]
    /\ UNCHANGED <<proc, cfg, started, cancelled, sig, open, expired, request>>

\* The loop creates its ticker, which panics for an interval that is not
\* positive; the panic ends the process.
NewTicker(l) ==
    /\ Running /\ loop[l].pc = "new"
    /\ IF interval(l) > 0
       THEN Step(l, [loop[l] EXCEPT !.pc = "select"]) /\ UNCHANGED failures
       ELSE /\ proc' = "panicked"
            /\ UNCHANGED <<cfg, started, cancelled, loop, sig, open, expired, request, failures>>

\* The ticker fires.  Its channel holds one tick; the others are dropped.
Fire(l) ==
    /\ loop[l].pc \notin {"off", "new", "exited"} /\ ~loop[l].tick
    /\ Step(l, [loop[l] EXCEPT !.tick = TRUE])
    /\ UNCHANGED failures

\* The loop takes the tick and runs its task under a fresh task context.
BeginTask(l) ==
    /\ loop[l].pc = "select" /\ loop[l].tick
    /\ Step(l, [Off EXCEPT !.pc = "attempt"])
    /\ UNCHANGED failures

\* The task context is done: the runner was stopped or the timeout has passed.
Done(l) == cancelled[owner(l)] \/ loop[l].age >= cfg.task_timeout

\* An attempt, or a sweep of the worker, succeeds.
Succeed(l) ==
    /\ loop[l].pc = "attempt"
    /\ Step(l, [Off EXCEPT !.pc = "select", !.tick = loop[l].tick])
    /\ UNCHANGED failures

\* Deliberate fault: the shift starts at zero twice.
calculateBackoffSlow(attempt) == cfg.base_backoff * 2 ^ (IF attempt > 11 THEN 10 ELSE IF attempt < 2 THEN 0 ELSE attempt - 2)

\* The wait after a failed attempt doubles, at most ten times.
calculateBackoff(attempt) == cfg.base_backoff * 2 ^ (IF attempt > 11 THEN 10 ELSE attempt - 1)

\* Deliberate fault: the attempts are counted from zero each time.
FailAfresh(l) ==
    /\ l \in Tasks /\ loop[l].pc = "attempt"
    /\ Step(l, IF 1 >= cfg.max_retries
               THEN [loop[l] EXCEPT !.pc = "record", !.attempts = 1]
               ELSE [loop[l] EXCEPT !.pc = "backoff", !.attempts = 1, !.wait = calculateBackoff(1)])
    /\ UNCHANGED failures

\* An attempt of a scheduler task fails: runWithRetry backs off or, after the
\* last attempt, goes on to record the failure.
Fail(l) ==
    /\ l \in Tasks /\ loop[l].pc = "attempt"
    /\ LET n == loop[l].attempts + 1
       IN Step(l, IF n >= cfg.max_retries
                  THEN [loop[l] EXCEPT !.pc = "record", !.attempts = n]
                  ELSE [loop[l] EXCEPT !.pc = "backoff", !.attempts = n, !.wait = calculateBackoff(n)])
    /\ UNCHANGED failures

\* The worker logs a failed sweep and waits for the next tick.
FailSweep ==
    /\ loop["reeval"].pc = "attempt"
    /\ Step("reeval", [Off EXCEPT !.pc = "select", !.tick = loop["reeval"].tick])
    /\ UNCHANGED failures

\* The backoff is over; select may take it although the context is done too.
Retry(l) ==
    /\ loop[l].pc = "backoff" /\ loop[l].wait <= 0
    /\ Step(l, [loop[l] EXCEPT !.pc = "attempt"])
    /\ UNCHANGED failures

\* The context is done before the next attempt: the task ends without a record.
GiveUp(l) ==
    /\ loop[l].pc = "backoff" /\ Done(l)
    /\ Step(l, [Off EXCEPT !.pc = "select", !.tick = loop[l].tick])
    /\ UNCHANGED failures

\* recordTaskFailure stores the failure under the context of the task: when
\* that is done, or the store fails, the record is lost.
recordTaskFailure(l) ==
    /\ loop[l].pc = "record"
    /\ Step(l, [Off EXCEPT !.pc = "select", !.tick = loop[l].tick])
    /\ \/ /\ ~Done(l)
          /\ failures' = failures \cup {[task |-> l, attempts |-> loop[l].attempts, age |-> loop[l].age]}
       \/ UNCHANGED failures

\* The loop sees the cancelled context; select may also take a tick instead.
ExitLoop(l) ==
    /\ loop[l].pc = "select" /\ cancelled[owner(l)]
    /\ Step(l, [Off EXCEPT !.pc = "exited"])
    /\ UNCHANGED failures

LoopStep(l) ==
    \/ NewTicker(l) \/ BeginTask(l) \/ Succeed(l) \/ Fail(l) \/ Retry(l) \/ GiveUp(l)
    \/ recordTaskFailure(l) \/ ExitLoop(l)

InTask(l) == loop[l].pc \in {"attempt", "backoff", "record"}

\* A second passes for the running tasks.  The age stops at the timeout, where
\* it has had its effect.
Tick ==
    /\ Running
    /\ \E l \in Loops : InTask(l) /\ (loop[l].wait > 0 \/ loop[l].age < cfg.task_timeout)
    /\ loop' = [l \in Loops |->
                  IF ~InTask(l) THEN loop[l]
                  ELSE [loop[l] EXCEPT !.wait = IF @ > 0 THEN @ - 1 ELSE @,
                                       !.age = IF @ < cfg.task_timeout THEN @ + 1 ELSE @]]
    /\ UNCHANGED <<proc, cfg, started, cancelled, sig, open, expired, request, failures>>

----------------------------------------------------------------------------
(* The readiness probe and the shutdown.                                   *)

\* A request reaches /readyz while the server listens.
Probe ==
    /\ proc = "serving" /\ sig = "waiting" /\ request = "none"
    /\ request' = "open"
    /\ UNCHANGED <<proc, cfg, started, cancelled, loop, sig, open, expired, failures>>

\* readyz: the store answers, the data directory is writable and both flags
\* are set.
readyz ==
    /\ Running /\ request = "open"
    /\ \E writable \in BOOLEAN :
        request' = IF open /\ writable /\ started["scheduler"] /\ started["worker"]
                   THEN "ready" ELSE "not_ready"
    /\ UNCHANGED <<proc, cfg, started, cancelled, loop, sig, open, expired, failures>>

\* The answer is written.
EndProbe ==
    /\ Running /\ request \in {"ready", "not_ready"}
    /\ request' = "none"
    /\ UNCHANGED <<proc, cfg, started, cancelled, loop, sig, open, expired, failures>>

\* SIGINT or SIGTERM: Shutdown closes the listener.
Signal ==
    /\ Running /\ sig = "waiting"
    /\ sig' = "shutdown"
    /\ UNCHANGED <<proc, cfg, started, cancelled, loop, open, expired, request, failures>>

\* Deliberate fault: Shutdown is not waited for.
ShutdownAtOnce ==
    /\ Running /\ sig = "shutdown"
    /\ sig' = "drained"
    /\ UNCHANGED <<proc, cfg, started, cancelled, loop, open, expired, request, failures>>

\* Shutdown returns when no request is open or when its timeout has passed.
Shutdown ==
    /\ Running /\ sig = "shutdown"
    /\ sig' = "drained"
    /\ expired' = (request # "none")
    /\ UNCHANGED <<proc, cfg, started, cancelled, loop, open, request, failures>>

\* Deliberate fault: Stop waits without having cancelled.
CancelNot(r, from, to) ==
    /\ Running /\ sig = from
    /\ sig' = to
    /\ UNCHANGED <<proc, cfg, started, cancelled, loop, open, expired, request, failures>>

\* Stop of the scheduler, then of the worker: the context is cancelled ...
Cancel(r, from, to) ==
    /\ Running /\ sig = from
    /\ cancelled' = [cancelled EXCEPT ![r] = TRUE]
    /\ sig' = to
    /\ UNCHANGED <<proc, cfg, started, loop, open, expired, request, failures>>

\* Deliberate fault: Stop does not wait for the goroutines.
WaitNot(r, from, to) ==
    /\ Running /\ sig = from
    /\ started' = [started EXCEPT ![r] = FALSE]
    /\ sig' = to
    /\ UNCHANGED <<proc, cfg, cancelled, loop, open, expired, request, failures>>

\* ... and after its goroutines have ended the flag is cleared.
Wait(r, from, to) ==
    /\ Running /\ sig = from
    /\ \A l \in Loops : owner(l) = r => loop[l].pc = "exited"
    /\ started' = [started EXCEPT ![r] = FALSE]
    /\ sig' = to
    /\ UNCHANGED <<proc, cfg, cancelled, loop, open, expired, request, failures>>

StopScheduler == Cancel("scheduler", "drained", "stopping scheduler")
SchedulerStopped == Wait("scheduler", "stopping scheduler", "scheduler stopped")
StopWorker == Cancel("worker", "scheduler stopped", "stopping worker")
WorkerStopped == Wait("worker", "stopping worker", "worker stopped")

\* The store is closed and the signal goroutine ends.
Close ==
    /\ Running /\ sig = "worker stopped"
    /\ open' = FALSE
    /\ sig' = "done"
    /\ UNCHANGED <<proc, cfg, started, cancelled, loop, expired, request, failures>>

SignalStep == Shutdown \/ StopScheduler \/ SchedulerStopped \/ StopWorker \/ WorkerStopped \/ Close

\* ListenAndServe returns as soon as Shutdown has begun, and with it main: the
\* process ends wherever its goroutines are.
MainReturns ==
    /\ proc = "serving" /\ sig \notin {"off", "waiting"}
    /\ proc' = "exited"
    /\ UNCHANGED <<cfg, started, cancelled, loop, sig, open, expired, request, failures>>

\* The process is gone.
Ended == proc \in {"exited", "panicked"} /\ UNCHANGED vars

Next ==
    \/ Boot \/ StartScheduler \/ StartWorker \/ ListenAndServe
    \/ \E l \in Loops : LoopStep(l) \/ Fire(l)
    \/ FailSweep \/ Tick
    \/ Probe \/ readyz \/ EndProbe
    \/ Signal \/ SignalStep \/ MainReturns \/ Ended

\* The goroutines run, time passes, and Go's select, which draws at random
\* among the ready cases, does not pass over a closed context forever.  The
\* return of main is not fair: what Stop does must not depend on it.
Fairness ==
    /\ \A l \in Loops : WF_vars(LoopStep(l)) /\ SF_vars(ExitLoop(l))
    /\ WF_vars(Tick)
    /\ WF_vars(SignalStep)

Spec == Init /\ [][Next]_vars /\ Fairness

----------------------------------------------------------------------------
\* The waits between n + 1 attempts: doubling ten times, then constant.
Backoffs(n) ==
    cfg.base_backoff * (IF n > 11 THEN 2 ^ 11 - 1 + (n - 11) * 2 ^ 10 ELSE 2 ^ n - 1)

\* A stored failure tells the truth and is rare: the task really failed
\* MaxRetries times with doubling waits in between, and all of that fitted
\* into TaskTimeout, whatever file and environment said: Load validates after
\* both, so there is at least one attempt.  With a timeout shorter than the
\* waits no failure is ever stored (runWithRetry, calculateBackoff,
\* recordTaskFailure under the task's context).
RecordedWithinTimeout ==
    \A f \in failures :
        /\ f.attempts = cfg.max_retries
        /\ f.age >= Backoffs(cfg.max_retries - 1)
        /\ f.age < cfg.task_timeout

\* The store is closed only after every loop has ended, and after every request
\* unless Shutdown ran out of time (the order of the signal goroutine).
ClosedWhenIdle ==
    sig = "done" => /\ \A l \in Loops : loop[l].pc = "exited"
                    /\ request # "none" => expired

\* A probe is told "ready" only while all loops are alive: the flags are
\* cleared after the loops have ended, so a request that outlives Shutdown's
\* timeout is the only one that may be told otherwise.
ReadyIsTrue ==
    [][request = "open" /\ request' = "ready" =>
            expired \/ \A l \in Loops : loop[l].pc \notin {"off", "exited"}]_vars

\* A shutdown that has begun reaches its end, however the loops race with
\* their tickers and backoffs: Stop never waits forever.
StopReturns == sig = "shutdown" ~> (sig = "done" \/ ~Running)

\* A task that was begun ends, also when every attempt fails.
TaskEnds == \A l \in Loops : loop[l].pc = "attempt" ~> (loop[l].pc \in {"select", "exited"} \/ ~Running)
=============================================================================
