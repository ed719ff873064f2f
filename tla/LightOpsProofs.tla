--------------------------- MODULE LightOpsProofs ---------------------------
(***************************************************************************)
(* Proofs about LightOps, for every set of identifiers, callers and        *)
(* request keys and every bound on the versions.                           *)
(***************************************************************************)
EXTENDS LightOps, FiniteSetTheorems, TLAPS

-----------------------------------------------------------------------------
(***************************************************************************)
(* The inductive invariant.  TypeOK is not inductive by itself: the maps   *)
(* of the callers have to be maps, and the events a list.                  *)
(***************************************************************************)
Copies == [id : ComplaintIDs, was : Complaint]
Jobs   == PlanIDs \X ComplaintIDs \X Districts \X Keys

Shapes ==
  /\ events \in Seq(ComplaintIDs)
  /\ seen \in [Reviewers -> {None} \cup Copies]
  /\ retrying \in [Workers -> {None} \cup Jobs]

\* OperationsAreWhole with "exactly one" spelled out, and what it leaves open:
\* a complaint key never names a complaint that is not there.
OneEvent ==
  /\ \A i \in 1 .. Len(events) : events[i] \in DOMAIN complaints
  /\ \A id \in DOMAIN complaints : \E i \in 1 .. Len(events) :
       /\ events[i] = id
       /\ \A j \in 1 .. Len(events) : events[j] = id => j = i

ComplaintKeys == {k \in DOMAIN idempotency : k[2] = "complaint"}
PlanKeys      == {k \in DOMAIN idempotency : k[2] = "plan"}

OneKey ==
  /\ \A k \in ComplaintKeys :
       /\ idempotency[k] \in DOMAIN complaints
       /\ k[1] = complaints[idempotency[k]].district
  /\ \A id \in DOMAIN complaints : \E k \in ComplaintKeys :
       /\ idempotency[k] = id
       /\ \A l \in ComplaintKeys : idempotency[l] = id => l = k

PlansHaveKeys ==
  /\ \A k \in PlanKeys : idempotency[k] \in DOMAIN plans
  /\ \A id \in DOMAIN plans : \E k \in PlanKeys : idempotency[k] = id

\* A record that can still be reviewed or released is at its first version.
FirstVersions ==
  /\ \A id \in DOMAIN plans : plans[id].status = "submitted" => plans[id].version = 1
  /\ \A id \in DOMAIN assessments :
       ~ assessments[id].released => assessments[id].version = 1

\* A copy never runs ahead of the store, and one of the same version is the
\* stored complaint.
CopiesAreTrue ==
  \A r \in Reviewers : seen[r] # None =>
    /\ seen[r].id \in DOMAIN complaints
    /\ seen[r].was.version <= complaints[seen[r].id].version
    /\ seen[r].was.version = complaints[seen[r].id].version
         => seen[r].was = complaints[seen[r].id]

Inv ==
  /\ TypeOK /\ Shapes
  /\ OneEvent /\ OneKey /\ PlansHaveKeys
  /\ RecordsResolve /\ FirstVersions /\ CopiesAreTrue

-----------------------------------------------------------------------------
(***************************************************************************)
(* Facts about the operators the actions are built from.                   *)
(***************************************************************************)
\* What Append does to a list.
LEMMA AppendEntry ==
  ASSUME NEW S, NEW s \in Seq(S), NEW e \in S
  PROVE  /\ Append(s, e) \in Seq(S)
         /\ Len(Append(s, e)) = Len(s) + 1
         /\ Append(s, e)[Len(s) + 1] = e
         /\ \A i \in 1 .. Len(s) : Append(s, e)[i] = s[i]
OBVIOUS

\* A set with exactly one element has cardinality one.
LEMMA ExactlyOne ==
  ASSUME NEW S, NEW x \in S, \A y \in S : y = x
  PROVE  Cardinality(S) = 1
<1>1. S = {x}
  OBVIOUS
<1> QED BY <1>1, FS_Singleton

\* The versions of a complaint are natural numbers.
LEMMA ComplaintVersions ==
  ASSUME NEW c \in Complaint
  PROVE  /\ c.version \in Nat /\ c.version <= MaxVersion
         /\ c.version < MaxVersion => c.version + 1 \in 1 .. MaxVersion
BY IntakeAssumption DEF Complaint

-----------------------------------------------------------------------------
(***************************************************************************)
(* The three ways a step changes the store: a complaint is revised under   *)
(* the next version, a plan or an assessment is put for a complaint of its *)
(* district, a complaint is added.                                         *)
(***************************************************************************)
Revises(id, revised) ==
  /\ id \in DOMAIN complaints
  /\ revised \in Complaint
  /\ revised.district = complaints[id].district
  /\ revised.version = complaints[id].version + 1
  /\ complaints' = [complaints EXCEPT ![id] = revised]

LEMMA RevisionKeeps ==
  ASSUME Inv, NEW id, NEW revised, Revises(id, revised)
  PROVE  /\ DOMAIN complaints' = DOMAIN complaints
         /\ \A c \in DOMAIN complaints :
              /\ complaints'[c] \in Complaint
              /\ complaints'[c].district = complaints[c].district
BY DEF Revises, Inv, TypeOK

\* A revision makes every copy of the complaint an old one.
LEMMA RevisionCopies ==
  ASSUME Inv, NEW id, NEW revised, Revises(id, revised), UNCHANGED seen
  PROVE  CopiesAreTrue'
<1> SUFFICES ASSUME NEW r \in Reviewers, seen[r] # None
             PROVE  /\ seen[r].id \in DOMAIN complaints'
                    /\ seen[r].was.version <= complaints'[seen[r].id].version
                    /\ seen[r].was.version = complaints'[seen[r].id].version
                         => seen[r].was = complaints'[seen[r].id]
  BY DEF CopiesAreTrue
<1> DEFINE c == seen[r].id
<1>1. /\ c \in DOMAIN complaints /\ seen[r].was.version <= complaints[c].version
      /\ seen[r].was.version = complaints[c].version => seen[r].was = complaints[c]
  BY DEF Inv, CopiesAreTrue
<1>2. seen[r] \in Copies
  BY DEF Inv, Shapes
<1>3. seen[r].was.version \in Nat /\ complaints[c].version \in Nat
  BY <1>1, <1>2, ComplaintVersions DEF Copies, Inv, TypeOK
<1>4. CASE c = id
  <2>1. complaints'[c] = revised /\ c \in DOMAIN complaints'
    BY <1>1, <1>4 DEF Revises
  <2> QED BY <1>1, <1>3, <1>4, <2>1 DEF Revises
<1>5. CASE c # id
  <2>1. complaints'[c] = complaints[c] /\ c \in DOMAIN complaints'
    BY <1>1, <1>5 DEF Revises
  <2> QED BY <1>1, <2>1
<1> QED BY <1>4, <1>5

\* The parts of the invariant that look at the complaints only for their ids
\* and their districts survive every revision.
LEMMA RevisionInv ==
  ASSUME Inv, NEW id, NEW revised, Revises(id, revised),
         UNCHANGED <<schedules, events, idempotency, seen, retrying>>,
         TypeOK', RecordsResolve', FirstVersions', DOMAIN plans' = DOMAIN plans
  PROVE  Inv'
<1>1. Shapes'
  BY DEF Inv, Shapes
<1>2. OneEvent'
  BY RevisionKeeps DEF Inv, OneEvent
<1>3. OneKey'
  BY RevisionKeeps DEF Inv, OneKey, ComplaintKeys
<1>4. PlansHaveKeys'
  BY DEF Inv, PlansHaveKeys, PlanKeys
<1>5. CopiesAreTrue'
  BY RevisionCopies
<1> QED BY <1>1, <1>2, <1>3, <1>4, <1>5 DEF Inv

\* A step that only revises a complaint.
LEMMA OnlyRevises ==
  ASSUME Inv, NEW id, NEW revised, Revises(id, revised),
         UNCHANGED <<plans, assessments, schedules, events, idempotency, seen, retrying>>
  PROVE  Inv'
<1>1. TypeOK'
  BY RevisionKeeps DEF Inv, TypeOK
<1>2. RecordsResolve'
  BY RevisionKeeps DEF Inv, RecordsResolve, Publishable
<1>3. FirstVersions'
  BY DEF Inv, FirstVersions
<1> QED BY <1>1, <1>2, <1>3, RevisionInv

LEMMA SubmitComplaintStep ==
  ASSUME Inv, NEW id \in ComplaintIDs, NEW d \in Districts, NEW f \in Intakes,
         NEW k \in Keys, NEW fails \in BOOLEAN, SubmitComplaint(id, d, f, k, fails)
  PROVE  Inv'
<1>1. CASE fails
  <2>1. UNCHANGED vars
    BY <1>1 DEF SubmitComplaint, vars
  <2> QED BY <2>1 DEF vars, Inv, TypeOK, Shapes, OneEvent, OneKey, PlansHaveKeys,
            RecordsResolve, FirstVersions, CopiesAreTrue, ComplaintKeys, PlanKeys, Publishable
<1>2. CASE ~ fails
  <2> DEFINE new == NewComplaint(d, f)
             key == complaintKey(d, k)
  <2>1. /\ key \notin DOMAIN idempotency /\ id \notin DOMAIN complaints
        /\ complaints' = Put(complaints, id, new)
        /\ events' = Append(events, id)
        /\ idempotency' = Put(idempotency, key, id)
        /\ UNCHANGED <<plans, assessments, schedules, seen, retrying>>
    BY <1>2 DEF SubmitComplaint
  <2>2. new \in Complaint /\ new.district = d
    BY IntakeAssumption DEF NewComplaint, Complaint
  <2>3. key \in Districts \X {"complaint", "plan"} \X Keys /\ key[1] = d /\ key[2] = "complaint"
    BY DEF complaintKey
  <2> HIDE DEF new, key
  <2>4. /\ DOMAIN complaints' = DOMAIN complaints \cup {id}
        /\ complaints'[id] = new
        /\ \A c \in DOMAIN complaints : complaints'[c] = complaints[c]
    BY <2>1 DEF Put
  <2>5. /\ DOMAIN idempotency' = DOMAIN idempotency \cup {key}
        /\ idempotency'[key] = id
        /\ \A l \in DOMAIN idempotency : idempotency'[l] = idempotency[l]
    BY <2>1 DEF Put
  <2>6. /\ events' \in Seq(ComplaintIDs) /\ Len(events) \in Nat
        /\ Len(events') = Len(events) + 1
        /\ events'[Len(events) + 1] = id
        /\ \A i \in 1 .. Len(events) : events'[i] = events[i]
    BY <2>1, AppendEntry DEF Inv, Shapes
  <2>7. TypeOK'
    BY <2>1, <2>2, <2>3, <2>4, <2>5, <2>6 DEF Inv, TypeOK
  <2>8. Shapes'
    BY <2>1, <2>6 DEF Inv, Shapes
  <2>9. OneEvent'
    <3>1. \A i \in 1 .. Len(events') : events'[i] \in DOMAIN complaints'
      BY <2>4, <2>6 DEF Inv, OneEvent
    <3>2. ASSUME NEW c \in DOMAIN complaints'
          PROVE  \E i \in 1 .. Len(events') :
                   /\ events'[i] = c
                   /\ \A j \in 1 .. Len(events') : events'[j] = c => j = i
      <4>1. CASE c = id
        <5>1. \A j \in 1 .. Len(events') : events'[j] = c => j = Len(events) + 1
          BY <4>1, <2>1, <2>6 DEF Inv, OneEvent
        <5>2. Len(events) + 1 \in 1 .. Len(events')
          BY <2>6
        <5> QED BY <4>1, <5>1, <5>2, <2>6
      <4>2. CASE c # id
        <5>1. c \in DOMAIN complaints
          BY <4>2, <2>4
        <5>2. PICK i \in 1 .. Len(events) : 
                     events[i] = c /\ \A j \in 1 .. Len(events) : events[j] = c => j = i
          BY <5>1 DEF Inv, OneEvent
        <5>3. \A j \in 1 .. Len(events') : events'[j] = c => j = i
          BY <4>2, <5>2, <2>6
        <5>4. i \in 1 .. Len(events') /\ events'[i] = c
          BY <5>2, <2>6
        <5> QED BY <5>3, <5>4
      <4> QED BY <4>1, <4>2
    <3> QED BY <3>1, <3>2 DEF OneEvent
  <2>10. OneKey'
    <3>1. ComplaintKeys' = ComplaintKeys \cup {key}
      BY <2>3, <2>5 DEF ComplaintKeys
    <3>2. ASSUME NEW l \in ComplaintKeys'
          PROVE  /\ idempotency'[l] \in DOMAIN complaints'
                 /\ l[1] = complaints'[idempotency'[l]].district
      <4>1. CASE l = key
        BY <4>1, <2>2, <2>3, <2>4, <2>5
      <4>2. CASE l # key
        <5>1. l \in ComplaintKeys /\ l \in DOMAIN idempotency
          BY <4>2, <3>1 DEF ComplaintKeys
        <5> QED BY <5>1, <2>4, <2>5 DEF Inv, OneKey
      <4> QED BY <4>1, <4>2
    <3>3. ASSUME NEW c \in DOMAIN complaints'
          PROVE  \E l \in ComplaintKeys' :
                   /\ idempotency'[l] = c
                   /\ \A m \in ComplaintKeys' : idempotency'[m] = c => m = l
      <4>1. \A m \in ComplaintKeys : idempotency'[m] = idempotency[m] /\ idempotency[m] # id
        BY <2>1, <2>5 DEF ComplaintKeys, Inv, OneKey
      <4>2. CASE c = id
        BY <4>1, <4>2, <2>5, <3>1
      <4>3. CASE c # id
        <5>1. PICK l \in ComplaintKeys : 
                idempotency[l] = c /\ \A m \in ComplaintKeys : idempotency[m] = c => m = l
          BY <4>3, <2>4 DEF Inv, OneKey
        <5> QED BY <4>1, <4>3, <5>1, <2>5, <3>1
      <4> QED BY <4>2, <4>3
    <3> QED BY <3>2, <3>3 DEF OneKey
  <2>11. PlansHaveKeys'
    <3>1. PlanKeys' = PlanKeys
      BY <2>3, <2>5 DEF PlanKeys
    <3> QED BY <3>1, <2>1, <2>5 DEF Inv, PlansHaveKeys, PlanKeys
  <2>12. RecordsResolve'
    BY <2>1, <2>4 DEF Inv, RecordsResolve, Publishable
  <2>13. CopiesAreTrue' /\ FirstVersions'
    BY <2>1, <2>4 DEF Inv, CopiesAreTrue, FirstVersions
  <2> QED BY <2>7, <2>8, <2>9, <2>10, <2>11, <2>12, <2>13 DEF Inv
<1> QED BY <1>1, <1>2

\* What publishLocked does, called by PublishPlan or by the second attempt.
LEMMA PublishStep ==
  ASSUME Inv, NEW id \in PlanIDs, NEW c \in ComplaintIDs, NEW d \in Districts,
         NEW k \in Keys, NEW fails \in BOOLEAN,
         Publishable(c, d), publishLocked(id, c, d, k, fails),
         UNCHANGED <<complaints, assessments, schedules, events, seen>>,
         retrying' \in [Workers -> {None} \cup Jobs],
         \A w \in Workers : retrying'[w] = None \/ retrying'[w] = retrying[w]
  PROVE  Inv'
<1> DEFINE key == actionKey(d, "plan", k)
<1>0. /\ Shapes' /\ OneEvent' /\ CopiesAreTrue'
  BY DEF Inv, Shapes, OneEvent, CopiesAreTrue
<1>1. CASE fails \/ key \in DOMAIN idempotency
  <2>1. UNCHANGED <<plans, idempotency>>
    BY <1>1 DEF publishLocked
  <2>2. TypeOK'
    BY <2>1 DEF Inv, TypeOK, Shapes, Jobs
  <2>3. OneKey' /\ PlansHaveKeys'
    BY <2>1 DEF Inv, OneKey, PlansHaveKeys, ComplaintKeys, PlanKeys
  <2>4. RecordsResolve' /\ FirstVersions'
    BY <2>1 DEF Inv, RecordsResolve, Publishable, FirstVersions
  <2> QED BY <1>0, <2>2, <2>3, <2>4 DEF Inv
<1>2. CASE ~ (fails \/ key \in DOMAIN idempotency)
  <2> DEFINE new == NewPlan(c, d)
  <2>1. /\ key \notin DOMAIN idempotency
        /\ plans' = Put(plans, id, new)
        /\ idempotency' = Put(idempotency, key, id)
    BY <1>2 DEF publishLocked
  <2>2. new \in Plan /\ new.district = d /\ new.complaint = c /\ new.version = 1
    BY DEF NewPlan, Plan
  <2>3. key \in Districts \X {"complaint", "plan"} \X Keys /\ key[2] = "plan"
    BY DEF actionKey
  <2> HIDE DEF new, key
  <2>4. /\ DOMAIN plans' = DOMAIN plans \cup {id}
        /\ plans'[id] = new
        /\ \A p \in DOMAIN plans : p # id => plans'[p] = plans[p]
    BY <2>1 DEF Put
  <2>5. /\ DOMAIN idempotency' = DOMAIN idempotency \cup {key}
        /\ idempotency'[key] = id
        /\ \A l \in DOMAIN idempotency : idempotency'[l] = idempotency[l]
    BY <2>1 DEF Put
  <2>6. TypeOK'
    BY <2>2, <2>3, <2>4, <2>5 DEF Inv, TypeOK, Jobs
  <2>7. OneKey'
    <3>1. ComplaintKeys' = ComplaintKeys
      BY <2>3, <2>5 DEF ComplaintKeys
    <3> QED BY <3>1, <2>5 DEF Inv, OneKey, ComplaintKeys
  <2>8. PlansHaveKeys'
    <3>1. PlanKeys' = PlanKeys \cup {key}
      BY <2>3, <2>5 DEF PlanKeys
    <3>2. \A l \in PlanKeys : idempotency'[l] = idempotency[l]
      BY <2>5 DEF PlanKeys
    <3> QED BY <3>1, <3>2, <2>4, <2>5 DEF Inv, PlansHaveKeys
  <2>9. RecordsResolve'
    BY <2>2, <2>4 DEF Inv, RecordsResolve, Publishable
  <2>10. FirstVersions'
    BY <2>2, <2>4 DEF Inv, FirstVersions
  <2> QED BY <1>0, <2>6, <2>7, <2>8, <2>9, <2>10 DEF Inv
<1> QED BY <1>1, <1>2

LEMMA RetryStep ==
  ASSUME Inv, NEW w \in Workers, NEW id \in PlanIDs, NEW c \in ComplaintIDs,
         NEW d \in Districts, NEW k \in Keys, RetryPlanPublication(w, id, c, d, k)
  PROVE  Inv'
<1> DEFINE job == <<id, c, d, k>>
<1>1. /\ job \in Jobs /\ job[2] = c /\ job[3] = d
      /\ Publishable(c, d)
      /\ retrying' = [retrying EXCEPT ![w] = job]
      /\ UNCHANGED <<complaints, plans, assessments, schedules, events, idempotency, seen>>
  BY DEF RetryPlanPublication, store, Jobs
<1> HIDE DEF job
<1>2. retrying' \in [Workers -> {None} \cup Jobs]
  BY <1>1 DEF Inv, Shapes
<1>3. TypeOK' /\ Shapes'
  BY <1>1, <1>2 DEF Inv, TypeOK, Shapes, Jobs
<1>4. OneEvent' /\ OneKey' /\ PlansHaveKeys'
  BY <1>1 DEF Inv, OneEvent, OneKey, PlansHaveKeys, ComplaintKeys, PlanKeys
<1>5. RecordsResolve'
  BY <1>1 DEF Inv, Shapes, RecordsResolve, Publishable
<1>6. CopiesAreTrue' /\ FirstVersions'
  BY <1>1 DEF Inv, CopiesAreTrue, FirstVersions
<1> QED BY <1>3, <1>4, <1>5, <1>6 DEF Inv

LEMMA SecondAttemptStep ==
  ASSUME Inv, NEW w \in Workers, NEW fails \in BOOLEAN, SecondAttempt(w, fails)
  PROVE  Inv'
<1> DEFINE job == retrying[w]
<1>1. job \in Jobs
  BY DEF SecondAttempt, Inv, Shapes
<1>2. job[1] \in PlanIDs /\ job[2] \in ComplaintIDs /\ job[3] \in Districts /\ job[4] \in Keys
  BY <1>1 DEF Jobs
<1>3. /\ Publishable(job[2], job[3])
      /\ publishLocked(job[1], job[2], job[3], job[4], fails)
      /\ UNCHANGED <<complaints, assessments, schedules, events, seen>>
  BY DEF SecondAttempt
<1>4. /\ retrying' \in [Workers -> {None} \cup Jobs]
      /\ \A x \in Workers : retrying'[x] = None \/ retrying'[x] = retrying[x]
  BY DEF SecondAttempt, Inv, Shapes
<1> QED BY <1>2, <1>3, <1>4, PublishStep

\* VerifyPlan takes the complaint of the plan without looking for it, and
\* finds it because the plan's record resolves.
LEMMA VerifyPlanStep ==
  ASSUME Inv, NEW d \in Districts, NEW id \in PlanIDs, NEW v \in 1 .. 2,
         VerifyPlan(d, id, v)
  PROVE  Inv'
<1> DEFINE c == plans[id].complaint
           revised == [complaints[c] EXCEPT !.plan = id, !.version = @ + 1]
<1>1. /\ id \in DOMAIN plans /\ plans[id] \in Plan
      /\ plans[id].version = v /\ plans[id].status = "submitted"
      /\ c \in DOMAIN complaints /\ complaints[c] \in Complaint
      /\ complaints[c].version < MaxVersion
  BY DEF VerifyPlan, Inv, TypeOK, RecordsResolve, Publishable
<1>2. complaints' = [complaints EXCEPT ![c] = revised]
  BY <1>1 DEF VerifyPlan
<1>3. /\ revised \in Complaint /\ revised.district = complaints[c].district
      /\ revised.version = complaints[c].version + 1
  BY <1>1, ComplaintVersions DEF Complaint
<1>4. Revises(c, revised)
  BY <1>1, <1>2, <1>3 DEF Revises
<1> HIDE DEF revised
<1> DEFINE verified == [plans[id] EXCEPT !.status = "verified", !.version = @ + 1]
<1>5. plans' = [plans EXCEPT ![id] = verified]
  BY <1>1 DEF VerifyPlan
<1>6. /\ verified \in Plan /\ verified.status = "verified"
      /\ verified.complaint = plans[id].complaint /\ verified.district = plans[id].district
  <2>1. plans[id].version + 1 \in 1 .. 2
    BY <1>1 DEF Inv, FirstVersions
  <2> QED BY <1>1, <2>1 DEF Plan
<1> HIDE DEF verified
<1>7. /\ DOMAIN plans' = DOMAIN plans
      /\ \A p \in DOMAIN plans : /\ plans'[p] \in Plan
                                 /\ plans'[p].complaint = plans[p].complaint
                                 /\ plans'[p].district = plans[p].district
                                 /\ plans'[p] = plans[p] \/ plans'[p].status = "verified"
  BY <1>1, <1>5, <1>6 DEF Inv, TypeOK
<1>8. UNCHANGED <<assessments, schedules, events, idempotency, seen, retrying>>
  BY DEF VerifyPlan
<1>9. TypeOK'
  BY <1>4, <1>7, <1>8, RevisionKeeps DEF Inv, TypeOK
<1>10. RecordsResolve'
  BY <1>4, <1>7, <1>8, RevisionKeeps DEF Inv, RecordsResolve, Publishable
<1>11. FirstVersions'
  BY <1>7, <1>8 DEF Inv, FirstVersions
<1> QED BY <1>4, <1>7, <1>8, <1>9, <1>10, <1>11, RevisionInv

LEMMA SaveAssessmentStep ==
  ASSUME Inv, NEW id \in AssessmentIDs, NEW c \in ComplaintIDs, NEW d \in Districts,
         NEW b \in BOOLEAN, SaveAssessment(id, c, d, b)
  PROVE  Inv'
<1> DEFINE revised == [complaints[c] EXCEPT !.assessment = id, !.version = @ + 1]
           new == [district |-> d, complaint |-> c, released |-> b, version |-> 1]
<1>1. /\ c \in DOMAIN complaints /\ complaints[c] \in Complaint
      /\ complaints[c].district = d /\ complaints[c].version < MaxVersion
      /\ assessments' = Put(assessments, id, new)
      /\ UNCHANGED <<plans, schedules, events, idempotency, seen, retrying>>
  BY DEF SaveAssessment, Owned, Inv, TypeOK
<1>2. complaints' = [complaints EXCEPT ![c] = revised]
  BY <1>1 DEF SaveAssessment
<1>3. /\ revised \in Complaint /\ revised.district = complaints[c].district
      /\ revised.version = complaints[c].version + 1
  BY <1>1, ComplaintVersions DEF Complaint
<1>4. Revises(c, revised)
  BY <1>1, <1>2, <1>3 DEF Revises
<1>5. new \in Assessment /\ new.complaint = c /\ new.district = d /\ new.version = 1
  BY DEF Assessment
<1> HIDE DEF revised, new
<1>6. /\ DOMAIN assessments' = DOMAIN assessments \cup {id}
      /\ assessments'[id] = new
      /\ \A a \in DOMAIN assessments : a # id => assessments'[a] = assessments[a]
  BY <1>1 DEF Put
<1>7. TypeOK'
  BY <1>1, <1>4, <1>5, <1>6, RevisionKeeps DEF Inv, TypeOK
<1>8. RecordsResolve'
  BY <1>1, <1>4, <1>5, <1>6, RevisionKeeps DEF Inv, RecordsResolve, Publishable
<1>9. FirstVersions'
  BY <1>1, <1>5, <1>6 DEF Inv, FirstVersions
<1> QED BY <1>1, <1>4, <1>7, <1>8, <1>9, RevisionInv

LEMMA ReleaseAssessmentStep ==
  ASSUME Inv, NEW d \in Districts, NEW id \in AssessmentIDs, ReleaseAssessment(d, id)
  PROVE  Inv'
<1> DEFINE released == [assessments[id] EXCEPT !.released = TRUE, !.version = @ + 1]
<1>1. /\ id \in DOMAIN assessments /\ assessments[id] \in Assessment
      /\ assessments[id].version = 1
      /\ UNCHANGED <<complaints, plans, schedules, events, idempotency, seen, retrying>>
  BY DEF ReleaseAssessment, Inv, TypeOK, FirstVersions
<1>2. assessments' = [assessments EXCEPT ![id] = released]
  BY <1>1 DEF ReleaseAssessment
<1>3. /\ released \in Assessment /\ released.released = TRUE
      /\ released.complaint = assessments[id].complaint
      /\ released.district = assessments[id].district
  <2>1. assessments[id].version + 1 \in 1 .. 2
    BY <1>1
  <2> QED BY <1>1, <2>1 DEF Assessment
<1> HIDE DEF released
<1>4. TypeOK'
  BY <1>1, <1>2, <1>3 DEF Inv, TypeOK
<1>5. Shapes' /\ OneEvent' /\ OneKey' /\ PlansHaveKeys' /\ CopiesAreTrue'
  BY <1>1 DEF Inv, Shapes, OneEvent, OneKey, PlansHaveKeys, CopiesAreTrue,
              ComplaintKeys, PlanKeys
<1>6. RecordsResolve'
  BY <1>1, <1>2, <1>3 DEF Inv, RecordsResolve, Publishable
<1>7. FirstVersions'
  BY <1>1, <1>2, <1>3 DEF Inv, FirstVersions
<1> QED BY <1>4, <1>5, <1>6, <1>7 DEF Inv

LEMMA AssignZoneStep ==
  ASSUME Inv, NEW d \in Districts, NEW id \in ComplaintIDs, NEW z \in ZoneIDs,
         AssignZone(d, id, z)
  PROVE  Inv'
<1> DEFINE revised == [complaints[id] EXCEPT !.zone = z, !.version = @ + 1]
<1>1. /\ id \in DOMAIN complaints /\ complaints[id] \in Complaint
      /\ complaints[id].version < MaxVersion
  BY DEF AssignZone, Owned, Inv, TypeOK
<1>2. complaints' = [complaints EXCEPT ![id] = revised]
  BY <1>1 DEF AssignZone
<1>3. /\ revised \in Complaint /\ revised.district = complaints[id].district
      /\ revised.version = complaints[id].version + 1
  BY <1>1, ComplaintVersions DEF Complaint
<1>4. Revises(id, revised)
  BY <1>1, <1>2, <1>3 DEF Revises
<1> QED BY <1>4, OnlyRevises DEF AssignZone

\* Acceptance and closure change the status of one complaint.
LEMMA NewStatusRevises ==
  ASSUME Inv, NEW d, NEW id, Owned(d, id), NEW status \in {"accepted", "closed"},
         complaints' = [complaints EXCEPT ![id].status = status, ![id].version = @ + 1]
  PROVE  Revises(id, [complaints[id] EXCEPT !.status = status, !.version = @ + 1])
<1> DEFINE revised == [complaints[id] EXCEPT !.status = status, !.version = @ + 1]
<1>1. /\ id \in DOMAIN complaints /\ complaints[id] \in Complaint
      /\ complaints[id].version < MaxVersion
  BY DEF Owned, Inv, TypeOK
<1>2. complaints' = [complaints EXCEPT ![id] = revised]
  BY <1>1
<1>3. /\ revised \in Complaint /\ revised.district = complaints[id].district
      /\ revised.version = complaints[id].version + 1
  BY <1>1, ComplaintVersions DEF Complaint
<1> QED BY <1>1, <1>2, <1>3 DEF Revises

LEMMA AcceptComplaintStep ==
  ASSUME Inv, NEW d, NEW id, NEW v, AcceptComplaint(d, id, v)
  PROVE  Inv'
BY NewStatusRevises, OnlyRevises DEF AcceptComplaint

LEMMA CloseComplaintStep ==
  ASSUME Inv, NEW d, NEW id, CloseComplaint(d, id)
  PROVE  Inv'
BY NewStatusRevises, OnlyRevises DEF CloseComplaint

LEMMA RegisterScheduleStep ==
  ASSUME Inv, NEW id \in ScheduleIDs, NEW d \in Districts, RegisterSchedule(id, d)
  PROVE  Inv'
<1> DEFINE new == [district |-> d, version |-> 1]
<1>1. /\ schedules' = Put(schedules, id, new)
      /\ UNCHANGED <<complaints, plans, assessments, events, idempotency, seen, retrying>>
  BY DEF RegisterSchedule
<1>2. new \in Schedule
  BY DEF Schedule
<1> HIDE DEF new
<1>3. TypeOK'
  BY <1>1, <1>2 DEF Inv, TypeOK, Put
<1>4. Shapes' /\ OneEvent' /\ OneKey' /\ PlansHaveKeys' /\ CopiesAreTrue'
  BY <1>1 DEF Inv, Shapes, OneEvent, OneKey, PlansHaveKeys, CopiesAreTrue,
              ComplaintKeys, PlanKeys
<1>5. RecordsResolve' /\ FirstVersions'
  BY <1>1 DEF Inv, RecordsResolve, Publishable, FirstVersions
<1> QED BY <1>3, <1>4, <1>5 DEF Inv

LEMMA ReadStep ==
  ASSUME Inv, NEW r \in Reviewers, NEW id \in ComplaintIDs, Read(r, id)
  PROVE  Inv'
<1> DEFINE copy == [id |-> id, was |-> complaints[id]]
<1>1. /\ id \in DOMAIN complaints /\ complaints[id] \in Complaint
      /\ seen' = [seen EXCEPT ![r] = copy]
      /\ UNCHANGED <<complaints, plans, assessments, schedules, events, idempotency, retrying>>
  BY DEF Read, store, Inv, TypeOK
<1>2. copy \in Copies /\ copy.id = id /\ copy.was = complaints[id]
  BY <1>1 DEF Copies
<1> HIDE DEF copy
<1>3. seen' \in [Reviewers -> {None} \cup Copies]
  BY <1>1, <1>2 DEF Inv, Shapes
<1>4. TypeOK' /\ Shapes'
  BY <1>1, <1>3 DEF Inv, TypeOK, Shapes, Copies
<1>5. OneEvent' /\ OneKey' /\ PlansHaveKeys'
  BY <1>1 DEF Inv, OneEvent, OneKey, PlansHaveKeys, ComplaintKeys, PlanKeys
<1>6. RecordsResolve' /\ FirstVersions'
  BY <1>1 DEF Inv, RecordsResolve, Publishable, FirstVersions
<1>7. CopiesAreTrue'
  BY <1>1, <1>2, ComplaintVersions DEF Inv, Shapes, CopiesAreTrue
<1> QED BY <1>4, <1>5, <1>6, <1>7 DEF Inv

LEMMA InvInit == Init => Inv
<1> SUFFICES ASSUME Init PROVE Inv
  OBVIOUS
<1>1. /\ DOMAIN complaints = {} /\ DOMAIN plans = {} /\ DOMAIN assessments = {}
      /\ DOMAIN schedules = {} /\ DOMAIN idempotency = {}
      /\ events = <<>> /\ Len(events) = 0
  BY DEF Init
<1>2. TypeOK
  BY <1>1 DEF Init, TypeOK
<1>3. Shapes
  BY DEF Init, Shapes
<1>4. OneEvent /\ OneKey /\ PlansHaveKeys
  BY <1>1 DEF OneEvent, OneKey, PlansHaveKeys, ComplaintKeys, PlanKeys
<1>5. RecordsResolve /\ FirstVersions /\ CopiesAreTrue
  BY <1>1 DEF Init, RecordsResolve, FirstVersions, CopiesAreTrue
<1> QED BY <1>2, <1>3, <1>4, <1>5 DEF Inv

LEMMA InvNext == Inv /\ [Next]_vars => Inv'
<1> SUFFICES ASSUME Inv, [Next]_vars PROVE Inv'
  OBVIOUS
<1>1. CASE UNCHANGED vars
  BY <1>1 DEF vars, Inv, TypeOK, Shapes, OneEvent, OneKey, PlansHaveKeys, RecordsResolve,
              FirstVersions, CopiesAreTrue, ComplaintKeys, PlanKeys, Publishable
<1>2. ASSUME NEW id \in PlanIDs, NEW c \in ComplaintIDs, NEW d \in Districts, NEW k \in Keys,
             NEW fails \in BOOLEAN, PublishPlan(id, c, d, k, fails)
      PROVE  Inv'
  <2>1. /\ retrying' \in [Workers -> {None} \cup Jobs]
        /\ \A w \in Workers : retrying'[w] = None \/ retrying'[w] = retrying[w]
    BY <1>2 DEF PublishPlan, Inv, Shapes
  <2> QED BY <1>2, <2>1, PublishStep DEF PublishPlan
<1>3. ASSUME NEW r \in Reviewers, Decide(r)
      PROVE  Inv'
  BY <1>3, AcceptComplaintStep DEF Decide
<1> QED
  BY <1>1, <1>2, <1>3, SubmitComplaintStep, RetryStep, SecondAttemptStep, VerifyPlanStep,
     SaveAssessmentStep, ReleaseAssessmentStep, AssignZoneStep, ReadStep,
     CloseComplaintStep, RegisterScheduleStep DEF Next

LEMMA Invariance == Spec => []Inv
BY InvInit, InvNext, PTL DEF Spec

-----------------------------------------------------------------------------
(***************************************************************************)
(* The theorems.                                                           *)
(***************************************************************************)
\* Every record of the store keeps the shape models.go gives it, and every
\* copy and every job of a caller is well formed, whatever the callers do.
THEOREM TypeCorrect == Spec => []TypeOK
<1>1. Inv => TypeOK
  BY DEF Inv
<1> QED BY <1>1, Invariance, PTL

\* Plans, assessments and pending retries always belong to a complaint of
\* their own district, so VerifyPlan may take the complaint unchecked.
THEOREM Resolves == Spec => []RecordsResolve
<1>1. Inv => RecordsResolve
  BY DEF Inv
<1> QED BY <1>1, Invariance, PTL

\* No storage failure in SubmitComplaint or PublishPlan leaves half an
\* operation behind: one event and one key for every complaint, a key for
\* every plan and a plan for every plan key.
THEOREM Whole == Spec => []OperationsAreWhole
<1>1. ASSUME Inv PROVE OperationsAreWhole
  <2>1. ASSUME NEW id \in DOMAIN complaints
        PROVE  /\ Cardinality({i \in DOMAIN events : events[i] = id}) = 1
               /\ Cardinality({k \in DOMAIN idempotency :
                                 k[2] = "complaint" /\ idempotency[k] = id}) = 1
               /\ \A k \in DOMAIN idempotency :
                    k[2] = "complaint" /\ idempotency[k] = id => k[1] = complaints[id].district
    <3>1. DOMAIN events = 1 .. Len(events)
      BY <1>1 DEF Inv, Shapes
    <3>2. PICK i \in 1 .. Len(events) : 
            events[i] = id /\ \A j \in 1 .. Len(events) : events[j] = id => j = i
      BY <1>1 DEF Inv, OneEvent
    <3>3. Cardinality({j \in DOMAIN events : events[j] = id}) = 1
      <4> DEFINE S == {j \in DOMAIN events : events[j] = id}
      <4>1. i \in S /\ \A j \in S : j = i
        BY <3>1, <3>2
      <4>2. Cardinality(S) = 1
        <5> HIDE DEF S
        <5> QED BY <4>1, ExactlyOne
      <4> QED BY <4>2
    <3>4. PICK k \in ComplaintKeys :
            idempotency[k] = id /\ \A l \in ComplaintKeys : idempotency[l] = id => l = k
      BY <1>1 DEF Inv, OneKey
    <3>5. Cardinality({l \in DOMAIN idempotency :
                         l[2] = "complaint" /\ idempotency[l] = id}) = 1
      <4> DEFINE S == {l \in DOMAIN idempotency : l[2] = "complaint" /\ idempotency[l] = id}
      <4>1. k \in S /\ \A l \in S : l = k
        BY <3>4 DEF ComplaintKeys
      <4>2. Cardinality(S) = 1
        <5> HIDE DEF S
        <5> QED BY <4>1, ExactlyOne
      <4> QED BY <4>2
    <3>6. \A l \in DOMAIN idempotency :
            l[2] = "complaint" /\ idempotency[l] = id => l[1] = complaints[id].district
      BY <1>1 DEF Inv, OneKey, ComplaintKeys
    <3> QED BY <3>3, <3>5, <3>6
  <2>2. \A i \in DOMAIN events : events[i] \in DOMAIN complaints
    BY <1>1 DEF Inv, OneEvent, Shapes
  <2>3. {idempotency[k] : k \in {l \in DOMAIN idempotency : l[2] = "plan"}} = DOMAIN plans
    BY <1>1 DEF Inv, PlansHaveKeys, PlanKeys
  <2> QED BY <2>1, <2>2, <2>3 DEF OperationsAreWhole
<1> QED BY <1>1, Invariance, PTL

\* A request key, once taken by SubmitComplaint or PublishPlan, names the same
\* record in every later state.
THEOREM StableKeys == Spec => KeysAreStable
<1> DEFINE Kept == \A k \in DOMAIN idempotency :
                     k \in DOMAIN idempotency' /\ idempotency'[k] = idempotency[k]
<1>1. ASSUME [Next]_vars PROVE Kept
  <2>1. ASSUME NEW key, NEW id, key \notin DOMAIN idempotency,
               idempotency' = Put(idempotency, key, id)
        PROVE  Kept
    BY <2>1 DEF Put
  <2>2. ASSUME UNCHANGED idempotency PROVE Kept
    BY <2>2
  <2>3. ASSUME NEW id, NEW c, NEW d, NEW k, NEW fails, publishLocked(id, c, d, k, fails)
        PROVE  Kept
    BY <2>1, <2>2, <2>3 DEF publishLocked
  <2>4. ASSUME NEW id, NEW d, NEW f, NEW k, NEW fails, SubmitComplaint(id, d, f, k, fails)
        PROVE  Kept
    BY <2>1, <2>2, <2>4 DEF SubmitComplaint
  <2>5. CASE UNCHANGED vars
    BY <2>2, <2>5 DEF vars
  <2> HIDE DEF Kept
  <2>6. CASE Next
    BY <2>2, <2>3, <2>4, <2>6 DEF Next, PublishPlan, RetryPlanPublication, SecondAttempt,
       VerifyPlan, SaveAssessment, ReleaseAssessment, AssignZone, Read, Decide,
       AcceptComplaint, CloseComplaint, RegisterSchedule, store
  <2> QED BY <1>1, <2>5, <2>6
<1>2. [Next]_vars => [Kept]_vars
  BY <1>1
<1> QED BY <1>2, PTL DEF Spec, KeysAreStable

\* A complaint is accepted only as some reviewer has it in hand: the expected
\* version of AcceptComplaint turns every stale copy away.
THEOREM AcceptsWhatWasRead == Spec => AcceptedAsRead
<1> DEFINE AsRead(id) == complaints[id].status = "pending" /\ complaints'[id].status = "accepted"
                           => \E r \in Reviewers : seen[r] = [id |-> id, was |-> complaints[id]]
<1>1. ASSUME Inv, [Next]_vars, NEW id \in DOMAIN complaints
      PROVE  AsRead(id)
  <2>1. ASSUME NEW r \in Reviewers, Decide(r) PROVE AsRead(id)
    <3> DEFINE copy == seen[r]
    <3>1. copy # None /\ AcceptComplaint(copy.was.district, copy.id, copy.was.version)
      BY <2>1 DEF Decide
    <3>2. copy \in Copies
      BY <1>1, <3>1 DEF Inv, Shapes
    <3>3. copy = [id |-> copy.id, was |-> copy.was]
      BY <3>2 DEF Copies
    <3>4. copy.was = complaints[copy.id]
      BY <1>1, <3>1 DEF Inv, CopiesAreTrue, AcceptComplaint
    <3>5. CASE id = copy.id
      BY <3>3, <3>4, <3>5
    <3>6. CASE id # copy.id
      BY <1>1, <3>1, <3>6 DEF AcceptComplaint
    <3> QED BY <3>5, <3>6
  <2>2. ASSUME complaints'[id].status = complaints[id].status PROVE AsRead(id)
    BY <2>2
  <2>3. CASE UNCHANGED vars
    BY <2>2, <2>3 DEF vars
  <2>4. ASSUME NEW c \in ComplaintIDs, NEW d \in Districts, NEW f \in Intakes, NEW k \in Keys,
               NEW fails \in BOOLEAN, SubmitComplaint(c, d, f, k, fails)
        PROVE  AsRead(id)
    BY <1>1, <2>2, <2>4 DEF SubmitComplaint, Put
  <2>5. ASSUME NEW d \in Districts, NEW p \in PlanIDs, NEW v \in 1 .. 2, VerifyPlan(d, p, v)
        PROVE  AsRead(id)
    BY <1>1, <2>2, <2>5 DEF VerifyPlan, Inv, TypeOK, Complaint
  <2>6. ASSUME NEW a \in AssessmentIDs, NEW c \in ComplaintIDs, NEW d \in Districts,
               NEW b \in BOOLEAN, SaveAssessment(a, c, d, b)
        PROVE  AsRead(id)
    BY <1>1, <2>2, <2>6 DEF SaveAssessment, Inv, TypeOK, Complaint
  <2>7. ASSUME NEW d \in Districts, NEW c \in ComplaintIDs, NEW z \in ZoneIDs, AssignZone(d, c, z)
        PROVE  AsRead(id)
    BY <1>1, <2>2, <2>7 DEF AssignZone, Inv, TypeOK, Complaint
  <2>8. ASSUME NEW d \in Districts, NEW c \in ComplaintIDs, CloseComplaint(d, c)
        PROVE  AsRead(id)
    <3>1. CASE id = c
      BY <3>1, <2>8 DEF CloseComplaint
    <3>2. CASE id # c
      BY <3>2, <1>1, <2>8 DEF CloseComplaint
    <3> QED BY <3>1, <3>2
  <2> HIDE DEF AsRead
  <2>9. CASE Next
    BY <2>1, <2>2, <2>4, <2>5, <2>6, <2>7, <2>8, <2>9 DEF Next, PublishPlan,
       RetryPlanPublication, SecondAttempt, ReleaseAssessment, Read, RegisterSchedule, store
  <2> QED BY <1>1, <2>3, <2>9
<1>2. Inv /\ [Next]_vars => [\A id \in DOMAIN complaints : AsRead(id)]_vars
  BY <1>1
<1> QED BY <1>2, Invariance, PTL DEF Spec, AcceptedAsRead

=============================================================================
