------------------------------ MODULE LightOps ------------------------------
(***************************************************************************)
(* The light-pollution workflow on one mutex (internal/lightops): a        *)
(* complaint is submitted, assessed, zoned and accepted; a rectification   *)
(* plan is published, verified by a reviewer and lets the complaint close. *)
(*                                                                         *)
(* Every operation holds Store.mu from its first read to its last write,   *)
(* so it is one action.  What interleaves is the callers: a reviewer       *)
(* decides on a copy read earlier, RetryPlanPublication releases the lock  *)
(* between its two attempts, and the one storage write of a submission or  *)
(* a publication may fail (the parameter fails).                           *)
(* A refused call and a cancelled context change nothing and are left out. *)
(***************************************************************************)
EXTENDS Naturals, Sequences, FiniteSets

CONSTANTS
  ComplaintIDs, PlanIDs, AssessmentIDs, ScheduleIDs, ZoneIDs, Districts,
  Keys,        \* request keys chosen by the callers
  Intakes,     \* what a caller may have filled in: [zone, assessment, plan]
  Reviewers,   \* callers that decide on a copy they read
  Workers,     \* workers that run RetryPlanPublication
  None,        \* the empty string
  MaxVersion   \* bound: version of a complaint

Complaint == [district : Districts, status : {"pending", "accepted", "closed"},
              zone : ZoneIDs \cup {None}, assessment : AssessmentIDs \cup {None},
              plan : PlanIDs \cup {None}, version : 1 .. MaxVersion]
Plan       == [district : Districts, complaint : ComplaintIDs,
               status : {"submitted", "verified"}, version : 1 .. 2]
Assessment == [district : Districts, complaint : ComplaintIDs,
               released : BOOLEAN, version : 1 .. 2]
Schedule   == [district : Districts, version : {1}]

ASSUME IntakeAssumption ==
  /\ Intakes \subseteq [zone : ZoneIDs \cup {None}, assessment : AssessmentIDs \cup {None},
                        plan : PlanIDs \cup {None}]
  /\ MaxVersion \in Nat \ {0}

VARIABLES
  complaints, plans, assessments, schedules,   \* id -> record
  events,        \* the complaints whose submission was logged, in order
  idempotency,   \* <<district, action, key>> -> id of the record it made
  seen,          \* reviewer -> the complaint as the reviewer read it
  retrying       \* worker -> the publication it is about to repeat

vars == <<complaints, plans, assessments, schedules, events, idempotency,
          seen, retrying>>
store == <<complaints, plans, assessments, schedules, events, idempotency>>

Put(table, id, record) ==
  [k \in DOMAIN table \cup {id} |-> IF k = id THEN record ELSE table[k]]

complaintKey(district, key)      == <<district, "complaint", key>>
actionKey(district, action, key) == <<district, action, key>>

\* The complaint exists, is the district's own, and can be changed once more.
Owned(district, id) ==
  /\ id \in DOMAIN complaints
  /\ complaints[id].district = district
  /\ complaints[id].version < MaxVersion

-----------------------------------------------------------------------------
(***************************************************************************)
(* Intake.                                                                 *)
(***************************************************************************)
NewComplaint(district, form) ==
  [district |-> district, status |-> "pending", zone |-> form.zone,
   assessment |-> form.assessment, plan |-> form.plan, version |-> 1]

\* A known key returns the earlier complaint, whatever the request says.  A
\* complaint whose event cannot be appended is taken out again.
SubmitComplaint(id, district, form, key, fails) ==
  /\ complaintKey(district, key) \notin DOMAIN idempotency
  /\ id \notin DOMAIN complaints
  /\ IF fails THEN UNCHANGED <<complaints, events, idempotency>>
     ELSE /\ complaints' = Put(complaints, id, NewComplaint(district, form))
          /\ events' = Append(events, id)
          /\ idempotency' = Put(idempotency, complaintKey(district, key), id)
  /\ UNCHANGED <<plans, assessments, schedules, seen, retrying>>

-----------------------------------------------------------------------------
(***************************************************************************)
(* Rectification plans.  Nothing looks whether a plan of that id exists.   *)
(***************************************************************************)
NewPlan(complaint, district) ==
  [district |-> district, complaint |-> complaint, status |-> "submitted", version |-> 1]

Publishable(complaint, district) ==
  /\ complaint \in DOMAIN complaints
  /\ complaints[complaint].district = district

\* Deliberate fault: the key is taken before the plan is saved.
publishLockedKeyFirst(id, complaint, district, key, fails) ==
  /\ actionKey(district, "plan", key) \notin DOMAIN idempotency
  /\ idempotency' = Put(idempotency, actionKey(district, "plan", key), id)
  /\ plans' = IF fails THEN plans ELSE Put(plans, id, NewPlan(complaint, district))

\* Deliberate fault: a known key does not stop the publication.
publishLockedAgain(id, complaint, district, key, fails) ==
  /\ IF fails THEN UNCHANGED <<plans, idempotency>>
     ELSE /\ plans' = Put(plans, id, NewPlan(complaint, district))
          /\ idempotency' = Put(idempotency, actionKey(district, "plan", key), id)

\* What PublishPlan does to the store once complaint and district are found
\* right: a known key is answered from the store, a plan that cannot be saved
\* takes no key.
publishLocked(id, complaint, district, key, fails) ==
  IF fails \/ actionKey(district, "plan", key) \in DOMAIN idempotency
  THEN UNCHANGED <<plans, idempotency>>
  ELSE /\ plans' = Put(plans, id, NewPlan(complaint, district))
       /\ idempotency' = Put(idempotency, actionKey(district, "plan", key), id)

\* Deliberate fault: a plan is filed under whatever district it names.
PublishPlanAnywhere(id, complaint, district, key, fails) ==
  /\ complaint \in DOMAIN complaints
  /\ publishLocked(id, complaint, district, key, fails)
  /\ UNCHANGED <<complaints, assessments, schedules, events, seen, retrying>>

PublishPlan(id, complaint, district, key, fails) ==
  /\ Publishable(complaint, district)
  /\ publishLocked(id, complaint, district, key, fails)
  /\ UNCHANGED <<complaints, assessments, schedules, events, seen, retrying>>

\* The first attempt of RetryPlanPublication meets a storage failure.  An
\* attempt that ends any other way is PublishPlan.
RetryPlanPublication(worker, id, complaint, district, key) ==
  /\ retrying[worker] = None
  /\ Publishable(complaint, district)
  /\ actionKey(district, "plan", key) \notin DOMAIN idempotency
  /\ retrying' = [retrying EXCEPT ![worker] = <<id, complaint, district, key>>]
  /\ UNCHANGED <<store, seen>>

\* The second attempt; whatever its outcome, there is no third.
SecondAttempt(worker, fails) ==
  /\ retrying[worker] # None
  /\ LET job == retrying[worker]
     IN  /\ Publishable(job[2], job[3])
         /\ publishLocked(job[1], job[2], job[3], job[4], fails)
  /\ retrying' = [retrying EXCEPT ![worker] = None]
  /\ UNCHANGED <<complaints, assessments, schedules, events, seen>>

\* Deliberate fault: the review writes the status of internal/hub.
VerifyPlanAsHub(district, id, expectedVersion) ==
  /\ id \in DOMAIN plans /\ plans[id].district = district
  /\ plans[id].version = expectedVersion /\ plans[id].status = "submitted"
  /\ Owned(district, plans[id].complaint)
  /\ plans' = [plans EXCEPT ![id].status = "accepted", ![id].version = @ + 1]
  /\ complaints' = [complaints EXCEPT ![plans[id].complaint].plan = id,
                                      ![plans[id].complaint].version = @ + 1]
  /\ UNCHANGED <<assessments, schedules, events, idempotency, seen, retrying>>

VerifyPlan(district, id, expectedVersion) ==
  /\ id \in DOMAIN plans
  /\ plans[id].district = district
  /\ plans[id].version = expectedVersion
  /\ plans[id].status = "submitted"
  /\ complaints[plans[id].complaint].version < MaxVersion
  /\ plans' = [plans EXCEPT ![id].status = "verified", ![id].version = @ + 1]
  /\ complaints' = [complaints EXCEPT ![plans[id].complaint].plan = id,
                                      ![plans[id].complaint].version = @ + 1]
  /\ UNCHANGED <<assessments, schedules, events, idempotency, seen, retrying>>

-----------------------------------------------------------------------------
(***************************************************************************)
(* Assessment, zone, acceptance, closure.                                  *)
(***************************************************************************)
SaveAssessment(id, complaint, district, released) ==
  /\ Owned(district, complaint)
  /\ assessments' = Put(assessments, id,
       [district |-> district, complaint |-> complaint, released |-> released, version |-> 1])
  /\ complaints' = [complaints EXCEPT ![complaint].assessment = id,
                                      ![complaint].version = @ + 1]
  /\ UNCHANGED <<plans, schedules, events, idempotency, seen, retrying>>

ReleaseAssessment(district, id) ==
  /\ id \in DOMAIN assessments
  /\ assessments[id].district = district
  /\ ~ assessments[id].released
  /\ assessments' = [assessments EXCEPT ![id].released = TRUE, ![id].version = @ + 1]
  /\ UNCHANGED <<complaints, plans, schedules, events, idempotency, seen, retrying>>

\* Deliberate fault: the zone changes under an unchanged version.
AssignZoneSameVersion(district, id, zone) ==
  /\ Owned(district, id)
  /\ complaints' = [complaints EXCEPT ![id].zone = zone]
  /\ UNCHANGED <<plans, assessments, schedules, events, idempotency, seen, retrying>>

AssignZone(district, id, zone) ==
  /\ Owned(district, id)
  /\ complaints' = [complaints EXCEPT ![id].zone = zone, ![id].version = @ + 1]
  /\ UNCHANGED <<plans, assessments, schedules, events, idempotency, seen, retrying>>

AcceptComplaint(district, id, expectedVersion) ==
  /\ Owned(district, id)
  /\ complaints[id].version = expectedVersion
  /\ complaints[id].status = "pending"
  /\ complaints[id].assessment # None
  /\ complaints[id].zone # None
  /\ complaints' = [complaints EXCEPT ![id].status = "accepted", ![id].version = @ + 1]
  /\ UNCHANGED <<plans, assessments, schedules, events, idempotency, seen, retrying>>

CloseComplaint(district, id) ==
  /\ Owned(district, id)
  /\ complaints[id].status = "accepted"
  /\ complaints[id].plan \in DOMAIN plans
  /\ plans[complaints[id].plan].status = "verified"
  /\ complaints' = [complaints EXCEPT ![id].status = "closed", ![id].version = @ + 1]
  /\ UNCHANGED <<plans, assessments, schedules, events, idempotency, seen, retrying>>

RegisterSchedule(id, district) ==
  /\ schedules' = Put(schedules, id, [district |-> district, version |-> 1])
  /\ UNCHANGED <<complaints, plans, assessments, events, idempotency, seen, retrying>>

-----------------------------------------------------------------------------
(***************************************************************************)
(* The callers.                                                            *)
(***************************************************************************)
\* Store.Complaint and ListComplaints hand out copies.
Read(reviewer, id) ==
  /\ id \in DOMAIN complaints
  /\ seen' = [seen EXCEPT ![reviewer] = [id |-> id, was |-> complaints[id]]]
  /\ UNCHANGED <<store, retrying>>

\* A reviewer accepts with the version of the copy, however old it is.
Decide(reviewer) ==
  /\ seen[reviewer] # None
  /\ LET copy == seen[reviewer]
     IN  AcceptComplaint(copy.was.district, copy.id, copy.was.version)

-----------------------------------------------------------------------------
Init ==
  /\ complaints = <<>> /\ plans = <<>> /\ assessments = <<>> /\ schedules = <<>>
  /\ events = <<>> /\ idempotency = <<>>
  /\ seen = [r \in Reviewers |-> None]
  /\ retrying = [w \in Workers |-> None]

Next ==
  \/ \E id \in ComplaintIDs, d \in Districts, f \in Intakes, k \in Keys,
        fails \in BOOLEAN : SubmitComplaint(id, d, f, k, fails)
  \/ \E id \in PlanIDs, c \in ComplaintIDs, d \in Districts, k \in Keys,
        fails \in BOOLEAN : PublishPlan(id, c, d, k, fails)
  \/ \E w \in Workers, id \in PlanIDs, c \in ComplaintIDs, d \in Districts, k \in Keys :
        RetryPlanPublication(w, id, c, d, k)
  \/ \E w \in Workers, fails \in BOOLEAN : SecondAttempt(w, fails)
  \/ \E d \in Districts, id \in PlanIDs, v \in 1 .. 2 : VerifyPlan(d, id, v)
  \/ \E id \in AssessmentIDs, c \in ComplaintIDs, d \in Districts, b \in BOOLEAN :
        SaveAssessment(id, c, d, b)
  \/ \E d \in Districts, id \in AssessmentIDs : ReleaseAssessment(d, id)
  \/ \E d \in Districts, id \in ComplaintIDs, z \in ZoneIDs : AssignZone(d, id, z)
  \/ \E r \in Reviewers, id \in ComplaintIDs : Read(r, id)
  \/ \E r \in Reviewers : Decide(r)
  \/ \E d \in Districts, id \in ComplaintIDs : CloseComplaint(d, id)
  \/ \E id \in ScheduleIDs, d \in Districts : RegisterSchedule(id, d)

Spec == Init /\ [][Next]_vars

-----------------------------------------------------------------------------
(***************************************************************************)
(* Properties.                                                             *)
(***************************************************************************)
\* The records have the shapes models.go gives them, with the statuses the
\* package writes.
TypeOK ==
  /\ DOMAIN complaints \subseteq ComplaintIDs
  /\ \A id \in DOMAIN complaints : complaints[id] \in Complaint
  /\ DOMAIN plans \subseteq PlanIDs
  /\ \A id \in DOMAIN plans : plans[id] \in Plan
  /\ DOMAIN assessments \subseteq AssessmentIDs
  /\ \A id \in DOMAIN assessments : assessments[id] \in Assessment
  /\ DOMAIN schedules \subseteq ScheduleIDs
  /\ \A id \in DOMAIN schedules : schedules[id] \in Schedule
  /\ DOMAIN idempotency \subseteq Districts \X {"complaint", "plan"} \X Keys
  /\ \A i \in DOMAIN events : events[i] \in ComplaintIDs
  /\ \A r \in Reviewers : seen[r] = None \/ seen[r] \in [id : ComplaintIDs, was : Complaint]
  /\ \A w \in Workers :
       retrying[w] = None \/ retrying[w] \in PlanIDs \X ComplaintIDs \X Districts \X Keys

\* A storage failure leaves no half of an operation behind: every complaint
\* has exactly one submission event and one request key of its own district,
\* every event has its complaint, and the plan keys and the plans name each
\* other (the rollback in SubmitComplaint, the order in PublishPlan).
OperationsAreWhole ==
  /\ \A id \in DOMAIN complaints :
       /\ Cardinality({i \in DOMAIN events : events[i] = id}) = 1
       /\ Cardinality({k \in DOMAIN idempotency : k[2] = "complaint" /\ idempotency[k] = id}) = 1
       /\ \A k \in DOMAIN idempotency :
            k[2] = "complaint" /\ idempotency[k] = id => k[1] = complaints[id].district
  /\ \A i \in DOMAIN events : events[i] \in DOMAIN complaints
  /\ {idempotency[k] : k \in {l \in DOMAIN idempotency : l[2] = "plan"}} = DOMAIN plans

\* A plan or an assessment belongs to a complaint of its own district, however
\* often the record was overwritten, and so does the second attempt of a
\* publication: VerifyPlan may take the complaint without looking.
RecordsResolve ==
  /\ \A id \in DOMAIN plans : Publishable(plans[id].complaint, plans[id].district)
  /\ \A id \in DOMAIN assessments :
       Publishable(assessments[id].complaint, assessments[id].district)
  /\ \A w \in Workers : retrying[w] # None => Publishable(retrying[w][2], retrying[w][3])

\* A complaint is accepted exactly as some reviewer last read it: the
\* expectedVersion of AcceptComplaint refuses a decision on a stale copy.
AcceptedAsRead ==
  [][\A id \in DOMAIN complaints :
       complaints[id].status = "pending" /\ complaints'[id].status = "accepted"
         => \E r \in Reviewers :
              seen[r] = [id |-> id, was |-> complaints[id]]]_vars

\* A request key is answered with the same record for ever, and neither a
\* repeated request nor a retry that overtakes one makes a second record.
KeysAreStable ==
  [][\A k \in DOMAIN idempotency :
       k \in DOMAIN idempotency' /\ idempotency'[k] = idempotency[k]]_vars
=============================================================================
