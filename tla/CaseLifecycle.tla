--------------------------- MODULE CaseLifecycle ---------------------------
(***************************************************************************)
(* What the status machine of a case promises to a reader who sees only    *)
(* its status and its escalation level: a case opens already routed, then  *)
(* follows the transition table; a correction cycle ends with the case     *)
(* routed again (Resubmit goes through "registered" without storing it);   *)
(* an escalation raises the level by one, up to the maximum, and nothing   *)
(* ever lowers it; a completed or cancelled case never changes again.      *)
(***************************************************************************)
EXTENDS CaseDomain

CONSTANTS Cases, MaxLevel

VARIABLES status, level

lifecycle == <<status, level>>

LifecycleInit == /\ status = [c \in Cases |-> "none"]
                 /\ level  = [c \in Cases |-> 0]

Open(c) == /\ status[c] = "none"
           /\ status' = [status EXCEPT ![c] = "adjudicated"]
           /\ UNCHANGED level

Advance(c, to) == /\ status[c] # "none"
                  /\ CanTransition(status[c], to) /\ to # "escalated"
                  /\ status' = [status EXCEPT ![c] = to]
                  /\ UNCHANGED level

Readmit(c) == /\ status[c] = "returned"
              /\ status' = [status EXCEPT ![c] = "adjudicated"]
              /\ UNCHANGED level

Escalate(c) == /\ status[c] # "none"
               /\ ValidateTransition(status[c], "escalated")
               /\ level[c] < MaxLevel
               /\ status' = [status EXCEPT ![c] = "escalated"]
               /\ level'  = [level EXCEPT ![c] = @ + 1]

LifecycleNext == \E c \in Cases : \/ Open(c) \/ Readmit(c) \/ Escalate(c)
                                  \/ \E to \in Statuses : Advance(c, to)

LifecycleSpec == LifecycleInit /\ [][LifecycleNext]_lifecycle
=============================================================================
