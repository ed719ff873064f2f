----------------------------- MODULE MCCaseFlow -----------------------------
(***************************************************************************)
(* Values for the constants of CaseFlow.  Two departments, a default rule  *)
(* form and a specific one that outranks it, cases of the category the     *)
(* specific form matches, and one edit that makes a case match it no more. *)
(***************************************************************************)
EXTENDS CaseFlow, TLC

CONSTANTS d1, d2

MCDepartments == {d1, d2}

DefaultForm == [lead |-> d1, priority |-> 0, isDefault |-> TRUE,
                category |-> "", keywords |-> {}]
GlareForm   == [lead |-> d2, priority |-> 1, isDefault |-> FALSE,
                category |-> "glare", keywords |-> {"balcony"}]

BothForms   == {DefaultForm, GlareForm}
OneForm     == {DefaultForm}
MCSubjects  == {[category |-> "glare", keywords |-> {"balcony"}]}
MCEdits     == {[category |-> "noise", keywords |-> {}],
                [category |-> "", keywords |-> {{}}]}
OneEdit     == {[category |-> "noise", keywords |-> {}]}

AllOps      == ClientActions
LiveOps     == {"register", "start_processing", "return", "complete"}
AgentOps    == {"register", "start_processing", "return", "resubmit"}

CapOne      == [a \in Actions |-> 1]
CapTwo      == [a \in Actions |-> IF a \in {"escalate", "rule_reevaluated"} THEN 2 ELSE 1]
CapLive     == [a \in Actions |-> IF a = "escalate" THEN 4 ELSE 1]

\* No constant names a client or an administrator.
Interchangeable == Permutations(Clients) \cup Permutations(Admins)
=============================================================================
