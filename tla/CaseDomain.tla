----------------------------- MODULE CaseDomain -----------------------------
(***************************************************************************)
(* The pure part of the case workflow: the status machine of a compliance  *)
(* case (internal/domain/compliance_case.go), the matching and validity of *)
(* a dispatch rule (internal/domain/rule.go), the name of an escalated     *)
(* department (internal/domain/escalation.go) and the choice of the rule   *)
(* that routes a case (internal/dispatch/adjudicator.go).                  *)
(*                                                                         *)
(* Texts that no decision of the code reads (titles, contacts, names) are  *)
(* left out of the records.                                                *)
(***************************************************************************)
EXTENDS Naturals, Sequences

Statuses == {"registered", "adjudicated", "in_progress", "returned",
             "escalated", "completed", "cancelled"}

IsTerminal(status) == status \in {"completed", "cancelled"}

\* The statuses a sweep of the re-evaluation worker may re-route.
ReevaluableStatuses == {"registered", "adjudicated"}

transitionTable ==
  [s \in Statuses |->
     CASE s = "registered"  -> {"adjudicated", "cancelled", "returned"}
       [] s = "adjudicated" -> {"in_progress", "cancelled", "returned", "escalated"}
       [] s = "in_progress" -> {"completed", "cancelled", "escalated"}
       [] s = "returned"    -> {"registered", "cancelled"}
       [] s = "escalated"   -> {"in_progress", "completed", "cancelled"}
       [] OTHER             -> {}]

CanTransition(from, to) == to \in transitionTable[from]

\* A case may always "move" to the status it already has.
ValidateTransition(from, to) == from = to \/ CanTransition(from, to)

-----------------------------------------------------------------------------
(***************************************************************************)
(* A lead department is the department a rule names together with the      *)
(* supervisor suffixes escalations appended to it, oldest first: "d" is    *)
(* [dept |-> "d", chain |-> <<>>] and "d-supervisor-l1-supervisor-l2" has  *)
(* the chain <<1, 2>>.                                                     *)
(***************************************************************************)
Department(d) == [dept |-> d, chain |-> <<>>]

EscalationDepartmentName(base, level) ==
  IF level <= 0 THEN base
                ELSE [dept |-> base.dept, chain |-> Append(base.chain, level)]

-----------------------------------------------------------------------------
(***************************************************************************)
(* A rule has a version, a lead department, a priority, a match category   *)
(* ("" when unset), a set of match keywords (empty when unset), a default  *)
(* flag, the instant it takes effect and a status.  effective_to is set    *)
(* only by SupersedeRule, in the statement that also makes the status      *)
(* "superseded", so the status alone decides the upper end of the window.  *)
(***************************************************************************)
IsActiveAt(rule, t) == rule.status = "active" /\ rule.effectiveFrom <= t

Matches(rule, item) ==
  \/ rule.isDefault
  \/ /\ rule.category # "" \/ rule.keywords # {}
     /\ rule.category # "" => item.category = rule.category
     /\ rule.keywords # {} => rule.keywords \cap item.keywords # {}

\* Deliberate fault: no order among rules of equal priority.
PrecedesNoTieBreak(a, b) == a.priority > b.priority

\* The sort order of Adjudicate: priority first, the newer version on a tie.
Precedes(a, b) == \/ a.priority > b.priority
                  \/ a.priority = b.priority /\ a.version > b.version

MatchedRules(item, rules) ==
  LET matching == {r \in rules : IsActiveAt(r, item.registeredAt) /\ Matches(r, item)}
      defaults == {r \in rules : IsActiveAt(r, item.registeredAt) /\ r.isDefault}
  IN  IF matching # {} THEN matching ELSE defaults

\* The rule that routes the item: the first of the sorted matches, as a set
\* that is empty when the code returns ErrNoMatchingRule.
Adjudicate(item, rules) ==
  {r \in MatchedRules(item, rules) :
     \A q \in MatchedRules(item, rules) \ {r} : Precedes(r, q)}
=============================================================================
