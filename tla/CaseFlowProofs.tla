--------------------------- MODULE CaseFlowProofs ---------------------------
(***************************************************************************)
(* Proofs about CaseFlow, for every set of references, clients and         *)
(* administrators and every value of the bounds.                           *)
(***************************************************************************)
EXTENDS CaseFlow, FiniteSetTheorems, TLAPS

-----------------------------------------------------------------------------
(***************************************************************************)
(* Facts about the operators the actions are built from.                   *)
(***************************************************************************)

\* Adjudicate picks among the rules it is given, one that is in force at the
\* registration of the item.
LEMMA AdjudicatePicks ==
  ASSUME NEW item, NEW R, NEW rule \in Adjudicate(item, R)
  PROVE  rule \in R /\ IsActiveAt(rule, item.registeredAt)
BY DEF Adjudicate, MatchedRules

\* A query for the active rules returns rows of the rule table.
LEMMA ActiveRulesFromTable ==
  ASSUME NEW at, NEW rule \in GetActiveRules(at)
  PROVE  \E v \in DOMAIN rules : rule = rules[v]
BY DEF GetActiveRules

\* MAX(version) of a table without gaps is the number of its rows.
LEMMA CurrentVersionOfContiguous ==
  ASSUME NEW n \in Nat, DOMAIN rules = 1 .. n
  PROVE  GetCurrentRuleVersion = n
<1>1. n \in DOMAIN rules \cup {0} /\ \A u \in DOMAIN rules : u <= n
  OBVIOUS
<1>2. ASSUME NEW v \in DOMAIN rules \cup {0}, \A u \in DOMAIN rules : u <= v
      PROVE  v = n
  <2>1. CASE n = 0
    BY <1>2, <2>1
  <2>2. CASE n # 0
    <3>1. n \in DOMAIN rules
      BY <2>2
    <3>2. n <= v /\ v \in 0 .. n
      BY <1>2, <3>1
    <3> QED BY <3>2
  <2> QED BY <2>1, <2>2
<1> QED BY <1>1, <1>2 DEF GetCurrentRuleVersion

\* A function on 1 .. n is a sequence of length n.
LEMMA FunctionIsSequence ==
  ASSUME NEW S, NEW n \in Nat, NEW f \in [1 .. n -> S]
  PROVE  f \in Seq(S) /\ Len(f) = n
OBVIOUS

\* Superseding the referrals of a case keeps their number and their content.
LEMMA SupersededReferrals ==
  ASSUME NEW list \in Seq(Referral)
  PROVE  /\ MarkAssignmentSuperseded(list) \in Seq(Referral)
         /\ Len(MarkAssignmentSuperseded(list)) = Len(list)
         /\ \A i \in 1 .. Len(list) :
              MarkAssignmentSuperseded(list)[i] = [list[i] EXCEPT !.current = FALSE]
<1> DEFINE M == MarkAssignmentSuperseded(list)
<1>1. /\ Len(list) \in Nat /\ DOMAIN list = 1 .. Len(list)
      /\ \A i \in 1 .. Len(list) : list[i] \in Referral
  OBVIOUS
<1>2. \A i \in 1 .. Len(list) : M[i] = [list[i] EXCEPT !.current = FALSE]
  BY <1>1 DEF MarkAssignmentSuperseded
<1>3. \A i \in 1 .. Len(list) : [list[i] EXCEPT !.current = FALSE] \in Referral
  BY <1>1 DEF Referral
<1>4. M \in [1 .. Len(list) -> Referral]
  BY <1>1, <1>2, <1>3 DEF MarkAssignmentSuperseded
<1> QED BY <1>1, <1>2, <1>4, FunctionIsSequence

\* A routed item is a row.
LEMMA RoutedIsRow ==
  ASSUME NEW item, NEW rule \in Rule, NEW status \in Statuses,
         item.registeredAt \in Nat, item.deadline \in Nat, item.level \in Nat,
         item.category \in STRING, item.keywords \in SUBSET STRING,
         item.completed \in BOOLEAN, item.cancelled \in BOOLEAN
  PROVE  Routed(item, rule, status) \in Row
<1>1. Department(rule.lead) \in Lead
  BY DEF Department, Lead, Rule
<1> QED BY <1>1 DEF Routed, Row, Rule

\* The changes a client makes to a row in memory keep it a row.
LEMMA ChangedIsRow ==
  ASSUME NEW row \in Row, NEW s \in Statuses
  PROVE  /\ [row EXCEPT !.status = s] \in Row
         /\ [row EXCEPT !.status = s, !.completed = TRUE] \in Row
         /\ [row EXCEPT !.status = s, !.cancelled = TRUE] \in Row
<1>1. [row EXCEPT !.status = s] \in Row
  BY DEF Row
<1>2. [row EXCEPT !.status = s, !.completed = TRUE] \in Row
  BY DEF Row
<1>3. [row EXCEPT !.status = s, !.cancelled = TRUE] \in Row
  BY DEF Row
<1> QED BY <1>1, <1>2, <1>3

LEMMA EditedIsRow ==
  ASSUME NEW row \in Row, NEW edit \in Edits
  PROVE  Edited(row, edit) \in Row
<1> DEFINE cat == IF edit.category = "" THEN row.category ELSE edit.category
           kws == IF edit.keywords = {} THEN row.keywords ELSE UNION edit.keywords
<1>1. cat \in STRING
  BY FormAssumption DEF Row
<1>2. kws \in SUBSET STRING
  BY FormAssumption DEF Row
<1>3. [row EXCEPT !.category = cat, !.keywords = kws] \in Row
  <2> HIDE DEF cat, kws
  <2> QED BY <1>1, <1>2 DEF Row
<1> QED BY <1>3 DEF Edited

-----------------------------------------------------------------------------
(***************************************************************************)
(* Type correctness and the rule table.  CreateRule computes a version     *)
(* from MAX(version), so the type of a draft depends on the table having a *)
(* maximum: the two are proved together.                                   *)
(***************************************************************************)
DraftVersionsFit ==
  \A a \in Admins : \A d \in draft[a] :
    d.rule.version = 1 \/ d.rule.version - 1 \in DOMAIN rules

RuleTable ==
  /\ \E n \in Nat : DOMAIN rules = 1 .. n
  /\ \A v \in DOMAIN rules : rules[v].version = v
  /\ DraftVersionsFit

\* The current version of such a table is its number of rules.
LEMMA CurrentVersion ==
  ASSUME RuleTable
  PROVE  GetCurrentRuleVersion \in Nat /\ DOMAIN rules = 1 .. GetCurrentRuleVersion
BY CurrentVersionOfContiguous DEF RuleTable

\* An operation that only puts a well-formed write in flight.
LEMMA InFlightType ==
  ASSUME TypeOK, NEW c \in Clients, NEW op, NEW r \in Refs, NEW row \in Row,
         InFlight(c, op, r, row)
  PROVE  TypeOK'
<1>1. [ref |-> r, row |-> row, op |-> op] \in Call
  BY FormAssumption DEF InFlight, Call
<1>2. call' \in [Clients -> SUBSET Call]
  BY <1>1 DEF InFlight, TypeOK
<1> QED BY <1>2 DEF InFlight, TypeOK, tables, Registered

LEMMA BeginCallType ==
  ASSUME TypeOK, NEW c \in Clients, NEW r \in Refs, BeginCall(c, r)
  PROVE  TypeOK'
<1> USE InFlightType
<1>1. ASSUME NEW subject \in Subjects, Register(c, r, subject)
      PROVE  TypeOK'
  <2>1. PICK rule \in Adjudicate(NewItem(subject), GetActiveRules(now)) :
           InFlight(c, "register", r, Routed(NewItem(subject), rule, "adjudicated"))
    BY <1>1 DEF Register
  <2>2. rule \in Rule
    BY AdjudicatePicks, ActiveRulesFromTable DEF TypeOK
  <2>3. Routed(NewItem(subject), rule, "adjudicated") \in Row
    <3>1. /\ subject.category \in STRING /\ subject.keywords \in SUBSET STRING
          /\ now \in Nat /\ now + DefaultDeadline \in Nat
      BY FormAssumption, TimeAssumption DEF TypeOK
    <3>2. LET item == NewItem(subject)
          IN  /\ item.registeredAt \in Nat /\ item.deadline \in Nat /\ item.level \in Nat
              /\ item.category \in STRING /\ item.keywords \in SUBSET STRING
              /\ item.completed \in BOOLEAN /\ item.cancelled \in BOOLEAN
      BY <3>1 DEF NewItem
    <3> QED BY <2>2, <3>2, RoutedIsRow DEF Statuses
  <2> QED BY <2>1, <2>3
<1>2. r \in Registered => items[r] \in Row
  BY DEF TypeOK
<1>3. ASSUME r \in Registered, NEW s \in Statuses
      PROVE  /\ [items[r] EXCEPT !.status = s] \in Row
             /\ [items[r] EXCEPT !.status = s, !.completed = TRUE] \in Row
             /\ [items[r] EXCEPT !.status = s, !.cancelled = TRUE] \in Row
  BY <1>2, <1>3, ChangedIsRow
<1>4. ASSUME NEW edit \in Edits, Modify(c, r, edit)
      PROVE  TypeOK'
  BY <1>2, <1>4, EditedIsRow DEF Modify
<1>5. CASE StartProcessing(c, r)
  BY <1>3, <1>5 DEF StartProcessing, Statuses
<1>6. CASE ReturnForCorrection(c, r)
  BY <1>3, <1>6 DEF ReturnForCorrection, Statuses
<1>7. CASE Resubmit(c, r)
  BY <1>3, <1>7 DEF Resubmit, Statuses
<1>8. CASE Cancel(c, r)
  BY <1>3, <1>8 DEF Cancel, Statuses
<1>9. CASE Complete(c, r)
  BY <1>3, <1>9 DEF Complete, Statuses
<1> QED BY <1>1, <1>4, <1>5, <1>6, <1>7, <1>8, <1>9 DEF BeginCall

LEMMA EscalatedIsRow ==
  ASSUME NEW row \in Row, NEW at \in Nat
  PROVE  Escalated(row, at) \in Row
<1>1. row.lead \in Lead /\ row.level \in Nat
  BY DEF Row
<1>2. EscalationDepartmentName(row.lead, row.level + 1) \in Lead
  <2>1. row.lead.dept \in Departments /\ row.lead.chain \in Seq(Nat)
    BY <1>1 DEF Lead
  <2>2. Append(row.lead.chain, row.level + 1) \in Seq(Nat)
    BY <1>1, <2>1
  <2> QED BY <1>1, <2>1, <2>2 DEF EscalationDepartmentName, Lead
<1>3. at + DeadlineExtension \in Nat /\ row.level + 1 \in Nat
  BY <1>1, TimeAssumption
<1> DEFINE name == EscalationDepartmentName(row.lead, row.level + 1)
<1>4. [row EXCEPT !.level = row.level + 1, !.lead = name,
                  !.deadline = at + DeadlineExtension, !.status = "escalated"] \in Row
  <2>1. name \in Lead
    BY <1>2
  <2> HIDE DEF name
  <2> QED BY <1>3, <2>1 DEF Row, Statuses
<1> QED BY <1>4 DEF Escalated

\* The list of a case's referrals after a new one is saved.
LEMMA SavedReferrals ==
  ASSUME NEW list \in Seq(Referral), NEW row \in Row
  PROVE  /\ SaveAssignment(list, row) \in Seq(Referral)
         /\ Len(SaveAssignment(list, row)) = Len(list) + 1
<1>1. [lead |-> row.lead, ver |-> row.ver, current |-> TRUE] \in Referral
  BY DEF Row, Referral
<1> QED BY <1>1 DEF SaveAssignment

LEMMA SaveAuditType ==
  ASSUME TypeOK, NEW r \in Refs, NEW action \in Actions, SaveAudit(r, action)
  PROVE  audits' \in [Refs -> [Actions -> Nat]]
BY DEF SaveAudit, TypeOK

LEMMA EndCallType ==
  ASSUME TypeOK, NEW c \in Clients, EndCall(c)
  PROVE  TypeOK'
<1>1. CASE RegisterTx(c)
  <2>1. PICK w \in call[c] : RegisterTx(c)!(w)
    BY <1>1 DEF RegisterTx
  <2>2. w \in Call /\ w.ref \in Refs /\ w.row \in Row /\ w.op \in Actions
    BY DEF TypeOK, Call, Actions
  <2>3. audits' \in [Refs -> [Actions -> Nat]]
    BY <2>1, <2>2, SaveAuditType
  <2>4. /\ Registered' = Registered \cup {w.ref}
        /\ items' \in [Registered' -> Row]
    BY <2>1, <2>2 DEF Upsert, TypeOK, Registered
  <2>5. referrals' \in [Refs -> Seq(Referral)]
    BY <2>1, <2>2, SavedReferrals DEF TypeOK
  <2>6. call' \in [Clients -> SUBSET Call]
    BY <2>1 DEF TypeOK
  <2> QED BY <2>1, <2>2, <2>3, <2>4, <2>5, <2>6 DEF TypeOK
<1>2. CASE UpdateItemWithAudit(c)
  <2>1. PICK w \in call[c] : UpdateItemWithAudit(c)!(w)
    BY <1>2 DEF UpdateItemWithAudit
  <2>2. w \in Call /\ w.ref \in Refs /\ w.row \in Row /\ w.op \in Actions
    BY DEF TypeOK, Call, Actions
  <2>3. audits' \in [Refs -> [Actions -> Nat]]
    BY <2>1, <2>2, SaveAuditType
  <2>4. Registered' = Registered /\ items' \in [Registered' -> Row]
    BY <2>1, <2>2 DEF TypeOK, Registered
  <2>5. call' \in [Clients -> SUBSET Call]
    BY <2>1 DEF TypeOK
  <2> QED BY <2>1, <2>3, <2>4, <2>5 DEF TypeOK
<1>3. CASE CallFails(c)
  BY <1>3 DEF CallFails, TypeOK, tables, Registered
<1> QED BY <1>1, <1>2, <1>3 DEF EndCall

LEMMA RuleStepType ==
  ASSUME TypeOK, RuleTable, NEW a \in Admins, BeginRule(a) \/ EndRule(a)
  PROVE  TypeOK'
<1>1. ASSUME NEW form \in RuleForms, NEW v \in 0 .. MaxVersion, CreateRule(a, form, v)
      PROVE  TypeOK'
  <2>1. GetCurrentRuleVersion + 1 \in Nat /\ v \in Nat /\ now \in Nat
    BY CurrentVersion, BoundAssumption, TimeAssumption DEF TypeOK
  <2> DEFINE rule == [version |-> GetCurrentRuleVersion + 1, lead |-> form.lead,
                      priority |-> form.priority, isDefault |-> form.isDefault,
                      category |-> form.category, keywords |-> form.keywords,
                      effectiveFrom |-> now, status |-> "active"]
  <2>2. rule \in Rule
    BY <2>1, FormAssumption DEF Rule
  <2>3. [supersede |-> v, rule |-> rule] \in Draft
    BY <2>1, <2>2 DEF Draft
  <2>4. draft' \in [Admins -> SUBSET Draft]
    BY <1>1, <2>3 DEF CreateRule, TypeOK
  <2> QED BY <1>1, <2>4 DEF CreateRule, TypeOK, tables, Registered
<1>2. CASE CreateRuleTx(a)
  <2>1. PICK d \in draft[a] : CreateRuleTx(a)!(d)
    BY <1>2 DEF CreateRuleTx
  <2>2. d.rule \in Rule /\ d.supersede \in Nat /\ d.rule.version \in Nat
    BY DEF TypeOK, Draft, Rule
  <2> DEFINE old == SupersedeRule(rules, d.supersede)
  <2>3. DOMAIN old = DOMAIN rules /\ \A u \in DOMAIN rules : old[u] \in Rule
    <3>1. \A u \in DOMAIN rules : rules[u] \in Rule
      BY DEF TypeOK
    <3>2. \A u \in DOMAIN rules : [rules[u] EXCEPT !.status = "superseded"] \in Rule
      BY <3>1 DEF Rule
    <3> QED BY <3>1, <3>2 DEF SupersedeRule
  <2>4. rules' \in [DOMAIN rules \cup {d.rule.version} -> Rule]
    BY <2>1, <2>2, <2>3 DEF Upsert
  <2>5. DOMAIN rules' \subseteq Nat /\ rules' \in [DOMAIN rules' -> Rule]
    BY <2>2, <2>4 DEF TypeOK
  <2>6. draft' \in [Admins -> SUBSET Draft]
    BY <2>1 DEF TypeOK
  <2> QED BY <2>1, <2>5, <2>6 DEF TypeOK, tables, Registered
<1>3. CASE CreateRuleFails(a)
  BY <1>3 DEF CreateRuleFails, TypeOK, tables, Registered
<1> QED BY <1>1, <1>2, <1>3 DEF BeginRule, EndRule

WorkerState == [pc : {"idle", "rules", "collect", "sweep"}, current : Nat,
                rules : SUBSET Rule, stale : SUBSET Refs, pending : SUBSET Write]

LEMMA IdleWorkerType == IdleWorker \in WorkerState
BY DEF IdleWorker, WorkerState

\* What a sweep holds back to write about one re-read item.
LEMMA ReevaluatedType ==
  ASSUME TypeOK, NEW r \in Registered, NEW w \in Reevaluated(r)
  PROVE  /\ w \in Write /\ w.ref = r
         /\ \E rule \in Adjudicate(items[r], worker.rules) :
              w.row = Routed(items[r], rule, "adjudicated")
         /\ items[r].status \in ReevaluableStatuses
<1>1. PICK rule \in Adjudicate(items[r], worker.rules) :
         w = [ref |-> r, row |-> Routed(items[r], rule, "adjudicated")]
  BY DEF Reevaluated
<1>2. rule \in Rule
  BY AdjudicatePicks DEF TypeOK
<1>3. items[r] \in Row /\ r \in Refs
  BY DEF TypeOK
<1>4. Routed(items[r], rule, "adjudicated") \in Row
  BY <1>2, <1>3, RoutedIsRow DEF Row, Statuses
<1>5. items[r].status \in ReevaluableStatuses
  BY DEF Reevaluated
<1> QED BY <1>1, <1>3, <1>4, <1>5 DEF Write

LEMMA WorkerType ==
  ASSUME TypeOK, RuleTable, SweepVersion \/ WorkerStep,
         worker.stale \subseteq Registered
  PROVE  TypeOK'
<1>0. worker \in WorkerState
  BY DEF TypeOK, WorkerState
<1>1. ASSUME worker' \in WorkerState, UNCHANGED <<now, tables, rules, call, draft, esc>>
      PROVE  TypeOK'
  BY <1>1 DEF TypeOK, WorkerState, tables, Registered
<1>2. CASE SweepVersion
  <2>1. worker' \in WorkerState
    BY <1>0, <1>2, CurrentVersion DEF SweepVersion, WorkerState
  <2> QED BY <1>1, <1>2, <2>1 DEF SweepVersion
<1>3. CASE SweepRules
  <2>1. GetActiveRules(now) \in SUBSET Rule
    BY ActiveRulesFromTable DEF TypeOK
  <2>2. worker' \in WorkerState
    BY <1>0, <1>3, <2>1 DEF SweepRules, WorkerState
  <2> QED BY <1>1, <1>3, <2>2 DEF SweepRules
<1>4. CASE CollectStaleItems
  <2> DEFINE stale == {r \in Registered : /\ items[r].status \in ReevaluableStatuses
                                          /\ items[r].ver < worker.current}
  <2>1. stale \in SUBSET Refs
    BY DEF TypeOK
  <2>2. worker' = IF stale = {} THEN IdleWorker
                  ELSE [worker EXCEPT !.pc = "sweep", !.stale = stale]
    BY <1>4 DEF CollectStaleItems
  <2>3. worker' \in WorkerState
    <3> HIDE DEF stale
    <3> QED BY <1>0, <2>1, <2>2, IdleWorkerType DEF WorkerState
  <2> QED BY <1>1, <1>4, <2>3 DEF CollectStaleItems
<1>5. ASSUME NEW r \in Refs, ReevalLoad(r)
      PROVE  TypeOK'
  <2>1. r \in Registered
    BY <1>5 DEF ReevalLoad
  <2>2. Reevaluated(r) \in SUBSET Write
    BY <2>1, ReevaluatedType
  <2>3. worker' \in WorkerState
    BY <1>0, <1>5, <2>2 DEF ReevalLoad, WorkerState
  <2> QED BY <1>1, <1>5, <2>3 DEF ReevalLoad
<1>6. CASE ReevalTx
  <2>1. PICK w \in worker.pending : ReevalTx!(w)
    BY <1>6 DEF ReevalTx
  <2>2. w.ref \in Refs /\ w.row \in Row
    BY <1>0 DEF WorkerState, Write
  <2>3. audits' \in [Refs -> [Actions -> Nat]]
    BY <2>1, <2>2, SaveAuditType DEF Actions
  <2>4. Registered' = Registered /\ items' \in [Registered' -> Row]
    BY <2>1, <2>2 DEF TypeOK, Registered
  <2>5. SaveAssignment(MarkAssignmentSuperseded(referrals[w.ref]), w.row) \in Seq(Referral)
    BY <2>2, SavedReferrals, SupersededReferrals DEF TypeOK
  <2>6. referrals' \in [Refs -> Seq(Referral)]
    BY <2>1, <2>2, <2>5 DEF TypeOK
  <2>7. worker' \in WorkerState
    BY <1>0, <2>1 DEF WorkerState
  <2> QED BY <2>1, <2>3, <2>4, <2>6, <2>7 DEF TypeOK, WorkerState
<1>7. CASE ReevalFails
  <2>1. worker' \in WorkerState
    BY <1>0, <1>7 DEF ReevalFails, WorkerState
  <2> QED BY <1>1, <1>7, <2>1 DEF ReevalFails
<1>8. CASE SweepEnds
  BY <1>1, <1>8, IdleWorkerType DEF SweepEnds
<1> QED BY <1>2, <1>3, <1>4, <1>5, <1>6, <1>7, <1>8 DEF WorkerStep

\* The queue of a run holds the rows of the overdue items.
LEMMA QueueIsSequence ==
  ASSUME TypeOK, NEW q \in ByDeadline(FindOverdueItems(now))
  PROVE  /\ [i \in DOMAIN q |-> [ref |-> q[i], row |-> items[q[i]]]] \in Seq(Write)
         /\ \A i \in DOMAIN q : q[i] \in FindOverdueItems(now)
<1> DEFINE S == FindOverdueItems(now)
           Q == [i \in DOMAIN q |-> [ref |-> q[i], row |-> items[q[i]]]]
<1>1. S \subseteq Registered /\ S \subseteq Refs
  BY DEF FindOverdueItems, TypeOK
<1>2. Cardinality(S) \in Nat
  BY <1>1, RefsAssumption, FS_Subset, FS_CardinalityType
<1>3. q \in [1 .. Cardinality(S) -> S]
  BY DEF ByDeadline
<1>4. \A i \in 1 .. Cardinality(S) : [ref |-> q[i], row |-> items[q[i]]] \in Write
  BY <1>1, <1>3 DEF TypeOK, Write
<1>5. Q \in [1 .. Cardinality(S) -> Write]
  BY <1>3, <1>4
<1> QED BY <1>2, <1>3, <1>5, FunctionIsSequence

LEMMA EscalationType ==
  ASSUME TypeOK, CheckAndEscalate \/ EscalationStep
  PROVE  TypeOK'
<1>1. CASE CheckAndEscalate
  <2>1. esc' \in [at : Nat, queue : Seq(Write)]
    BY <1>1, QueueIsSequence, TimeAssumption DEF CheckAndEscalate, TypeOK
  <2> QED BY <1>1, <2>1 DEF CheckAndEscalate, TypeOK, tables, Registered
<1>2. CASE EscalateItem
  <2> DEFINE w == Head(esc.queue)
             row == Escalated(w.row, esc.at)
  <2>1. esc.queue \in Seq(Write) /\ esc.queue # <<>> /\ esc.at \in Nat
    BY <1>2 DEF EscalateItem, TypeOK
  <2>2. w \in Write /\ Tail(esc.queue) \in Seq(Write)
    BY <2>1
  <2>3. w.ref \in Refs /\ w.row \in Row /\ w.row.level \in Nat
    BY <2>2 DEF Write, Row
  <2>4. row \in Row /\ row.level \in Nat
    BY <2>1, <2>3, EscalatedIsRow DEF Row
  <2>5. audits' \in [Refs -> [Actions -> Nat]]
    BY <1>2, <2>3, SaveAuditType DEF EscalateItem, Actions
  <2>6. Registered' = Registered /\ items' \in [Registered' -> Row]
    BY <1>2, <2>4 DEF EscalateItem, TypeOK, Registered
  <2>7. SaveAssignment(MarkAssignmentSuperseded(referrals[w.ref]), row) \in Seq(Referral)
    BY <2>3, <2>4, SavedReferrals, SupersededReferrals DEF TypeOK
  <2>8. referrals' \in [Refs -> Seq(Referral)]
    BY <1>2, <2>3, <2>7 DEF EscalateItem, TypeOK
  <2>9. [from |-> w.row.level, to |-> row.level] \in Escalation
    BY <2>3, <2>4 DEF Escalation
  <2>10. escalations' \in [Refs -> Seq(Escalation)]
    BY <1>2, <2>3, <2>9 DEF EscalateItem, TypeOK
  <2>11. esc' \in [at : Nat, queue : Seq(Write)]
    BY <1>2, <2>1, <2>2 DEF EscalateItem, TypeOK
  <2> QED BY <1>2, <2>5, <2>6, <2>8, <2>10, <2>11 DEF EscalateItem, TypeOK
<1>3. CASE EscalationAborts
  BY <1>3 DEF EscalationAborts, IdleEscalation, TypeOK, tables, Registered
<1> QED BY <1>1, <1>2, <1>3 DEF EscalationStep

-----------------------------------------------------------------------------
\* The items a sweep has collected stay registered.
BaseInv == TypeOK /\ RuleTable /\ worker.stale \subseteq Registered

LEMMA BaseInit == Init => BaseInv
<1> SUFFICES ASSUME Init PROVE BaseInv
  OBVIOUS
<1>1. TypeOK
  <2>1. worker \in WorkerState /\ esc \in [at : Nat, queue : Seq(Write)]
    BY IdleWorkerType DEF Init, IdleEscalation
  <2>2. /\ DOMAIN items = {} /\ DOMAIN rules = {}
        /\ items \in [DOMAIN items -> Row] /\ rules \in [DOMAIN rules -> Rule]
    BY DEF Init
  <2>3. /\ referrals \in [Refs -> Seq(Referral)] /\ escalations \in [Refs -> Seq(Escalation)]
        /\ audits \in [Refs -> [Actions -> Nat]] /\ now \in 0 .. MaxTime
        /\ call \in [Clients -> SUBSET Call] /\ draft \in [Admins -> SUBSET Draft]
    BY TimeAssumption DEF Init
  <2> QED BY <2>1, <2>2, <2>3 DEF TypeOK, WorkerState, Registered
<1>2. RuleTable
  <2>1. DOMAIN rules = 1 .. 0
    BY DEF Init
  <2> QED BY <2>1 DEF Init, RuleTable, DraftVersionsFit
<1>3. worker.stale \subseteq Registered
  BY DEF Init, IdleWorker
<1> QED BY <1>1, <1>2, <1>3 DEF BaseInv

LEMMA RestartType ==
  ASSUME TypeOK, Restart
  PROVE  TypeOK'
<1>1. worker' \in WorkerState /\ esc' \in [at : Nat, queue : Seq(Write)]
  BY IdleWorkerType DEF Restart, IdleEscalation
<1> QED BY <1>1 DEF Restart, TypeOK, WorkerState, tables, Registered

\* Rules are only added, at the next free version.
LEMMA RuleTableStep ==
  ASSUME BaseInv, [Next]_vars
  PROVE  RuleTable'
<1> USE DEF BaseInv
<1>1. CASE UNCHANGED rules /\ \A a \in Admins : draft'[a] \subseteq draft[a]
  BY <1>1 DEF RuleTable, DraftVersionsFit
<1>2. ASSUME NEW a \in Admins, NEW form \in RuleForms, NEW v \in 0 .. MaxVersion,
             CreateRule(a, form, v)
      PROVE  RuleTable'
  <2>1. PICK n \in Nat : DOMAIN rules = 1 .. n /\ GetCurrentRuleVersion = n
    BY CurrentVersionOfContiguous DEF RuleTable
  <2>2. \A b \in Admins : \A d \in draft'[b] :
           d \in draft[b] \/ d.rule.version = n + 1
    BY <1>2, <2>1 DEF CreateRule, TypeOK
  <2>3. UNCHANGED rules
    BY <1>2 DEF CreateRule
  <2> QED BY <2>1, <2>2, <2>3 DEF RuleTable, DraftVersionsFit
<1>3. ASSUME NEW a \in Admins, CreateRuleTx(a)
      PROVE  RuleTable'
  <2>1. PICK d \in draft[a] : CreateRuleTx(a)!(d)
    BY <1>3 DEF CreateRuleTx
  <2>2. PICK n \in Nat : DOMAIN rules = 1 .. n
    BY DEF RuleTable
  <2>3. d.rule \in Rule /\ d.rule.version = n + 1
    <3>1. d.rule \in Rule /\ d.rule.version \in Nat
      BY DEF TypeOK, Draft, Rule
    <3>2. d.rule.version = 1 \/ d.rule.version - 1 \in 1 .. n
      BY <2>2 DEF RuleTable, DraftVersionsFit
    <3>3. d.rule.version \notin 1 .. n
      BY <2>1, <2>2
    <3> QED BY <3>1, <3>2, <3>3
  <2>4. /\ DOMAIN rules' = 1 .. n + 1
        /\ rules'[n + 1] = d.rule
        /\ \A u \in 1 .. n : rules'[u] = SupersedeRule(rules, d.supersede)[u]
    BY <2>1, <2>2, <2>3 DEF Upsert, SupersedeRule
  <2>5. \A u \in 1 .. n : rules'[u].version = u
    <3>1. \A u \in 1 .. n : rules[u] \in Rule /\ rules[u].version = u
      BY <2>2 DEF TypeOK, RuleTable
    <3>2. \A u \in 1 .. n : [rules[u] EXCEPT !.status = "superseded"].version = u
      BY <3>1 DEF Rule
    <3> QED BY <2>2, <2>4, <3>1, <3>2 DEF SupersedeRule
  <2>6. \A b \in Admins : draft'[b] \subseteq draft[b]
    BY <2>1 DEF TypeOK
  <2>7. DOMAIN rules \subseteq DOMAIN rules'
    BY <2>2, <2>4
  <2>8. \A v \in DOMAIN rules' : rules'[v].version = v
    BY <2>3, <2>4, <2>5
  <2>9. DraftVersionsFit'
    BY <2>6, <2>7 DEF RuleTable, DraftVersionsFit
  <2> QED BY <2>2, <2>4, <2>8, <2>9 DEF RuleTable
<1>4. CASE Restart
  BY <1>1, <1>4 DEF Restart
<1>5. ASSUME NEW a \in Admins, CreateRuleFails(a)
      PROVE  RuleTable'
  BY <1>1, <1>5 DEF CreateRuleFails, TypeOK
<1>6. CASE UNCHANGED <<rules, draft>>
  BY <1>1, <1>6
<1>7. ASSUME NEW c \in Clients, NEW r \in Refs, BeginCall(c, r)
      PROVE  UNCHANGED <<rules, draft>>
  BY <1>7 DEF BeginCall, InFlight, Register, Modify, StartProcessing,
              ReturnForCorrection, Resubmit, Cancel, Complete
<1>8. ASSUME NEW c \in Clients, EndCall(c)
      PROVE  UNCHANGED <<rules, draft>>
  BY <1>8 DEF EndCall, RegisterTx, UpdateItemWithAudit, CallFails
<1>9. CASE SweepVersion \/ WorkerStep
  BY <1>6, <1>9 DEF WorkerStep, SweepVersion, SweepRules, CollectStaleItems, ReevalLoad,
                    ReevalTx, ReevalFails, SweepEnds
<1>10. CASE CheckAndEscalate \/ EscalationStep
  BY <1>6, <1>10 DEF EscalationStep, CheckAndEscalate, EscalateItem, EscalationAborts
<1>11. CASE Tick \/ UNCHANGED vars
  BY <1>6, <1>11 DEF Tick, vars
<1> QED BY <1>2, <1>3, <1>4, <1>5, <1>6, <1>7, <1>8, <1>9, <1>10, <1>11
        DEF Next, Begin, Continue, BeginRule, EndRule

\* Cases are never removed and a sweep collects registered cases only.
LEMMA StaleStep ==
  ASSUME BaseInv, [Next]_vars
  PROVE  Registered \subseteq Registered' /\ (worker.stale \subseteq Registered)'
<1> USE DEF BaseInv
<1>1. Registered \subseteq Registered'
  <2>1. CASE UNCHANGED items
    BY <2>1 DEF Registered
  <2>2. ASSUME NEW c \in Clients, EndCall(c)
        PROVE  DOMAIN items \subseteq DOMAIN items'
    BY <2>2 DEF EndCall, RegisterTx, UpdateItemWithAudit, CallFails, Upsert, tables
  <2>3. CASE SweepVersion \/ WorkerStep
    <3>1. CASE ReevalTx
      BY <3>1 DEF ReevalTx, Registered
    <3> QED BY <2>1, <2>3, <3>1 DEF WorkerStep, SweepVersion, SweepRules,
                   CollectStaleItems, ReevalLoad, ReevalFails, SweepEnds, tables
  <2>4. CASE CheckAndEscalate \/ EscalationStep
    <3>1. CASE EscalateItem
      BY <3>1 DEF EscalateItem, Registered
    <3> QED BY <2>1, <2>4, <3>1 DEF EscalationStep, CheckAndEscalate, EscalationAborts, tables
  <2>5. ASSUME NEW c \in Clients, NEW r \in Refs, BeginCall(c, r)
        PROVE  UNCHANGED items
    BY <2>5 DEF BeginCall, InFlight, Register, Modify, StartProcessing, tables,
                ReturnForCorrection, Resubmit, Cancel, Complete
  <2>6. ASSUME NEW a \in Admins, BeginRule(a) \/ EndRule(a)
        PROVE  UNCHANGED items
    BY <2>6 DEF BeginRule, EndRule, CreateRule, CreateRuleTx, CreateRuleFails, tables
  <2>7. CASE Tick \/ Restart \/ UNCHANGED vars
    BY <2>1, <2>7 DEF Tick, Restart, vars, tables
  <2> QED BY <2>1, <2>2, <2>3, <2>4, <2>5, <2>6, <2>7 DEF Next, Begin, Continue, Registered
<1>2. worker'.stale \subseteq worker.stale \/ worker'.stale \subseteq Registered
  <2>1. worker \in WorkerState
    BY DEF TypeOK, WorkerState
  <2>2. CASE SweepVersion \/ SweepRules \/ ReevalTx \/ ReevalFails
    BY <2>1, <2>2 DEF SweepVersion, SweepRules, ReevalTx, ReevalFails, WorkerState
  <2>3. CASE SweepEnds \/ Restart
    BY <2>3 DEF SweepEnds, Restart, IdleWorker
  <2>4. ASSUME NEW r \in Refs, ReevalLoad(r)
        PROVE  worker'.stale \subseteq worker.stale
    BY <2>1, <2>4 DEF ReevalLoad, WorkerState
  <2>5. CASE CollectStaleItems
    BY <2>1, <2>5 DEF CollectStaleItems, IdleWorker, WorkerState
  <2>6. CASE UNCHANGED worker
    BY <2>6
  <2>7. ASSUME NEW c \in Clients, NEW r \in Refs, BeginCall(c, r)
        PROVE  UNCHANGED worker
    BY <2>7 DEF BeginCall, InFlight, Register, Modify, StartProcessing,
                ReturnForCorrection, Resubmit, Cancel, Complete
  <2>8. ASSUME NEW c \in Clients, EndCall(c)
        PROVE  UNCHANGED worker
    BY <2>8 DEF EndCall, RegisterTx, UpdateItemWithAudit, CallFails
  <2>9. ASSUME NEW a \in Admins, BeginRule(a) \/ EndRule(a)
        PROVE  UNCHANGED worker
    BY <2>9 DEF BeginRule, EndRule, CreateRule, CreateRuleTx, CreateRuleFails
  <2>10. CASE CheckAndEscalate \/ EscalationStep
    BY <2>6, <2>10 DEF EscalationStep, CheckAndEscalate, EscalateItem, EscalationAborts
  <2>11. CASE Tick \/ UNCHANGED vars
    BY <2>6, <2>11 DEF Tick, vars
  <2> QED BY <2>2, <2>3, <2>4, <2>5, <2>6, <2>7, <2>8, <2>9, <2>10, <2>11
          DEF Next, Begin, Continue, WorkerStep
<1> QED BY <1>1, <1>2

LEMMA BaseStep == BaseInv /\ [Next]_vars => BaseInv'
<1> SUFFICES ASSUME BaseInv, [Next]_vars PROVE BaseInv'
  OBVIOUS
<1> USE DEF BaseInv
<1>1. TypeOK'
  <2>1. ASSUME NEW c \in Clients, NEW r \in Refs, BeginCall(c, r) PROVE TypeOK'
    BY <2>1, BeginCallType
  <2>2. ASSUME NEW c \in Clients, EndCall(c) PROVE TypeOK'
    BY <2>2, EndCallType
  <2>3. ASSUME NEW a \in Admins, BeginRule(a) \/ EndRule(a) PROVE TypeOK'
    BY <2>3, RuleStepType
  <2>4. CASE SweepVersion \/ WorkerStep
    BY <2>4, WorkerType
  <2>5. CASE CheckAndEscalate \/ EscalationStep
    BY <2>5, EscalationType
  <2>6. CASE Tick
    BY <2>6, TimeAssumption DEF Tick, TypeOK, tables, Registered
  <2>7. CASE Restart
    BY <2>7, RestartType
  <2>8. CASE UNCHANGED vars
    BY <2>8 DEF vars, TypeOK, Registered
  <2> QED BY <2>1, <2>2, <2>3, <2>4, <2>5, <2>6, <2>7, <2>8 DEF Next, Begin, Continue
<1>2. RuleTable'
  BY RuleTableStep
<1>3. (worker.stale \subseteq Registered)'
  BY StaleStep
<1> QED BY <1>1, <1>2, <1>3

\* Every reachable state is well typed: no operation, transaction, sweep,
\* escalation or restart leaves a malformed row, referral or write in flight.
THEOREM TypeCorrectness == Spec => []TypeOK
<1>1. Spec => []BaseInv
  BY BaseInit, BaseStep, PTL DEF Spec
<1>2. BaseInv => TypeOK
  BY DEF BaseInv
<1> QED BY <1>1, <1>2, PTL

\* Rule versions are 1, 2, ... without a gap, however many administrators
\* read MAX(version) and insert concurrently.
THEOREM RuleVersionsAreContiguous == Spec => []RuleVersionsContiguous
<1>1. Spec => []BaseInv
  BY BaseInit, BaseStep, PTL DEF Spec
<1>2. BaseInv => RuleVersionsContiguous
  BY CurrentVersion DEF BaseInv, RuleVersionsContiguous
<1> QED BY <1>1, <1>2, PTL
=============================================================================
