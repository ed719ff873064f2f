------------------------ MODULE CaseFlowSafetyProofs ------------------------
(***************************************************************************)
(* The safety invariants of CaseFlow, for every value of the constants.    *)
(*                                                                         *)
(* Operations overwrite each other's rows, so nothing that relates a row   *)
(* to its own past survives.  What survives is a property of single rows:  *)
(* if it holds of a row that was read it holds of the row that is written, *)
(* whenever the write happens.  The inductive invariant says so of every   *)
(* row, stored or in flight.                                               *)
(***************************************************************************)
EXTENDS CaseFlowProofs, WellFoundedInduction, SequenceTheorems

GoodRow(row, table) == RowRouted(row, table) /\ RowCoherent(row)

\* A write in flight is about a stored case and keeps its registration time.
SameCase(w, table) ==
  w.ref \in DOMAIN table /\ table[w.ref].registeredAt = w.row.registeredAt

ItemsGood    == \A r \in Registered : GoodRow(items[r], rules)
CallsGood    == \A c \in Clients : \A w \in call[c] :
                  GoodRow(w.row, rules) /\ (w.op # "register" => SameCase(w, items))
PendingGood  == \A w \in worker.pending : GoodRow(w.row, rules) /\ SameCase(w, items)
QueueGood    == \A i \in DOMAIN esc.queue :
                  /\ GoodRow(esc.queue[i].row, rules) /\ SameCase(esc.queue[i], items)
                  /\ esc.queue[i].row.level < MaxEscalationLevel
SnapshotGood == \A q \in worker.rules :
                  /\ q.version \in DOMAIN rules
                  /\ rules[q.version].lead = q.lead
                  /\ rules[q.version].effectiveFrom = q.effectiveFrom

RowsInv == ItemsGood /\ CallsGood /\ PendingGood /\ QueueGood /\ SnapshotGood

EscalationRecords == \A r \in Refs : \A i \in DOMAIN escalations[r] :
                       /\ escalations[r][i].to = escalations[r][i].from + 1
                       /\ escalations[r][i].to <= MaxEscalationLevel

SafetyInv == BaseInv /\ RowsInv /\ OneCurrentReferral /\ AuditLedger /\ EscalationRecords

-----------------------------------------------------------------------------
(***************************************************************************)
(* Single rows.                                                            *)
(***************************************************************************)

\* Where a validated transition can come from.
LEMMA TransitionSources ==
  ASSUME NEW s \in Statuses
  PROVE  /\ ValidateTransition(s, "in_progress") => s \in {"in_progress", "adjudicated", "escalated"}
         /\ ValidateTransition(s, "returned")    => s \in {"returned", "registered", "adjudicated"}
         /\ ValidateTransition(s, "registered")  => s \in {"registered", "returned"}
         /\ ValidateTransition(s, "cancelled")   => s # "completed"
         /\ ValidateTransition(s, "completed")   => s \in {"completed", "in_progress", "escalated"}
         /\ ValidateTransition(s, "escalated")   => s \in {"escalated", "adjudicated", "in_progress"}
BY DEF ValidateTransition, CanTransition, transitionTable, Statuses

LEMMA ClientChangesGood ==
  ASSUME NEW row \in Row, NEW table, GoodRow(row, table)
  PROVE  /\ ValidateTransition(row.status, "in_progress") =>
              GoodRow([row EXCEPT !.status = "in_progress"], table)
         /\ ValidateTransition(row.status, "returned") =>
              GoodRow([row EXCEPT !.status = "returned"], table)
         /\ ValidateTransition(row.status, "registered") =>
              GoodRow([row EXCEPT !.status = "adjudicated"], table)
         /\ ValidateTransition(row.status, "cancelled") =>
              GoodRow([row EXCEPT !.status = "cancelled", !.cancelled = TRUE], table)
         /\ ValidateTransition(row.status, "completed") =>
              GoodRow([row EXCEPT !.status = "completed", !.completed = TRUE], table)
<1> USE DEF GoodRow, RowRouted, RowCoherent
<1>1. row.status \in Statuses /\ row.level \in Nat
  BY DEF Row
<1>2. ASSUME ValidateTransition(row.status, "in_progress")
      PROVE  GoodRow([row EXCEPT !.status = "in_progress"], table)
  <2>1. row.status \in {"in_progress", "adjudicated", "escalated"}
    BY <1>1, <1>2, TransitionSources
  <2> QED BY <2>1 DEF Row
<1>3. ASSUME ValidateTransition(row.status, "returned")
      PROVE  GoodRow([row EXCEPT !.status = "returned"], table)
  <2>1. row.status \in {"returned", "adjudicated"}
    BY <1>1, <1>3, TransitionSources
  <2> QED BY <2>1 DEF Row
<1>4. ASSUME ValidateTransition(row.status, "registered")
      PROVE  GoodRow([row EXCEPT !.status = "adjudicated"], table)
  <2>1. row.status = "returned"
    BY <1>1, <1>4, TransitionSources
  <2> QED BY <2>1 DEF Row
<1>5. ASSUME ValidateTransition(row.status, "cancelled")
      PROVE  GoodRow([row EXCEPT !.status = "cancelled", !.cancelled = TRUE], table)
  <2>1. row.status # "completed"
    BY <1>1, <1>5, TransitionSources
  <2> QED BY <2>1 DEF Row
<1>6. ASSUME ValidateTransition(row.status, "completed")
      PROVE  GoodRow([row EXCEPT !.status = "completed", !.completed = TRUE], table)
  <2>1. row.status # "cancelled"
    BY <1>1, <1>6, TransitionSources
  <2> QED BY <2>1 DEF Row
<1> QED BY <1>2, <1>3, <1>4, <1>5, <1>6

LEMMA EditedGood ==
  ASSUME NEW row \in Row, NEW table, GoodRow(row, table), NEW edit \in Edits
  PROVE  GoodRow(Edited(row, edit), table) /\ Edited(row, edit).registeredAt = row.registeredAt
BY DEF GoodRow, RowRouted, RowCoherent, Edited, Row

\* The suffixes 1 .. n followed by n + 1.
LEMMA ChainGrows ==
  ASSUME NEW n \in Nat
  PROVE  Append([i \in 1 .. n |-> i], n + 1) = [i \in 1 .. n + 1 |-> i]
OBVIOUS

LEMMA EscalatedGood ==
  ASSUME NEW row \in Row, NEW table, NEW at \in Nat, GoodRow(row, table),
         row.level < MaxEscalationLevel, ValidateTransition(row.status, "escalated")
  PROVE  /\ GoodRow(Escalated(row, at), table)
         /\ Escalated(row, at).registeredAt = row.registeredAt
         /\ Escalated(row, at).level = row.level + 1
<1> DEFINE new == Escalated(row, at)
<1>1. row.status \in {"escalated", "adjudicated", "in_progress"} /\ row.level \in Nat
  BY TransitionSources DEF Row
<1>2. /\ new.level = row.level + 1 /\ new.status = "escalated" /\ new.ver = row.ver
      /\ new.registeredAt = row.registeredAt
      /\ new.completed = row.completed /\ new.cancelled = row.cancelled
      /\ new.lead = EscalationDepartmentName(row.lead, row.level + 1)
  BY DEF Escalated, Row
<1>3. RowCoherent(new)
  BY <1>1, <1>2, LevelAssumption DEF GoodRow, RowCoherent
<1>4. row.lead = EscalatedLead(table[row.ver].lead, row.level)
  BY DEF GoodRow, RowRouted
<1>5. new.lead = [dept |-> row.lead.dept, chain |-> Append(row.lead.chain, row.level + 1)]
  BY <1>1, <1>2 DEF EscalationDepartmentName
<1>6. new.lead = EscalatedLead(table[row.ver].lead, row.level + 1)
  <2>1. /\ row.lead.dept = table[row.ver].lead
        /\ row.lead.chain = [i \in 1 .. row.level |-> i]
    BY <1>4 DEF EscalatedLead
  <2>2. Append(row.lead.chain, row.level + 1) = [i \in 1 .. row.level + 1 |-> i]
    BY <1>1, <2>1, ChainGrows
  <2> QED BY <1>5, <2>1, <2>2 DEF EscalatedLead
<1>7. RowRouted(new, table)
  BY <1>2, <1>6 DEF GoodRow, RowRouted
<1> QED BY <1>2, <1>3, <1>7 DEF GoodRow

\* Routing an item that has not been escalated.
LEMMA RoutedGood ==
  ASSUME NEW item, NEW rule \in Rule, NEW table, item.level = 0,
         item.completed = FALSE, item.cancelled = FALSE,
         rule.version \in DOMAIN table, table[rule.version].lead = rule.lead,
         table[rule.version].effectiveFrom <= item.registeredAt
  PROVE  /\ GoodRow(Routed(item, rule, "adjudicated"), table)
         /\ Routed(item, rule, "adjudicated").registeredAt = item.registeredAt
<1> DEFINE new == Routed(item, rule, "adjudicated")
<1>1. /\ new.level = 0 /\ new.status = "adjudicated" /\ new.ver = rule.version
      /\ new.registeredAt = item.registeredAt
      /\ new.completed = FALSE /\ new.cancelled = FALSE
      /\ new.lead = [dept |-> rule.lead, chain |-> <<>>]
  BY DEF Routed, Department
<1>2. <<>> = [i \in 1 .. 0 |-> i]
  OBVIOUS
<1>3. new.lead = EscalatedLead(rule.lead, 0)
  BY <1>1, <1>2 DEF EscalatedLead
<1> QED BY <1>1, <1>3, LevelAssumption DEF GoodRow, RowRouted, RowCoherent

-----------------------------------------------------------------------------
(***************************************************************************)
(* What a step may do to the tables without harm to the rows in flight.    *)
(***************************************************************************)
Stable ==
  /\ \A v \in DOMAIN rules : /\ v \in DOMAIN rules'
                             /\ rules'[v].lead = rules[v].lead
                             /\ rules'[v].effectiveFrom = rules[v].effectiveFrom
  /\ \A r \in Registered : /\ r \in Registered'
                           /\ items'[r].registeredAt = items[r].registeredAt

LEMMA StableRows ==
  ASSUME Stable
  PROVE  /\ \A row : GoodRow(row, rules) => GoodRow(row, rules')
         /\ \A w : SameCase(w, items) => SameCase(w, items')
BY DEF Stable, GoodRow, RowRouted, SameCase, Registered

LEMMA InFlightKept ==
  ASSUME RowsInv, Stable
  PROVE  /\ items' = items => ItemsGood'
         /\ (\A c \in Clients : call'[c] \subseteq call[c]) => CallsGood'
         /\ worker'.pending \subseteq worker.pending => PendingGood'
         /\ esc'.queue = esc.queue => QueueGood'
         /\ worker'.rules \subseteq worker.rules => SnapshotGood'
<1>1. ASSUME items' = items PROVE ItemsGood'
  BY <1>1, StableRows DEF RowsInv, ItemsGood, Registered
<1>2. ASSUME \A c \in Clients : call'[c] \subseteq call[c] PROVE CallsGood'
  BY <1>2, StableRows DEF RowsInv, CallsGood
<1>3. ASSUME worker'.pending \subseteq worker.pending PROVE PendingGood'
  BY <1>3, StableRows DEF RowsInv, PendingGood
<1>4. ASSUME esc'.queue = esc.queue PROVE QueueGood'
  BY <1>4, StableRows DEF RowsInv, QueueGood
<1>5. ASSUME worker'.rules \subseteq worker.rules PROVE SnapshotGood'
  BY <1>5 DEF RowsInv, SnapshotGood, Stable
<1> QED BY <1>1, <1>2, <1>3, <1>4, <1>5

\* A step that changes neither table.
LEMMA SameTablesStable ==
  ASSUME UNCHANGED <<items, rules>>
  PROVE  Stable
BY DEF Stable, Registered

-----------------------------------------------------------------------------
(***************************************************************************)
(* RowsInv is preserved, one group of actions at a time.                   *)
(***************************************************************************)
LEMMA InFlightRows ==
  ASSUME TypeOK, RowsInv, NEW c \in Clients, NEW op, NEW r, NEW row,
         InFlight(c, op, r, row), GoodRow(row, rules),
         op # "register" => SameCase([ref |-> r, row |-> row, op |-> op], items)
  PROVE  RowsInv' /\ Stable
<1>1. Stable
  BY SameTablesStable DEF InFlight, tables
<1>2. ItemsGood' /\ PendingGood' /\ QueueGood' /\ SnapshotGood'
  BY <1>1, InFlightKept DEF InFlight, tables
<1>3. CallsGood'
  <2>1. \A b \in Clients : \A w \in call'[b] :
           w \in call[b] \/ w = [ref |-> r, row |-> row, op |-> op]
    BY DEF InFlight, TypeOK
  <2>2. UNCHANGED <<items, rules>>
    BY DEF InFlight, tables
  <2>3. ASSUME NEW b \in Clients, NEW w \in call'[b]
        PROVE  GoodRow(w.row, rules) /\ (w.op # "register" => SameCase(w, items))
    BY <2>1 DEF RowsInv, CallsGood
  <2> QED BY <2>2, <2>3 DEF CallsGood
<1> QED BY <1>1, <1>2, <1>3 DEF RowsInv

LEMMA BeginCallRows ==
  ASSUME BaseInv, RowsInv, NEW c \in Clients, NEW r \in Refs, BeginCall(c, r)
  PROVE  RowsInv' /\ Stable
<1> USE DEF BaseInv
<1>1. ASSUME NEW subject \in Subjects, Register(c, r, subject)
      PROVE  RowsInv' /\ Stable
  <2> DEFINE item == NewItem(subject)
  <2>1. PICK rule \in Adjudicate(item, GetActiveRules(now)) :
           InFlight(c, "register", r, Routed(item, rule, "adjudicated"))
    BY <1>1 DEF Register
  <2>2. PICK v \in DOMAIN rules : rule = rules[v]
    BY AdjudicatePicks, ActiveRulesFromTable
  <2>3. rule \in Rule /\ rule.version = v
    BY <2>2 DEF TypeOK, RuleTable
  <2>4. rule.effectiveFrom <= item.registeredAt
    BY AdjudicatePicks DEF IsActiveAt
  <2>5. item.level = 0 /\ item.completed = FALSE /\ item.cancelled = FALSE
    BY DEF NewItem
  <2>6. GoodRow(Routed(item, rule, "adjudicated"), rules)
    <3> HIDE DEF item
    <3> QED BY <2>2, <2>3, <2>4, <2>5, RoutedGood
  <2> QED BY <2>1, <2>6, InFlightRows
<1>2. ASSUME r \in Registered
      PROVE  items[r] \in Row /\ GoodRow(items[r], rules)
  BY <1>2 DEF TypeOK, RowsInv, ItemsGood
<1>3. ASSUME r \in Registered, NEW row, NEW op, row.registeredAt = items[r].registeredAt
      PROVE  SameCase([ref |-> r, row |-> row, op |-> op], items)
  BY <1>3 DEF SameCase, Registered
<1>4. ASSUME NEW edit \in Edits, Modify(c, r, edit)
      PROVE  RowsInv' /\ Stable
  <2>1. r \in Registered /\ InFlight(c, "modify", r, Edited(items[r], edit))
    BY <1>4 DEF Modify
  <2> QED BY <1>2, <1>3, <2>1, EditedGood, InFlightRows
<1>5. CASE StartProcessing(c, r)
  <2> DEFINE row == [items[r] EXCEPT !.status = "in_progress"]
  <2>1. /\ r \in Registered /\ ValidateTransition(items[r].status, "in_progress")
        /\ InFlight(c, "start_processing", r, row)
    BY <1>5 DEF StartProcessing
  <2>2. GoodRow(row, rules)
    BY <1>2, <2>1, ClientChangesGood
  <2>3. row.registeredAt = items[r].registeredAt
    BY <1>2, <2>1 DEF Row
  <2> QED BY <1>3, <2>1, <2>2, <2>3, InFlightRows
<1>6. CASE ReturnForCorrection(c, r)
  <2> DEFINE row == [items[r] EXCEPT !.status = "returned"]
  <2>1. /\ r \in Registered /\ ValidateTransition(items[r].status, "returned")
        /\ InFlight(c, "return", r, row)
    BY <1>6 DEF ReturnForCorrection
  <2>2. GoodRow(row, rules)
    BY <1>2, <2>1, ClientChangesGood
  <2>3. row.registeredAt = items[r].registeredAt
    BY <1>2, <2>1 DEF Row
  <2> QED BY <1>3, <2>1, <2>2, <2>3, InFlightRows
<1>7. CASE Resubmit(c, r)
  <2> DEFINE row == [items[r] EXCEPT !.status = "adjudicated"]
  <2>1. /\ r \in Registered /\ ValidateTransition(items[r].status, "registered")
        /\ InFlight(c, "resubmit", r, row)
    BY <1>7 DEF Resubmit
  <2>2. GoodRow(row, rules)
    BY <1>2, <2>1, ClientChangesGood
  <2>3. row.registeredAt = items[r].registeredAt
    BY <1>2, <2>1 DEF Row
  <2> QED BY <1>3, <2>1, <2>2, <2>3, InFlightRows
<1>8. CASE Cancel(c, r)
  <2> DEFINE row == [items[r] EXCEPT !.status = "cancelled", !.cancelled = TRUE]
  <2>1. /\ r \in Registered /\ ValidateTransition(items[r].status, "cancelled")
        /\ InFlight(c, "cancel", r, row)
    BY <1>8 DEF Cancel
  <2>2. GoodRow(row, rules)
    BY <1>2, <2>1, ClientChangesGood
  <2>3. row.registeredAt = items[r].registeredAt
    BY <1>2, <2>1 DEF Row
  <2> QED BY <1>3, <2>1, <2>2, <2>3, InFlightRows
<1>9. CASE Complete(c, r)
  <2> DEFINE row == [items[r] EXCEPT !.status = "completed", !.completed = TRUE]
  <2>1. /\ r \in Registered /\ ValidateTransition(items[r].status, "completed")
        /\ InFlight(c, "complete", r, row)
    BY <1>9 DEF Complete
  <2>2. GoodRow(row, rules)
    BY <1>2, <2>1, ClientChangesGood
  <2>3. row.registeredAt = items[r].registeredAt
    BY <1>2, <2>1 DEF Row
  <2> QED BY <1>3, <2>1, <2>2, <2>3, InFlightRows
<1> QED BY <1>1, <1>4, <1>5, <1>6, <1>7, <1>8, <1>9 DEF BeginCall

\* A transaction that stores a good row for a stored case.
LEMMA StoredRows ==
  ASSUME TypeOK, RowsInv, NEW ref, NEW row, GoodRow(row, rules),
         ref \in Registered, items[ref].registeredAt = row.registeredAt,
         items' = [items EXCEPT ![ref] = row], UNCHANGED rules
  PROVE  Stable /\ ItemsGood'
<1>1. /\ DOMAIN items' = DOMAIN items
      /\ \A r \in DOMAIN items : items'[r] = IF r = ref THEN row ELSE items[r]
  BY DEF TypeOK, Registered
<1> QED BY <1>1 DEF Stable, Registered, RowsInv, ItemsGood

LEMMA EndCallRows ==
  ASSUME BaseInv, RowsInv, NEW c \in Clients, EndCall(c)
  PROVE  RowsInv' /\ Stable
<1> USE DEF BaseInv
<1>1. ASSUME NEW w \in call[c]
      PROVE  GoodRow(w.row, rules) /\ (w.op # "register" => SameCase(w, items))
  BY DEF RowsInv, CallsGood
<1>2. CASE RegisterTx(c)
  <2>1. PICK w \in call[c] : RegisterTx(c)!(w)
    BY <1>2 DEF RegisterTx
  <2>2. /\ DOMAIN items' = DOMAIN items \cup {w.ref}
        /\ \A r \in DOMAIN items' : items'[r] = IF r = w.ref THEN w.row ELSE items[r]
        /\ w.ref \notin DOMAIN items
    BY <2>1 DEF Upsert, Registered
  <2>3. Stable /\ ItemsGood'
    BY <1>1, <2>1, <2>2 DEF Stable, Registered, RowsInv, ItemsGood
  <2>4. \A b \in Clients : call'[b] \subseteq call[b]
    BY <2>1 DEF TypeOK
  <2> QED BY <2>1, <2>3, <2>4, InFlightKept DEF RowsInv
<1>3. CASE UpdateItemWithAudit(c)
  <2>1. PICK w \in call[c] : UpdateItemWithAudit(c)!(w)
    BY <1>3 DEF UpdateItemWithAudit
  <2>2. Stable /\ ItemsGood'
    BY <1>1, <2>1, StoredRows DEF SameCase, Registered
  <2>3. \A b \in Clients : call'[b] \subseteq call[b]
    BY <2>1 DEF TypeOK
  <2> QED BY <2>1, <2>2, <2>3, InFlightKept DEF RowsInv
<1>4. CASE CallFails(c)
  <2>1. Stable
    BY <1>4, SameTablesStable DEF CallFails, tables
  <2>2. \A b \in Clients : call'[b] \subseteq call[b]
    BY <1>4 DEF CallFails, TypeOK
  <2> QED BY <1>4, <2>1, <2>2, InFlightKept DEF CallFails, RowsInv, tables
<1> QED BY <1>2, <1>3, <1>4 DEF EndCall

\* What a rule creation does to the rule table: the old versions stay, at
\* most one of them becomes superseded.
LEMMA CreateRuleTxTable ==
  ASSUME BaseInv, NEW a \in Admins, CreateRuleTx(a)
  PROVE  \A v \in DOMAIN rules :
           /\ v \in DOMAIN rules'
           /\ rules'[v] \in {rules[v], [rules[v] EXCEPT !.status = "superseded"]}
           /\ rules'[v].lead = rules[v].lead
           /\ rules'[v].effectiveFrom = rules[v].effectiveFrom
<1>1. PICK d \in draft[a] : CreateRuleTx(a)!(d)
  BY DEF CreateRuleTx
<1>2. ASSUME NEW v \in DOMAIN rules
      PROVE  /\ v \in DOMAIN rules'
             /\ rules'[v] \in {rules[v], [rules[v] EXCEPT !.status = "superseded"]}
  BY <1>1 DEF Upsert, SupersedeRule
<1>3. \A v \in DOMAIN rules : rules[v] \in Rule
  BY DEF BaseInv, TypeOK
<1> QED BY <1>2, <1>3 DEF Rule

LEMMA RuleRows ==
  ASSUME BaseInv, RowsInv, NEW a \in Admins, BeginRule(a) \/ EndRule(a)
  PROVE  RowsInv' /\ Stable
<1>1. UNCHANGED <<items, call, worker, esc>>
  BY DEF BeginRule, EndRule, CreateRule, CreateRuleTx, CreateRuleFails, tables
<1>2. Stable
  <2>1. CASE CreateRuleTx(a)
    BY <1>1, <2>1, CreateRuleTxTable DEF Stable, Registered
  <2>2. CASE UNCHANGED rules
    BY <1>1, <2>2, SameTablesStable
  <2> QED BY <2>1, <2>2 DEF BeginRule, EndRule, CreateRule, CreateRuleFails
<1> QED BY <1>1, <1>2, InFlightKept DEF RowsInv

LEMMA WorkerRows ==
  ASSUME BaseInv, RowsInv, SweepVersion \/ WorkerStep
  PROVE  RowsInv' /\ Stable
<1> USE DEF BaseInv
<1>0. worker \in WorkerState
  BY DEF TypeOK, WorkerState
<1>1. CASE SweepVersion
  <2>1. Stable
    BY <1>1, SameTablesStable DEF SweepVersion, tables
  <2>2. worker'.pending = worker.pending /\ worker'.rules = worker.rules
    BY <1>0, <1>1 DEF SweepVersion, WorkerState
  <2> QED BY <1>1, <2>1, <2>2, InFlightKept DEF SweepVersion, RowsInv, tables
<1>2. CASE SweepRules
  <2>1. Stable
    BY <1>2, SameTablesStable DEF SweepRules, tables
  <2>2. worker'.pending = worker.pending /\ worker'.rules = GetActiveRules(now)
    BY <1>0, <1>2 DEF SweepRules, WorkerState
  <2>3. UNCHANGED rules
    BY <1>2 DEF SweepRules
  <2>4. SnapshotGood'
    <3>1. ASSUME NEW q \in GetActiveRules(now)
          PROVE  /\ q.version \in DOMAIN rules
                 /\ rules[q.version].lead = q.lead
                 /\ rules[q.version].effectiveFrom = q.effectiveFrom
      BY ActiveRulesFromTable DEF RuleTable
    <3> QED BY <2>2, <2>3, <3>1 DEF SnapshotGood
  <2> QED BY <1>2, <2>1, <2>2, <2>4, InFlightKept DEF SweepRules, RowsInv, tables
<1>3. CASE CollectStaleItems
  <2>1. Stable
    BY <1>3, SameTablesStable DEF CollectStaleItems, tables
  <2>2. worker'.pending \subseteq worker.pending /\ worker'.rules \subseteq worker.rules
    BY <1>0, <1>3 DEF CollectStaleItems, IdleWorker, WorkerState
  <2> QED BY <1>3, <2>1, <2>2, InFlightKept DEF CollectStaleItems, RowsInv, tables
<1>4. ASSUME NEW r \in Refs, ReevalLoad(r)
      PROVE  RowsInv' /\ Stable
  <2>1. Stable
    BY <1>4, SameTablesStable DEF ReevalLoad, tables
  <2>2. worker'.pending = Reevaluated(r) /\ worker'.rules = worker.rules /\ r \in Registered
    BY <1>0, <1>4 DEF ReevalLoad, WorkerState
  <2>3. ASSUME NEW w \in Reevaluated(r)
        PROVE  GoodRow(w.row, rules) /\ SameCase(w, items)
    <3>1. PICK rule \in Adjudicate(items[r], worker.rules) :
             w.row = Routed(items[r], rule, "adjudicated")
      BY <2>2, ReevaluatedType
    <3>2. rule \in worker.rules /\ rule.effectiveFrom <= items[r].registeredAt
      BY AdjudicatePicks DEF IsActiveAt
    <3>3. rule \in Rule
      BY <1>0, <3>2 DEF WorkerState
    <3>4. items[r] \in Row /\ GoodRow(items[r], rules)
      BY <2>2 DEF TypeOK, RowsInv, ItemsGood
    <3>5. items[r].status \in ReevaluableStatuses
      BY <2>2, ReevaluatedType
    <3>6. items[r].level = 0 /\ items[r].completed = FALSE /\ items[r].cancelled = FALSE
      BY <3>4, <3>5 DEF GoodRow, RowCoherent, ReevaluableStatuses, Row
    <3>7. /\ rule.version \in DOMAIN rules /\ rules[rule.version].lead = rule.lead
          /\ rules[rule.version].effectiveFrom <= items[r].registeredAt
      BY <3>2 DEF RowsInv, SnapshotGood
    <3>8. GoodRow(w.row, rules) /\ w.row.registeredAt = items[r].registeredAt
      BY <3>1, <3>3, <3>6, <3>7, RoutedGood
    <3>9. w.ref = r
      BY <2>2, ReevaluatedType
    <3> QED BY <2>2, <3>8, <3>9 DEF SameCase, Registered
  <2>4. UNCHANGED <<items, rules>>
    BY <1>4 DEF ReevalLoad, tables
  <2>5. PendingGood'
    BY <2>2, <2>3, <2>4 DEF PendingGood
  <2> QED BY <1>4, <2>1, <2>2, <2>5, InFlightKept DEF ReevalLoad, RowsInv, tables
<1>5. CASE ReevalTx
  <2>1. PICK w \in worker.pending : ReevalTx!(w)
    BY <1>5 DEF ReevalTx
  <2>2. GoodRow(w.row, rules) /\ SameCase(w, items)
    BY DEF RowsInv, PendingGood
  <2>3. Stable /\ ItemsGood'
    BY <2>1, <2>2, StoredRows DEF SameCase, Registered
  <2>4. worker'.pending \subseteq worker.pending /\ worker'.rules = worker.rules
    BY <1>0, <2>1 DEF WorkerState
  <2> QED BY <2>1, <2>3, <2>4, InFlightKept DEF RowsInv
<1>6. CASE ReevalFails
  <2>1. Stable
    BY <1>6, SameTablesStable DEF ReevalFails, tables
  <2>2. worker'.pending \subseteq worker.pending /\ worker'.rules = worker.rules
    BY <1>0, <1>6 DEF ReevalFails, WorkerState
  <2> QED BY <1>6, <2>1, <2>2, InFlightKept DEF ReevalFails, RowsInv, tables
<1>7. CASE SweepEnds
  <2>1. Stable
    BY <1>7, SameTablesStable DEF SweepEnds, tables
  <2>2. worker'.pending \subseteq worker.pending /\ worker'.rules \subseteq worker.rules
    BY <1>7 DEF SweepEnds, IdleWorker
  <2> QED BY <1>7, <2>1, <2>2, InFlightKept DEF SweepEnds, RowsInv, tables
<1> QED BY <1>1, <1>2, <1>3, <1>4, <1>5, <1>6, <1>7 DEF WorkerStep

\* The first row of the queue and the rows behind it.
LEMMA QueueHead ==
  ASSUME NEW q \in Seq(Write), q # <<>>
  PROVE  /\ Head(q) = q[1] /\ 1 \in DOMAIN q /\ Head(q) \in Write
         /\ \A i \in DOMAIN Tail(q) : i + 1 \in DOMAIN q /\ Tail(q)[i] = q[i + 1]
<1>1. Len(q) \in Nat \ {0} /\ DOMAIN q = 1 .. Len(q)
  OBVIOUS
<1>2. Head(q) = q[1] /\ q[1] \in Write /\ 1 \in DOMAIN q
  BY <1>1
<1>3. /\ Tail(q) \in Seq(Write) /\ Len(Tail(q)) = Len(q) - 1
      /\ \A i \in 1 .. Len(q) - 1 : Tail(q)[i] = q[i + 1]
  BY <1>1
<1>4. DOMAIN Tail(q) = 1 .. Len(q) - 1
  BY <1>3
<1> QED BY <1>1, <1>2, <1>3, <1>4

LEMMA EscalationRows ==
  ASSUME BaseInv, RowsInv, CheckAndEscalate \/ EscalationStep
  PROVE  RowsInv' /\ Stable
<1> USE DEF BaseInv
<1>1. CASE CheckAndEscalate
  <2>1. Stable /\ UNCHANGED <<items, rules, call, worker>>
    BY <1>1, SameTablesStable DEF CheckAndEscalate, tables
  <2>2. PICK q \in ByDeadline(FindOverdueItems(now)) :
           esc' = [at    |-> now,
                   queue |-> [i \in DOMAIN q |-> [ref |-> q[i], row |-> items[q[i]]]]]
    BY <1>1 DEF CheckAndEscalate
  <2>3. ASSUME NEW i \in DOMAIN q
        PROVE  /\ q[i] \in Registered /\ GoodRow(items[q[i]], rules)
               /\ items[q[i]].level < MaxEscalationLevel
    BY QueueIsSequence DEF FindOverdueItems, IsOverdueRow, RowsInv, ItemsGood
  <2>4. QueueGood'
    BY <2>1, <2>2, <2>3 DEF QueueGood, SameCase, Registered
  <2> QED BY <2>1, <2>4, InFlightKept DEF RowsInv
<1>2. CASE EscalateItem
  <2> DEFINE w == Head(esc.queue)
             row == Escalated(w.row, esc.at)
  <2>1. esc.queue \in Seq(Write) /\ esc.queue # <<>> /\ esc.at \in Nat
    BY <1>2 DEF EscalateItem, TypeOK
  <2>2. /\ w = esc.queue[1] /\ 1 \in DOMAIN esc.queue /\ w \in Write /\ w.row \in Row
        /\ \A i \in DOMAIN Tail(esc.queue) :
             i + 1 \in DOMAIN esc.queue /\ Tail(esc.queue)[i] = esc.queue[i + 1]
    BY <2>1, QueueHead DEF Write
  <2>3. GoodRow(w.row, rules) /\ SameCase(w, items) /\ w.row.level < MaxEscalationLevel
    BY <2>2 DEF RowsInv, QueueGood
  <2>4. GoodRow(row, rules) /\ row.registeredAt = w.row.registeredAt
    BY <1>2, <2>1, <2>2, <2>3, EscalatedGood DEF EscalateItem
  <2>5. Stable /\ ItemsGood'
    BY <1>2, <2>3, <2>4, StoredRows DEF EscalateItem, SameCase, Registered
  <2>6. esc'.queue = Tail(esc.queue)
    BY <1>2 DEF EscalateItem, TypeOK
  <2>7. QueueGood'
    BY <2>2, <2>5, <2>6, StableRows DEF RowsInv, QueueGood
  <2> QED BY <1>2, <2>5, <2>7, InFlightKept DEF EscalateItem, RowsInv
<1>3. CASE EscalationAborts
  <2>1. Stable /\ UNCHANGED <<items, rules, call, worker>>
    BY <1>3, SameTablesStable DEF EscalationAborts, tables
  <2>2. QueueGood'
    BY <1>3 DEF EscalationAborts, IdleEscalation, QueueGood
  <2> QED BY <2>1, <2>2, InFlightKept DEF RowsInv
<1> QED BY <1>1, <1>2, <1>3 DEF EscalationStep

LEMMA RowsStep ==
  ASSUME BaseInv, RowsInv, [Next]_vars
  PROVE  RowsInv' /\ Stable
<1>1. ASSUME NEW c \in Clients, NEW r \in Refs, BeginCall(c, r) PROVE RowsInv' /\ Stable
  BY <1>1, BeginCallRows
<1>2. ASSUME NEW c \in Clients, EndCall(c) PROVE RowsInv' /\ Stable
  BY <1>2, EndCallRows
<1>3. ASSUME NEW a \in Admins, BeginRule(a) \/ EndRule(a) PROVE RowsInv' /\ Stable
  BY <1>3, RuleRows
<1>4. CASE SweepVersion \/ WorkerStep
  BY <1>4, WorkerRows
<1>5. CASE CheckAndEscalate \/ EscalationStep
  BY <1>5, EscalationRows
<1>6. CASE Tick
  BY <1>6, SameTablesStable, InFlightKept DEF Tick, tables, RowsInv
<1>7. CASE Restart
  <2>1. Stable /\ UNCHANGED <<items, rules>>
    BY <1>7, SameTablesStable DEF Restart, tables
  <2>2. QueueGood' /\ worker'.pending = {} /\ worker'.rules = {}
    BY <1>7 DEF Restart, IdleEscalation, IdleWorker, QueueGood
  <2>3. \A c \in Clients : call'[c] \subseteq call[c]
    BY <1>7 DEF Restart
  <2> QED BY <2>1, <2>2, <2>3, InFlightKept DEF RowsInv
<1>8. CASE UNCHANGED vars
  BY <1>8, SameTablesStable, InFlightKept DEF vars, RowsInv
<1> QED BY <1>1, <1>2, <1>3, <1>4, <1>5, <1>6, <1>7, <1>8 DEF Next, Begin, Continue

-----------------------------------------------------------------------------
(***************************************************************************)
(* The tables beside the rows: referrals, escalations and the audit trail. *)
(***************************************************************************)
Ledger == OneCurrentReferral /\ AuditLedger /\ EscalationRecords

ReferralsKept == \A r \in Refs : \A i \in DOMAIN referrals[r] :
                   /\ i \in DOMAIN referrals'[r]
                   /\ referrals'[r][i].lead = referrals[r][i].lead
                   /\ referrals'[r][i].ver = referrals[r][i].ver
                   /\ referrals'[r][i].current => referrals[r][i].current

\* A list of referrals whose last one, and no other, is current.
LastCurrent(list) == \A i \in DOMAIN list : list[i].current <=> i = Len(list)

\* Superseding every referral and inserting one: the new one is the current
\* one and the content of the old ones stays.
LEMMA NewReferral ==
  ASSUME NEW list \in Seq(Referral), NEW row \in Row
  PROVE  LET new == SaveAssignment(MarkAssignmentSuperseded(list), row)
         IN  /\ new # <<>> /\ Len(new) = Len(list) + 1 /\ LastCurrent(new)
             /\ \A i \in DOMAIN list : /\ i \in DOMAIN new
                                       /\ new[i].lead = list[i].lead
                                       /\ new[i].ver = list[i].ver
                                       /\ new[i].current = FALSE
<1> DEFINE M == MarkAssignmentSuperseded(list)
           e == [lead |-> row.lead, ver |-> row.ver, current |-> TRUE]
           new == Append(M, e)
<1>1. Len(list) \in Nat /\ DOMAIN list = 1 .. Len(list)
  OBVIOUS
<1>2. /\ M \in Seq(Referral) /\ Len(M) = Len(list)
      /\ \A i \in 1 .. Len(list) : M[i] = [list[i] EXCEPT !.current = FALSE]
  BY SupersededReferrals
<1>3. \A i \in 1 .. Len(list) : list[i] \in Referral
  OBVIOUS
<1>4. \A i \in 1 .. Len(list) : /\ M[i].lead = list[i].lead /\ M[i].ver = list[i].ver
                                /\ M[i].current = FALSE
  BY <1>2, <1>3 DEF Referral
<1>5. e \in Referral /\ e.current = TRUE
  BY DEF Row, Referral
<1> HIDE DEF M, e
<1>6. /\ Len(new) = Len(list) + 1 /\ DOMAIN new = 1 .. Len(list) + 1
      /\ \A i \in 1 .. Len(list) : new[i] = M[i]
      /\ new[Len(list) + 1] = e
  BY <1>1, <1>2, <1>5
<1>7. new # <<>>
  BY <1>1, <1>6
<1> HIDE DEF new
<1>8. LastCurrent(new)
  <2> SUFFICES ASSUME NEW i \in DOMAIN new PROVE new[i].current <=> i = Len(new)
    BY DEF LastCurrent
  <2>1. CASE i = Len(list) + 1
    BY <1>5, <1>6, <2>1
  <2>2. CASE i \in 1 .. Len(list)
    BY <1>1, <1>4, <1>6, <2>2
  <2> QED BY <1>1, <1>6, <2>1, <2>2
<1>9. \A i \in DOMAIN list : /\ i \in DOMAIN new /\ new[i].lead = list[i].lead
                             /\ new[i].ver = list[i].ver /\ new[i].current = FALSE
  BY <1>1, <1>4, <1>6
<1>10. SaveAssignment(MarkAssignmentSuperseded(list), row) = new
  BY DEF SaveAssignment, M, e, new
<1> QED BY <1>6, <1>7, <1>8, <1>9, <1>10

\* The first referral of a case.
LEMMA FirstReferral ==
  ASSUME NEW row \in Row
  PROVE  LET new == SaveAssignment(<<>>, row)
         IN  new # <<>> /\ Len(new) = 1 /\ LastCurrent(new)
BY DEF SaveAssignment, LastCurrent

LEMMA LedgerKept ==
  ASSUME Ledger, UNCHANGED <<referrals, escalations, audits>>, Registered' = Registered
  PROVE  Ledger' /\ ReferralsKept
<1>1. Ledger'
  BY DEF Ledger, OneCurrentReferral, AuditLedger, EscalationRecords
<1>2. ReferralsKept
  BY DEF ReferralsKept
<1> QED BY <1>1, <1>2

\* A transaction of one of the daemons: the case gets a new current referral
\* and one audit entry, and an escalation record when it is an escalation.
LEMMA RerouteLedger ==
  ASSUME TypeOK, Ledger, NEW ref \in Refs, NEW row \in Row, ref \in Registered,
         NEW action \in {"escalate", "rule_reevaluated"}, SaveAudit(ref, action),
         referrals' = [referrals EXCEPT
                         ![ref] = SaveAssignment(MarkAssignmentSuperseded(@), row)],
         Registered' = Registered,
         \/ action = "rule_reevaluated" /\ UNCHANGED escalations
         \/ /\ action = "escalate"
            /\ \E e \in Escalation :
                 /\ e.to = e.from + 1 /\ e.to <= MaxEscalationLevel
                 /\ escalations' = [escalations EXCEPT ![ref] = Append(@, e)]
  PROVE  Ledger' /\ ReferralsKept
<1> DEFINE new == SaveAssignment(MarkAssignmentSuperseded(referrals[ref]), row)
<1>1. referrals[ref] \in Seq(Referral) /\ escalations[ref] \in Seq(Escalation)
  BY DEF TypeOK
<1>2. /\ new # <<>> /\ Len(new) = Len(referrals[ref]) + 1 /\ LastCurrent(new)
      /\ \A i \in DOMAIN referrals[ref] : /\ i \in DOMAIN new
                                          /\ new[i].lead = referrals[ref][i].lead
                                          /\ new[i].ver = referrals[ref][i].ver
                                          /\ new[i].current = FALSE
  BY <1>1, NewReferral
<1>3. \A r \in Refs : referrals'[r] = IF r = ref THEN new ELSE referrals[r]
  BY DEF TypeOK
<1> HIDE DEF new
<1>4. OneCurrentReferral'
  BY <1>2, <1>3 DEF Ledger, OneCurrentReferral, LastCurrent
<1>5. ReferralsKept
  BY <1>2, <1>3 DEF ReferralsKept
<1>6. \A r \in Refs : \A a \in Actions :
        audits'[r][a] = IF r = ref /\ a = action THEN audits[r][a] + 1 ELSE audits[r][a]
  BY DEF SaveAudit, TypeOK
<1>7. /\ \A r \in Refs \ {ref} : escalations'[r] = escalations[r]
      /\ action = "rule_reevaluated" => escalations'[ref] = escalations[ref]
      /\ action = "escalate" =>
           /\ Len(escalations'[ref]) = Len(escalations[ref]) + 1
           /\ \A i \in DOMAIN escalations'[ref] :
                /\ escalations'[ref][i].to = escalations'[ref][i].from + 1
                /\ escalations'[ref][i].to <= MaxEscalationLevel
  <2>1. CASE action = "rule_reevaluated"
    BY <2>1
  <2>2. CASE action = "escalate"
    <3>1. PICK e \in Escalation :
             /\ e.to = e.from + 1 /\ e.to <= MaxEscalationLevel
             /\ escalations' = [escalations EXCEPT ![ref] = Append(@, e)]
      BY <2>2
    <3> DEFINE old == escalations[ref]
    <3>2. escalations'[ref] = Append(old, e) /\ \A r \in Refs \ {ref} : escalations'[r] = escalations[r]
      BY <3>1 DEF TypeOK
    <3>3. \A i \in DOMAIN old : old[i].to = old[i].from + 1 /\ old[i].to <= MaxEscalationLevel
      BY DEF Ledger, EscalationRecords
    <3> HIDE DEF old
    <3>4. /\ old \in Seq(Escalation) /\ Len(old) \in Nat /\ DOMAIN old = 1 .. Len(old)
          /\ Len(Append(old, e)) = Len(old) + 1
          /\ DOMAIN Append(old, e) = 1 .. Len(old) + 1
          /\ \A i \in 1 .. Len(old) : Append(old, e)[i] = old[i]
          /\ Append(old, e)[Len(old) + 1] = e
      BY <1>1 DEF old
    <3>5. \A i \in 1 .. Len(old) + 1 : i \in 1 .. Len(old) \/ i = Len(old) + 1
      BY <3>4
    <3>6. \A i \in DOMAIN Append(old, e) :
             /\ Append(old, e)[i].to = Append(old, e)[i].from + 1
             /\ Append(old, e)[i].to <= MaxEscalationLevel
      BY <3>1, <3>3, <3>4, <3>5
    <3> QED BY <2>2, <3>2, <3>4, <3>6 DEF old
  <2> QED BY <2>1, <2>2
<1>8. EscalationRecords'
  BY <1>7 DEF Ledger, EscalationRecords
<1>9. AuditLedger'
  <2> SUFFICES ASSUME NEW r \in Refs
               PROVE  /\ audits'[r]["register"] = IF r \in Registered THEN 1 ELSE 0
                      /\ Len(escalations'[r]) = audits'[r]["escalate"]
                      /\ Len(referrals'[r]) = audits'[r]["register"] + audits'[r]["escalate"]
                                                + audits'[r]["rule_reevaluated"]
    BY DEF AuditLedger
  <2>1. /\ audits[r]["register"] = IF r \in Registered THEN 1 ELSE 0
        /\ Len(escalations[r]) = audits[r]["escalate"]
        /\ Len(referrals[r]) = audits[r]["register"] + audits[r]["escalate"]
                                 + audits[r]["rule_reevaluated"]
    BY DEF Ledger, AuditLedger
  <2>2. {"register", "escalate", "rule_reevaluated"} \subseteq Actions
    BY DEF Actions, ClientActions
  <2>3. /\ audits[r]["register"] \in Nat /\ audits[r]["escalate"] \in Nat
        /\ audits[r]["rule_reevaluated"] \in Nat
    BY <2>2 DEF TypeOK
  <2>4. CASE r # ref
    BY <1>3, <1>6, <1>7, <2>1, <2>2, <2>4
  <2>5. CASE r = ref /\ action = "escalate"
    <3>1. /\ audits'[r]["register"] = audits[r]["register"]
          /\ audits'[r]["escalate"] = audits[r]["escalate"] + 1
          /\ audits'[r]["rule_reevaluated"] = audits[r]["rule_reevaluated"]
      BY <1>6, <2>2, <2>5
    <3>2. /\ Len(referrals'[r]) = Len(referrals[r]) + 1
          /\ Len(escalations'[r]) = Len(escalations[r]) + 1
      BY <1>2, <1>3, <1>7, <2>5
    <3> QED BY <2>1, <2>3, <3>1, <3>2
  <2>6. CASE r = ref /\ action = "rule_reevaluated"
    <3>1. /\ audits'[r]["register"] = audits[r]["register"]
          /\ audits'[r]["escalate"] = audits[r]["escalate"]
          /\ audits'[r]["rule_reevaluated"] = audits[r]["rule_reevaluated"] + 1
      BY <1>6, <2>2, <2>6
    <3>2. /\ Len(referrals'[r]) = Len(referrals[r]) + 1
          /\ escalations'[r] = escalations[r]
      BY <1>2, <1>3, <1>7, <2>6
    <3> QED BY <2>1, <2>3, <3>1, <3>2
  <2> QED BY <2>4, <2>5, <2>6
<1> QED BY <1>4, <1>5, <1>8, <1>9 DEF Ledger

LEMMA RegisterLedger ==
  ASSUME BaseInv, Ledger, NEW c \in Clients, RegisterTx(c)
  PROVE  Ledger' /\ ReferralsKept
<1>1. PICK w \in call[c] : RegisterTx(c)!(w)
  BY DEF RegisterTx
<1>2. w.ref \in Refs /\ w.row \in Row
  BY DEF BaseInv, TypeOK, Call
<1>3. referrals[w.ref] = <<>>
  BY <1>1, <1>2 DEF Ledger, OneCurrentReferral
<1> DEFINE new == SaveAssignment(<<>>, w.row)
<1>4. \A r \in Refs : referrals'[r] = IF r = w.ref THEN new ELSE referrals[r]
  BY <1>1, <1>2, <1>3 DEF BaseInv, TypeOK
<1>5. new # <<>> /\ Len(new) = 1 /\ LastCurrent(new)
  BY <1>2, FirstReferral
<1> HIDE DEF new
<1>6. Registered' = Registered \cup {w.ref}
  BY <1>1 DEF Registered, Upsert
<1>7. OneCurrentReferral'
  BY <1>4, <1>5, <1>6 DEF Ledger, OneCurrentReferral, LastCurrent
<1>8. ReferralsKept
  BY <1>3, <1>4 DEF ReferralsKept
<1>9. EscalationRecords'
  BY <1>1 DEF Ledger, EscalationRecords
<1>10. AuditLedger'
  <2>1. {"register", "escalate", "rule_reevaluated"} \subseteq Actions
    BY DEF Actions, ClientActions
  <2>2. \A r \in Refs : \A a \in Actions :
          audits'[r][a] = IF r = w.ref /\ a = "register" THEN audits[r][a] + 1 ELSE audits[r][a]
    BY <1>1, <1>2, <2>1 DEF SaveAudit, BaseInv, TypeOK
  <2> SUFFICES ASSUME NEW r \in Refs
               PROVE  /\ audits'[r]["register"] = IF r \in Registered' THEN 1 ELSE 0
                      /\ Len(escalations'[r]) = audits'[r]["escalate"]
                      /\ Len(referrals'[r]) = audits'[r]["register"] + audits'[r]["escalate"]
                                                + audits'[r]["rule_reevaluated"]
    BY DEF AuditLedger
  <2>3. /\ audits[r]["register"] = IF r \in Registered THEN 1 ELSE 0
        /\ Len(escalations[r]) = audits[r]["escalate"]
        /\ Len(referrals[r]) = audits[r]["register"] + audits[r]["escalate"]
                                 + audits[r]["rule_reevaluated"]
    BY DEF Ledger, AuditLedger
  <2>4. /\ audits[r]["escalate"] \in Nat /\ audits[r]["rule_reevaluated"] \in Nat
        /\ audits[r]["register"] \in Nat
    BY <2>1 DEF BaseInv, TypeOK
  <2>5. UNCHANGED escalations
    BY <1>1
  <2>6. CASE r # w.ref
    BY <1>4, <1>6, <2>1, <2>2, <2>3, <2>5, <2>6
  <2>7. CASE r = w.ref
    <3>1. /\ audits'[r]["register"] = audits[r]["register"] + 1
          /\ audits'[r]["escalate"] = audits[r]["escalate"]
          /\ audits'[r]["rule_reevaluated"] = audits[r]["rule_reevaluated"]
      BY <2>1, <2>2, <2>7
    <3>2. r \notin Registered /\ r \in Registered'
      BY <1>1, <1>6, <2>7
    <3>3. Len(referrals'[r]) = 1 /\ Len(referrals[r]) = 0
      BY <1>3, <1>4, <1>5, <2>7
    <3> QED BY <2>3, <2>4, <2>5, <3>1, <3>2, <3>3
  <2> QED BY <2>6, <2>7
<1> QED BY <1>7, <1>8, <1>9, <1>10 DEF Ledger

LEMMA UpdateLedger ==
  ASSUME BaseInv, RowsInv, Ledger, NEW c \in Clients, UpdateItemWithAudit(c)
  PROVE  Ledger' /\ ReferralsKept
<1>1. PICK w \in call[c] : UpdateItemWithAudit(c)!(w)
  BY DEF UpdateItemWithAudit
<1>2. w.ref \in Refs /\ w.op \in ClientActions \ {"register"}
  BY <1>1 DEF BaseInv, TypeOK, Call
<1>3. Registered' = Registered /\ UNCHANGED <<referrals, escalations>>
  BY <1>1 DEF Registered, BaseInv, TypeOK
<1>4. OneCurrentReferral' /\ EscalationRecords' /\ ReferralsKept
  BY <1>3 DEF Ledger, OneCurrentReferral, EscalationRecords, ReferralsKept
<1>5. \A r \in Refs : \A a \in {"register", "escalate", "rule_reevaluated"} :
        audits'[r][a] = audits[r][a]
  <2>1. w.op \notin {"register", "escalate", "rule_reevaluated"}
    BY <1>2 DEF ClientActions
  <2>2. {"register", "escalate", "rule_reevaluated"} \subseteq Actions
    BY DEF Actions, ClientActions
  <2> QED BY <1>1, <2>1, <2>2 DEF SaveAudit, BaseInv, TypeOK
<1>6. AuditLedger'
  BY <1>3, <1>5 DEF Ledger, AuditLedger
<1> QED BY <1>4, <1>6 DEF Ledger

LEMMA LedgerStep ==
  ASSUME BaseInv, RowsInv, Ledger, [Next]_vars
  PROVE  Ledger' /\ ReferralsKept
<1>1. CASE UNCHANGED <<items, referrals, escalations, audits>>
  BY <1>1, LedgerKept DEF Registered
<1>2. ASSUME NEW c \in Clients, EndCall(c)
      PROVE  Ledger' /\ ReferralsKept
  <2>1. CASE RegisterTx(c)
    BY <2>1, RegisterLedger
  <2>2. CASE UpdateItemWithAudit(c)
    BY <2>2, UpdateLedger
  <2>3. CASE CallFails(c)
    BY <1>1, <2>3 DEF CallFails, tables
  <2> QED BY <1>2, <2>1, <2>2, <2>3 DEF EndCall
<1>3. CASE ReevalTx
  <2>1. PICK w \in worker.pending : ReevalTx!(w)
    BY <1>3 DEF ReevalTx
  <2>2. w.ref \in Refs /\ w.row \in Row
    BY DEF BaseInv, TypeOK, Write
  <2>3. w.ref \in Registered
    BY DEF RowsInv, PendingGood, SameCase, Registered
  <2>4. Registered' = Registered
    BY <2>1 DEF Registered, BaseInv, TypeOK
  <2> QED BY <2>1, <2>2, <2>3, <2>4, RerouteLedger DEF BaseInv
<1>4. CASE EscalateItem
  <2> DEFINE w == Head(esc.queue)
             row == Escalated(w.row, esc.at)
             e == [from |-> w.row.level, to |-> row.level]
  <2>1. esc.queue \in Seq(Write) /\ esc.queue # <<>> /\ esc.at \in Nat
    BY <1>4 DEF EscalateItem, BaseInv, TypeOK
  <2>2. w = esc.queue[1] /\ 1 \in DOMAIN esc.queue /\ w \in Write
    BY <2>1, QueueHead
  <2>3. w.ref \in Refs /\ w.row \in Row /\ row \in Row
    BY <2>1, <2>2, EscalatedIsRow DEF Write
  <2>4. w.ref \in Registered /\ w.row.level < MaxEscalationLevel
    BY <2>2 DEF RowsInv, QueueGood, SameCase, Registered
  <2>5. e \in Escalation /\ e.to = e.from + 1 /\ e.to <= MaxEscalationLevel
    <3>1. row.level = w.row.level + 1 /\ w.row.level \in Nat
      BY <2>3 DEF Escalated, Row
    <3> QED BY <2>4, <3>1, LevelAssumption DEF Escalation
  <2>6. /\ SaveAudit(w.ref, "escalate")
        /\ escalations' = [escalations EXCEPT ![w.ref] = Append(@, e)]
        /\ referrals' = [referrals EXCEPT
                           ![w.ref] = SaveAssignment(MarkAssignmentSuperseded(@), row)]
        /\ items' = [items EXCEPT ![w.ref] = row]
    BY <1>4 DEF EscalateItem
  <2>7. Registered' = Registered
    BY <2>6 DEF Registered, BaseInv, TypeOK
  <2> HIDE DEF e, row, w
  <2> QED BY <2>3, <2>4, <2>5, <2>6, <2>7, RerouteLedger DEF BaseInv
<1>5. ASSUME NEW c \in Clients, NEW r \in Refs, BeginCall(c, r)
      PROVE  UNCHANGED tables
  BY <1>5 DEF BeginCall, Register, Modify, StartProcessing, ReturnForCorrection, Resubmit,
              Cancel, Complete, InFlight
<1>6. ASSUME NEW a \in Admins, BeginRule(a) \/ EndRule(a)
      PROVE  UNCHANGED tables
  BY <1>6 DEF BeginRule, EndRule, CreateRule, CreateRuleTx, CreateRuleFails
<1>7. ASSUME SweepVersion \/ WorkerStep, ~ ReevalTx
      PROVE  UNCHANGED tables
  BY <1>7 DEF SweepVersion, WorkerStep, SweepRules, CollectStaleItems, ReevalLoad,
              ReevalFails, SweepEnds
<1>8. ASSUME CheckAndEscalate \/ EscalationAborts \/ Tick \/ Restart \/ UNCHANGED vars
      PROVE  UNCHANGED tables
  BY <1>8 DEF CheckAndEscalate, EscalationAborts, Tick, Restart, vars, tables
<1>9. ASSUME UNCHANGED tables PROVE Ledger' /\ ReferralsKept
  BY <1>1, <1>9 DEF tables
<1> QED BY <1>2, <1>3, <1>4, <1>5, <1>6, <1>7, <1>8, <1>9
        DEF Next, Begin, Continue, EscalationStep

-----------------------------------------------------------------------------
LEMMA SafetyInit == Init => SafetyInv
<1> SUFFICES ASSUME Init PROVE SafetyInv
  OBVIOUS
<1>1. DOMAIN items = {} /\ DOMAIN rules = {}
  BY DEF Init
<1>2. RowsInv
  BY <1>1 DEF Init, RowsInv, ItemsGood, CallsGood, PendingGood, QueueGood, SnapshotGood,
              IdleWorker, IdleEscalation, Registered
<1>3. OneCurrentReferral /\ EscalationRecords
  BY <1>1 DEF Init, OneCurrentReferral, EscalationRecords, Registered
<1>4. AuditLedger
  <2>1. {"register", "escalate", "rule_reevaluated"} \subseteq Actions
    BY DEF Actions, ClientActions
  <2> QED BY <1>1, <2>1 DEF Init, AuditLedger, Registered
<1> QED BY <1>2, <1>3, <1>4, BaseInit DEF SafetyInv

LEMMA SafetyStep == SafetyInv /\ [Next]_vars => SafetyInv'
<1> SUFFICES ASSUME SafetyInv, [Next]_vars PROVE SafetyInv'
  OBVIOUS
<1>1. BaseInv'
  BY BaseStep DEF SafetyInv
<1>2. RowsInv'
  BY RowsStep DEF SafetyInv
<1>3. Ledger'
  BY LedgerStep DEF SafetyInv, Ledger
<1> QED BY <1>1, <1>2, <1>3 DEF SafetyInv, Ledger

LEMMA SafetyAlways == Spec => []SafetyInv
BY SafetyInit, SafetyStep, PTL DEF Spec

\* However the services overwrite each other's rows, a stored case is routed
\* to the department of the rule its rule_version names, with one supervisor
\* suffix per escalation level (Register, reevaluateItem, escalateItem).
THEOREM CasesAreRoutedByTheirRule == Spec => []RoutedByItsRule
<1>1. SafetyInv => RoutedByItsRule
  BY DEF SafetyInv, RowsInv, ItemsGood, GoodRow, RoutedByItsRule
<1> QED BY <1>1, SafetyAlways, PTL

\* No interleaving of the seven case operations, the escalation task and the
\* re-evaluation sweep stores a case whose status, level and completion or
\* cancellation time contradict each other (updateItemWithAudit).
THEOREM StoredCasesAreCoherent == Spec => []StoredRowsCoherent
<1>1. SafetyInv => StoredRowsCoherent
  BY DEF SafetyInv, RowsInv, ItemsGood, GoodRow, StoredRowsCoherent
<1> QED BY <1>1, SafetyAlways, PTL

\* A registered case has exactly one current referral, the newest, whoever
\* supersedes and inserts (MarkAssignmentSuperseded, InsertAssignment).
THEOREM ReferralIsUnique == Spec => []OneCurrentReferral
<1>1. SafetyInv => OneCurrentReferral
  BY DEF SafetyInv
<1> QED BY <1>1, SafetyAlways, PTL

\* The audit entries account for the referrals and the escalation records of
\* every case, because each transaction writes all of them or none (WithTx).
THEOREM AuditAccountsForTables == Spec => []AuditLedger
<1>1. SafetyInv => AuditLedger
  BY DEF SafetyInv
<1> QED BY <1>1, SafetyAlways, PTL

\* The escalation task never holds a row at the maximum level, so
\* recordPermanentFailure is dead code, and no record exceeds that level.
THEOREM EscalationStaysBelowMax == Spec => []EscalationQueueBelowMax
<1>1. SafetyInv => EscalationQueueBelowMax
  BY DEF SafetyInv, RowsInv, QueueGood, EscalationRecords, EscalationQueueBelowMax
<1> QED BY <1>1, SafetyAlways, PTL

\* No step of any service drops a case, rewrites an old referral or changes
\* what an old rule says ("old records keep their original semantics").
THEOREM HistoryIsKept == Spec => HistoryKept
<1>1. ASSUME SafetyInv, [Next]_vars
      PROVE  /\ \A r \in Registered : /\ r \in Registered'
                                      /\ items'[r].registeredAt = items[r].registeredAt
             /\ ReferralsKept
             /\ \A v \in DOMAIN rules :
                  /\ v \in DOMAIN rules'
                  /\ rules'[v] \in {rules[v], [rules[v] EXCEPT !.status = "superseded"]}
  <2>1. Stable
    BY <1>1, RowsStep DEF SafetyInv
  <2>2. ReferralsKept
    BY <1>1, LedgerStep DEF SafetyInv, Ledger
  <2>3. \A v \in DOMAIN rules :
          /\ v \in DOMAIN rules'
          /\ rules'[v] \in {rules[v], [rules[v] EXCEPT !.status = "superseded"]}
    <3>1. CASE \E a \in Admins : CreateRuleTx(a)
      BY <1>1, <3>1, CreateRuleTxTable DEF SafetyInv
    <3>2. CASE UNCHANGED rules
      BY <3>2
    <3>3. (\E a \in Admins : CreateRuleTx(a)) \/ UNCHANGED rules
      BY <1>1 DEF Next, Begin, Continue, BeginCall, Register, Modify, StartProcessing,
           ReturnForCorrection, Resubmit, Cancel, Complete, InFlight, BeginRule, CreateRule,
           SweepVersion, CheckAndEscalate, EndCall, RegisterTx, UpdateItemWithAudit,
           CallFails, EndRule, CreateRuleFails, WorkerStep, SweepRules, CollectStaleItems,
           ReevalLoad, ReevalTx, ReevalFails, SweepEnds, EscalationStep, EscalateItem,
           EscalationAborts, Tick, Restart, vars
    <3> QED BY <3>1, <3>2, <3>3
  <2> QED BY <2>1, <2>2, <2>3 DEF Stable
<1>2. SafetyInv /\ [Next]_vars =>
        [/\ \A r \in Registered : /\ r \in Registered'
                                  /\ items'[r].registeredAt = items[r].registeredAt
         /\ \A r \in Refs : \A i \in DOMAIN referrals[r] :
              /\ i \in DOMAIN referrals'[r]
              /\ referrals'[r][i].lead = referrals[r][i].lead
              /\ referrals'[r][i].ver = referrals[r][i].ver
              /\ referrals'[r][i].current => referrals[r][i].current
         /\ \A v \in DOMAIN rules :
              /\ v \in DOMAIN rules'
              /\ rules'[v] \in {rules[v], [rules[v] EXCEPT !.status = "superseded"]}]_vars
  BY <1>1 DEF ReferralsKept
<1> QED BY <1>2, SafetyAlways, PTL DEF Spec, HistoryKept

-----------------------------------------------------------------------------
(***************************************************************************)
(* The lead is unique.  Precedes is a total order on rules with different  *)
(* versions, so a non-empty set of matching rules has exactly one first    *)
(* element.  That it has one takes an induction on the versions, done as   *)
(* a minimal counterexample.                                               *)
(***************************************************************************)
LEMMA LeastExists ==
  ASSUME NEW S \in SUBSET Nat, S # {}
  PROVE  \E x \in S : \A y \in S : x <= y
<1> DEFINE R == {p \in Nat \X Nat : p[1] < p[2]}
<1>1. IsWellFoundedOn(R, Nat)
  <2>1. OpToRel(<, Nat) = R
    BY DEF OpToRel
  <2> QED BY <2>1, NatLessThanWellFounded
<1>2. PICK x \in S : \A y \in S : ~ (<<y, x>> \in R)
  <2> HIDE DEF R
  <2> QED BY <1>1, WFMin
<1>3. ASSUME NEW y \in S
      PROVE  x <= y
  <2>1. x \in Nat /\ y \in Nat /\ ~ (<<y, x>> \in R)
    BY <1>2
  <2>2. ~ (y < x)
    BY <2>1
  <2> QED BY <2>1, <2>2
<1> QED BY <1>3

\* Of the versions in V, v comes first by priority f and then by version.
First(V, f, v) ==
  v \in V /\ \A u \in V \ {v} : f[v] > f[u] \/ (f[v] = f[u] /\ v > u)

LEMMA FirstExists ==
  ASSUME NEW n \in Nat, NEW f \in [1 .. n -> Nat], NEW V \in SUBSET (1 .. n), V # {}
  PROVE  \E v \in V : First(V, f, v)
<1> DEFINE Low(k) == V \cap (1 .. k)
           Bad == {k \in 0 .. n : Low(k) # {} /\ ~ \E v \in Low(k) : First(Low(k), f, v)}
<1>1. Low(n) = V
  OBVIOUS
<1>2. SUFFICES ASSUME Bad # {}
               PROVE  FALSE
  <2>1. n \in 0 .. n
    OBVIOUS
  <2> HIDE DEF Low
  <2> QED BY <1>1, <1>2, <2>1
<1>3. Bad \in SUBSET Nat
  OBVIOUS
<1>4. PICK k \in Bad : \A j \in Bad : k <= j
  <2> HIDE DEF Bad
  <2> QED BY <1>2, <1>3, LeastExists
<1>5. k \in 0 .. n /\ Low(k) # {} /\ ~ \E v \in Low(k) : First(Low(k), f, v)
  OBVIOUS
<1>6. k # 0
  BY <1>5
<1>7. k - 1 \in 0 .. n /\ k - 1 \notin Bad
  <2>1. k - 1 \in 0 .. n /\ ~ (k <= k - 1)
    BY <1>5, <1>6
  <2> HIDE DEF Bad
  <2> QED BY <1>4, <2>1
<1>8. Low(k - 1) = {} \/ \E v \in Low(k - 1) : First(Low(k - 1), f, v)
  BY <1>7
<1>9. \/ k \notin V /\ Low(k) = Low(k - 1)
      \/ k \in V /\ Low(k) = Low(k - 1) \cup {k}
  BY <1>5, <1>6
<1>10. \A u \in Low(k - 1) : u \in 1 .. n /\ u < k /\ f[u] \in Nat
  BY <1>5, <1>6
<1>11. k \in 1 .. n /\ f[k] \in Nat
  BY <1>5, <1>6
<1> HIDE DEF Low, Bad
<1>12. CASE k \notin V
  BY <1>5, <1>8, <1>9, <1>12
<1>13. CASE k \in V /\ Low(k - 1) = {}
  BY <1>5, <1>9, <1>13 DEF First
<1>14. CASE k \in V /\ Low(k - 1) # {}
  <2>1. PICK v \in Low(k - 1) : First(Low(k - 1), f, v)
    BY <1>8, <1>14
  <2>2. CASE f[v] > f[k]
    <3>1. First(Low(k), f, v)
      BY <1>9, <1>10, <1>11, <1>14, <2>1, <2>2 DEF First
    <3> QED BY <1>5, <3>1 DEF First
  <2>3. CASE f[v] <= f[k]
    <3>1. ASSUME NEW u \in Low(k) \ {k}
          PROVE  f[k] > f[u] \/ (f[k] = f[u] /\ k > u)
      <4>1. u \in Low(k - 1)
        BY <1>9, <1>14, <3>1
      <4>2. u = v \/ f[v] > f[u] \/ (f[v] = f[u] /\ v > u)
        BY <2>1, <4>1 DEF First
      <4>3. f[u] \in Nat /\ f[v] \in Nat /\ f[k] \in Nat /\ u \in Nat /\ u < k /\ v < k
        BY <1>10, <1>11, <2>1, <4>1
      <4> QED BY <2>3, <4>2, <4>3
    <3>2. First(Low(k), f, k)
      BY <1>9, <1>14, <3>1 DEF First
    <3> QED BY <1>5, <3>2 DEF First
  <2>4. f[v] \in Nat /\ f[k] \in Nat
    BY <1>10, <1>11, <2>1
  <2> QED BY <2>2, <2>3, <2>4
<1> QED BY <1>12, <1>13, <1>14

\* However many administrators create and supersede rules concurrently, a new
\* case that some active rule matches is routed by exactly one of them, and
\* one that none matches by none (Adjudicate, CreateRule).
THEOREM LeadIsUnique == Spec => []UniqueLead
<1>1. ASSUME BaseInv, NEW subject \in Subjects
      PROVE  LET item == NewItem(subject)
             IN  Cardinality(Adjudicate(item, GetActiveRules(now)))
                   = IF \E v \in DOMAIN rules : IsActiveAt(rules[v], now) /\ Matches(rules[v], item)
                     THEN 1 ELSE 0
  <2> DEFINE item == NewItem(subject)
             V == {v \in DOMAIN rules : IsActiveAt(rules[v], now) /\ Matches(rules[v], item)}
             M == {rules[v] : v \in V}
  <2>1. item.registeredAt = now
    BY DEF NewItem
  <2> HIDE DEF item
  <2>2. PICK n \in Nat : DOMAIN rules = 1 .. n
    BY <1>1 DEF BaseInv, RuleTable
  <2>3. \A v \in DOMAIN rules : rules[v] \in Rule /\ rules[v].version = v
    BY <1>1 DEF BaseInv, RuleTable, TypeOK
  <2>4. MatchedRules(item, GetActiveRules(now)) = M
    <3> DEFINE R == GetActiveRules(now)
               matching == {r \in R : IsActiveAt(r, item.registeredAt) /\ Matches(r, item)}
               defaults == {r \in R : IsActiveAt(r, item.registeredAt) /\ r.isDefault}
    <3>1. matching = M
      BY <2>1 DEF GetActiveRules
    <3>2. matching = {} => defaults = {}
      BY DEF Matches
    <3>3. MatchedRules(item, R) = IF matching # {} THEN matching ELSE defaults
      BY DEF MatchedRules
    <3> QED BY <3>1, <3>2, <3>3
  <2>5. Adjudicate(item, GetActiveRules(now)) = {r \in M : \A q \in M \ {r} : Precedes(r, q)}
    BY <2>4 DEF Adjudicate
  <2>6. CASE V = {}
    <3>1. Adjudicate(item, GetActiveRules(now)) = {}
      BY <2>5, <2>6
    <3> QED BY <2>6, <3>1, FS_EmptySet DEF item
  <2>7. CASE V # {}
    <3> DEFINE f == [v \in 1 .. n |-> rules[v].priority]
    <3>1. f \in [1 .. n -> Nat] /\ V \in SUBSET (1 .. n)
      BY <2>2, <2>3 DEF Rule
    <3>2. \A v \in V : f[v] = rules[v].priority /\ f[v] \in Nat /\ v \in Nat
      BY <2>2, <2>3 DEF Rule
    <3> HIDE DEF f
    <3>3. PICK b \in V : First(V, f, b)
      <4> HIDE DEF V
      <4> QED BY <2>7, <3>1, FirstExists
    <3>4. rules[b] \in M
      BY <3>3
    <3>5. \A q \in M : \E u \in V : q = rules[u]
      OBVIOUS
    <3>6. \A v \in V : rules[v].version = v
      BY <2>3
    <3> HIDE DEF V, M
    <3>7. ASSUME NEW q \in M, q # rules[b]
          PROVE  Precedes(rules[b], q) /\ ~ Precedes(q, rules[b])
      <4>1. PICK u \in V : q = rules[u]
        BY <3>5
      <4>2. u # b
        BY <3>7, <4>1
      <4>3. f[b] > f[u] \/ (f[b] = f[u] /\ b > u)
        BY <3>3, <4>2 DEF First
      <4>4. /\ f[b] \in Nat /\ f[u] \in Nat /\ b \in Nat /\ u \in Nat
            /\ f[b] = rules[b].priority /\ f[u] = rules[u].priority
        BY <3>2
      <4>5. rules[b].version = b /\ rules[u].version = u
        BY <3>6
      <4> QED BY <4>1, <4>3, <4>4, <4>5 DEF Precedes
    <3>8. Adjudicate(item, GetActiveRules(now)) = {rules[b]}
      BY <2>5, <3>4, <3>7
    <3>9. Cardinality(Adjudicate(item, GetActiveRules(now))) = 1
      BY <3>8, FS_Singleton
    <3> QED BY <2>7, <3>9 DEF V, item
  <2> QED BY <2>6, <2>7
<1>2. BaseInv => UniqueLead
  BY <1>1 DEF UniqueLead
<1>3. Spec => []BaseInv
  BY BaseInit, BaseStep, PTL DEF Spec
<1> QED BY <1>2, <1>3, PTL

-----------------------------------------------------------------------------
(***************************************************************************)
(* Operations one at a time (SerialSpec).  Now a write in flight can be    *)
(* related to the row it will replace: nobody else has changed the row     *)
(* since it was read.  SerialInv says so of the three kinds of write, and  *)
(* that no two operations are in flight.                                   *)
(***************************************************************************)
Solo ==
  /\ \A c, d \in Clients : call[c] # {} /\ call[d] # {} => c = d
  /\ (\E c \in Clients : call[c] # {}) => worker = IdleWorker /\ esc.queue = <<>>
  /\ worker # IdleWorker => esc.queue = <<>>

\* What a client's operation may do to a status.
Moves(from, to) == \/ from = to
                   \/ CanTransition(from, to) /\ to # "escalated"
                   \/ from = "returned" /\ to = "adjudicated"

SameRouting(row, old) == row.lead = old.lead /\ row.ver = old.ver /\ row.level = old.level

FreshCalls ==
  \A c \in Clients : \A w \in call[c] :
    IF w.op = "register"
    THEN w.row.status = "adjudicated" /\ w.row.level = 0
    ELSE SameRouting(w.row, items[w.ref]) /\ Moves(items[w.ref].status, w.row.status)

FreshPending ==
  \A w \in worker.pending : /\ w.row.status = items[w.ref].status
                            /\ w.row.level = items[w.ref].level

FreshQueue ==
  \A i \in DOMAIN esc.queue :
    /\ esc.queue[i].row = items[esc.queue[i].ref]
    /\ \A j \in DOMAIN esc.queue : i # j => esc.queue[i].ref # esc.queue[j].ref

SerialInv == SafetyInv /\ Solo /\ FreshCalls /\ FreshPending /\ FreshQueue /\ TablesAgree

\* The escalation records of a case that has reached a level.
Steps(level) == [i \in 1 .. level |-> [from |-> i - 1, to |-> i]]

LEMMA NextStep ==
  ASSUME NEW n \in Nat
  PROVE  Append(Steps(n), [from |-> n, to |-> n + 1]) = Steps(n + 1)
<1> DEFINE e == [from |-> n, to |-> n + 1]
<1>1. Steps(n) \in [1 .. n -> Escalation] /\ Steps(n + 1) \in [1 .. n + 1 -> Escalation]
  BY DEF Steps, Escalation
<1>2. /\ Steps(n) \in Seq(Escalation) /\ Len(Steps(n)) = n
      /\ Steps(n + 1) \in Seq(Escalation) /\ Len(Steps(n + 1)) = n + 1
  <2>1. n + 1 \in Nat
    OBVIOUS
  <2> QED BY <1>1, <2>1, FunctionIsSequence
<1>3. /\ \A i \in 1 .. n : Steps(n)[i] = [from |-> i - 1, to |-> i]
      /\ \A i \in 1 .. n + 1 : Steps(n + 1)[i] = [from |-> i - 1, to |-> i]
  BY DEF Steps
<1>4. e = [from |-> (n + 1) - 1, to |-> n + 1] /\ e \in Escalation
  BY DEF Escalation
<1> HIDE DEF e
<1>5. PICK s \in Seq(Escalation) : s = Steps(n)
  BY <1>2
<1>6. /\ Append(s, e) \in Seq(Escalation) /\ Len(Append(s, e)) = n + 1
      /\ Append(s, e)[n + 1] = e /\ \A i \in 1 .. n : Append(s, e)[i] = s[i]
  BY <1>2, <1>4, <1>5
<1>7. ASSUME NEW i \in 1 .. Len(Append(s, e))
      PROVE  Append(s, e)[i] = Steps(n + 1)[i]
  <2>1. i \in 1 .. n + 1 /\ (i = n + 1 \/ i \in 1 .. n)
    BY <1>6
  <2>2. CASE i = n + 1
    BY <1>3, <1>4, <1>6, <2>1, <2>2
  <2>3. CASE i \in 1 .. n
    BY <1>3, <1>5, <1>6, <2>1, <2>3
  <2> QED BY <2>1, <2>2, <2>3
<1>8. Append(s, e) = Steps(n + 1)
  <2> HIDE DEF Steps
  <2>1. PICK a \in Seq(Escalation) : a = Append(s, e)
    BY <1>6
  <2> QED BY <1>2, <1>6, <1>7, <2>1, SeqEqual
<1> QED BY <1>5, <1>8 DEF e

\* TablesAgree for one case.
Agrees(list, records, row) ==
  /\ list[Len(list)].lead = row.lead /\ list[Len(list)].ver = row.ver
  /\ records = Steps(row.level)

LEMMA AgreeByCase == TablesAgree <=> \A r \in Registered : Agrees(referrals[r], escalations[r], items[r])
BY DEF TablesAgree, Agrees, Steps

LEMMA AgreeNext ==
  ASSUME \A r \in Registered' : Agrees(referrals'[r], escalations'[r], items'[r])
  PROVE  TablesAgree'
BY DEF TablesAgree, Agrees, Steps

\* A referral saved with a row agrees with it.
LEMMA SavedAgrees ==
  ASSUME NEW list \in Seq(Referral), NEW row \in Row
  PROVE  LET new == SaveAssignment(list, row)
         IN  new[Len(new)].lead = row.lead /\ new[Len(new)].ver = row.ver
<1> DEFINE e == [lead |-> row.lead, ver |-> row.ver, current |-> TRUE]
<1>1. e \in Referral /\ e.lead = row.lead /\ e.ver = row.ver
  BY DEF Row, Referral
<1> HIDE DEF e
<1>2. Len(Append(list, e)) = Len(list) + 1 /\ Append(list, e)[Len(list) + 1] = e
  BY <1>1
<1> QED BY <1>1, <1>2 DEF SaveAssignment, e

-----------------------------------------------------------------------------
(***************************************************************************)
(* The refinement mapping.                                                 *)
(***************************************************************************)
StatusOf == [r \in Refs |-> IF r \in Registered THEN items[r].status ELSE "none"]
LevelOf  == [r \in Refs |-> IF r \in Registered THEN items[r].level ELSE 0]

\* A step or a stutter of CaseLifecycle.
Follows == Lifecycle!LifecycleNext \/ (StatusOf' = StatusOf /\ LevelOf' = LevelOf)

\* A row is written for the reference ref.
Writes(ref, row) ==
  /\ Registered' = Registered \cup {ref}
  /\ items'[ref] = row
  /\ \A r \in Registered : r # ref => items'[r] = items[r]

LEMMA RowReplaced ==
  ASSUME NEW ref \in DOMAIN items, NEW row, items' = [items EXCEPT ![ref] = row],
         items \in [DOMAIN items -> Row]
  PROVE  Writes(ref, row)
<1>1. DOMAIN items' = DOMAIN items
  OBVIOUS
<1>2. items'[ref] = row /\ \A r \in DOMAIN items : r # ref => items'[r] = items[r]
  OBVIOUS
<1> QED BY <1>1, <1>2 DEF Writes, Registered

LEMMA MappedWrite ==
  ASSUME NEW ref \in Refs, NEW row, Writes(ref, row)
  PROVE  /\ StatusOf' = [StatusOf EXCEPT ![ref] = row.status]
         /\ LevelOf' = [LevelOf EXCEPT ![ref] = row.level]
<1>1. ASSUME NEW r \in Refs
      PROVE  /\ StatusOf'[r] = IF r = ref THEN row.status ELSE StatusOf[r]
             /\ LevelOf'[r] = IF r = ref THEN row.level ELSE LevelOf[r]
  BY DEF Writes, StatusOf, LevelOf
<1>2. /\ StatusOf' = [r \in Refs |-> StatusOf'[r]] /\ StatusOf = [r \in Refs |-> StatusOf[r]]
      /\ LevelOf' = [r \in Refs |-> LevelOf'[r]] /\ LevelOf = [r \in Refs |-> LevelOf[r]]
  BY DEF StatusOf, LevelOf
<1> QED BY <1>1, <1>2

LEMMA MappedSame ==
  ASSUME items' = items
  PROVE  Follows
BY DEF Follows, StatusOf, LevelOf, Registered

\* Registration opens the case.
LEMMA FollowsOpen ==
  ASSUME NEW ref \in Refs, NEW row, Writes(ref, row), ref \notin Registered,
         row.status = "adjudicated", row.level = 0
  PROVE  Follows
<1>1. /\ StatusOf' = [StatusOf EXCEPT ![ref] = "adjudicated"]
      /\ LevelOf' = [LevelOf EXCEPT ![ref] = 0]
  BY MappedWrite
<1>2. StatusOf[ref] = "none" /\ LevelOf[ref] = 0
  BY DEF StatusOf, LevelOf
<1>3. LevelOf' = LevelOf
  BY <1>1, <1>2 DEF LevelOf
<1>4. Lifecycle!Open(ref)
  BY <1>1, <1>2, <1>3 DEF Lifecycle!Open, StatusOf, LevelOf
<1> QED BY <1>4 DEF Follows, Lifecycle!LifecycleNext

\* The transition tables of the two modules are the same one.
LEMMA SameTable ==
  /\ \A s, t : Lifecycle!CanTransition(s, t) <=> CanTransition(s, t)
  /\ \A s, t : Lifecycle!ValidateTransition(s, t) <=> ValidateTransition(s, t)
  /\ Lifecycle!Statuses = Statuses
<1>1. Lifecycle!Statuses = Statuses
  BY DEF Lifecycle!Statuses, Statuses
<1>2. Lifecycle!transitionTable = transitionTable
  BY <1>1 DEF Lifecycle!transitionTable, transitionTable
<1>3. \A s, t : Lifecycle!CanTransition(s, t) <=> CanTransition(s, t)
  BY <1>2 DEF Lifecycle!CanTransition, CanTransition
<1>4. \A s, t : Lifecycle!ValidateTransition(s, t) <=> ValidateTransition(s, t)
  BY <1>3 DEF Lifecycle!ValidateTransition, ValidateTransition
<1> QED BY <1>1, <1>3, <1>4

\* An update of a client follows the transition table, or readmits the case.
LEMMA FollowsMove ==
  ASSUME NEW ref \in Refs, NEW row \in Row, Writes(ref, row), ref \in Registered,
         items[ref] \in Row, row.level = items[ref].level, Moves(items[ref].status, row.status)
  PROVE  Follows
<1>1. /\ StatusOf' = [StatusOf EXCEPT ![ref] = row.status]
      /\ LevelOf' = [LevelOf EXCEPT ![ref] = row.level]
  BY MappedWrite
<1>2. /\ StatusOf[ref] = items[ref].status /\ LevelOf[ref] = row.level
      /\ StatusOf[ref] \in Statuses /\ row.status \in Statuses
  BY DEF StatusOf, LevelOf, Row
<1>3. LevelOf' = LevelOf
  BY <1>1, <1>2 DEF LevelOf
<1>4. CASE items[ref].status = row.status
  <2>1. StatusOf' = StatusOf
    BY <1>1, <1>2, <1>4 DEF StatusOf
  <2> QED BY <1>3, <2>1 DEF Follows
<1>5. CASE CanTransition(items[ref].status, row.status) /\ row.status # "escalated"
  <2>1. StatusOf[ref] # "none"
    BY <1>2 DEF Statuses
  <2>2. Lifecycle!Advance(ref, row.status)
    BY <1>1, <1>2, <1>3, <1>5, <2>1, SameTable DEF Lifecycle!Advance, StatusOf, LevelOf
  <2>3. row.status \in Lifecycle!Statuses
    BY <1>2, SameTable
  <2> QED BY <2>2, <2>3 DEF Follows, Lifecycle!LifecycleNext
<1>6. CASE items[ref].status = "returned" /\ row.status = "adjudicated"
  <2>1. Lifecycle!Readmit(ref)
    BY <1>1, <1>2, <1>3, <1>6 DEF Lifecycle!Readmit, StatusOf, LevelOf
  <2> QED BY <2>1 DEF Follows, Lifecycle!LifecycleNext
<1> QED BY <1>4, <1>5, <1>6 DEF Moves

\* An escalation raises the level by one.
LEMMA FollowsEscalate ==
  ASSUME NEW ref \in Refs, NEW row \in Row, Writes(ref, row), ref \in Registered,
         items[ref] \in Row, row.status = "escalated", row.level = items[ref].level + 1,
         items[ref].level < MaxEscalationLevel, ValidateTransition(items[ref].status, "escalated")
  PROVE  Follows
<1>1. /\ StatusOf' = [StatusOf EXCEPT ![ref] = "escalated"]
      /\ LevelOf' = [LevelOf EXCEPT ![ref] = items[ref].level + 1]
  BY MappedWrite
<1>2. StatusOf[ref] = items[ref].status /\ LevelOf[ref] = items[ref].level /\ StatusOf[ref] # "none"
  BY DEF StatusOf, LevelOf, Row, Statuses
<1>3. Lifecycle!Escalate(ref)
  BY <1>1, <1>2, SameTable DEF Lifecycle!Escalate, StatusOf, LevelOf
<1> QED BY <1>3 DEF Follows, Lifecycle!LifecycleNext

-----------------------------------------------------------------------------
(***************************************************************************)
(* The steps of SerialSpec.                                                *)
(***************************************************************************)
SerialRest == Solo /\ FreshCalls /\ FreshPending /\ FreshQueue /\ TablesAgree

\* With nothing in flight there is nothing to be fresh.
LEMMA QuietRest ==
  ASSUME Quiet
  PROVE  /\ \A c \in Clients : call[c] = {}
         /\ worker = IdleWorker /\ worker.pending = {} /\ esc.queue = <<>>
BY DEF Quiet, IdleWorker

\* Steps that leave the tables alone.
LEMMA TablesStand ==
  ASSUME SerialRest, UNCHANGED <<items, referrals, escalations>>
  PROVE  /\ TablesAgree' /\ Follows
         /\ call' = call => FreshCalls'
         /\ worker'.pending = worker.pending => FreshPending'
         /\ esc' = esc => FreshQueue'
<1>1. TablesAgree'
  BY DEF SerialRest, TablesAgree, Registered
<1>2. Follows
  BY MappedSame
<1>3. call' = call => FreshCalls'
  BY DEF SerialRest, FreshCalls
<1>4. worker'.pending = worker.pending => FreshPending'
  BY DEF SerialRest, FreshPending
<1>5. esc' = esc => FreshQueue'
  BY DEF SerialRest, FreshQueue
<1> QED BY <1>1, <1>2, <1>3, <1>4, <1>5

\* A request of a client puts its write in flight.
LEMMA SerialInFlight ==
  ASSUME TypeOK, SerialRest, Quiet, NEW c \in Clients, NEW op, NEW r, NEW row,
         InFlight(c, op, r, row),
         IF op = "register" THEN row.status = "adjudicated" /\ row.level = 0
         ELSE SameRouting(row, items[r]) /\ Moves(items[r].status, row.status)
  PROVE  SerialRest' /\ Follows
<1> DEFINE w == [ref |-> r, row |-> row, op |-> op]
<1>1. /\ call' = [call EXCEPT ![c] = {w}]
      /\ UNCHANGED <<items, referrals, escalations, worker, esc>>
  BY DEF InFlight, tables
<1>2. w.ref = r /\ w.row = row /\ w.op = op
  OBVIOUS
<1> HIDE DEF w
<1>3. \A d \in Clients : call'[d] = IF d = c THEN {w} ELSE {}
  BY <1>1, QuietRest DEF TypeOK
<1>4. Solo'
  BY <1>1, <1>3, QuietRest DEF Solo
<1>5. FreshCalls'
  BY <1>1, <1>2, <1>3 DEF FreshCalls
<1>6. FreshPending' /\ FreshQueue' /\ TablesAgree' /\ Follows
  BY <1>1, TablesStand
<1> QED BY <1>4, <1>5, <1>6 DEF SerialRest

LEMMA SerialBeginCall ==
  ASSUME SafetyInv, SerialRest, Quiet, NEW c \in Clients, NEW r \in Refs, BeginCall(c, r)
  PROVE  SerialRest' /\ Follows
<1>1. TypeOK
  BY DEF SafetyInv, BaseInv
<1>2. r \in Registered => items[r] \in Row /\ items[r].status \in Statuses /\ RowCoherent(items[r])
  BY <1>1 DEF TypeOK, Row, SafetyInv, RowsInv, ItemsGood, GoodRow
<1>3. ASSUME r \in Registered, NEW s \in Statuses
      PROVE  /\ SameRouting([items[r] EXCEPT !.status = s], items[r])
             /\ [items[r] EXCEPT !.status = s].status = s
             /\ SameRouting([items[r] EXCEPT !.status = s, !.completed = TRUE], items[r])
             /\ [items[r] EXCEPT !.status = s, !.completed = TRUE].status = s
             /\ SameRouting([items[r] EXCEPT !.status = s, !.cancelled = TRUE], items[r])
             /\ [items[r] EXCEPT !.status = s, !.cancelled = TRUE].status = s
  <2>1. PICK old \in Row : old = items[r]
    BY <1>2, <1>3
  <2>2. /\ SameRouting([old EXCEPT !.status = s], old)
        /\ [old EXCEPT !.status = s].status = s
    BY DEF SameRouting, Row
  <2>3. /\ SameRouting([old EXCEPT !.status = s, !.completed = TRUE], old)
        /\ [old EXCEPT !.status = s, !.completed = TRUE].status = s
    BY DEF SameRouting, Row
  <2>4. /\ SameRouting([old EXCEPT !.status = s, !.cancelled = TRUE], old)
        /\ [old EXCEPT !.status = s, !.cancelled = TRUE].status = s
    BY DEF SameRouting, Row
  <2> QED BY <2>1, <2>2, <2>3, <2>4
<1>4. ASSUME NEW subject \in Subjects, Register(c, r, subject)
      PROVE  SerialRest' /\ Follows
  <2>1. PICK rule : InFlight(c, "register", r, Routed(NewItem(subject), rule, "adjudicated"))
    BY <1>4 DEF Register
  <2> DEFINE row == Routed(NewItem(subject), rule, "adjudicated")
  <2>2. row.status = "adjudicated" /\ row.level = 0
    BY DEF Routed, NewItem
  <2> HIDE DEF row
  <2>3. PICK op : op = "register"
    OBVIOUS
  <2>4. InFlight(c, op, r, row)
    BY <2>1, <2>3 DEF row
  <2> QED BY <1>1, <2>2, <2>3, <2>4, SerialInFlight
<1>5. ASSUME NEW op, op # "register", NEW row, InFlight(c, op, r, row),
             SameRouting(row, items[r]), Moves(items[r].status, row.status)
      PROVE  SerialRest' /\ Follows
  BY <1>1, <1>5, SerialInFlight
<1>6. ASSUME NEW edit \in Edits, Modify(c, r, edit)
      PROVE  SerialRest' /\ Follows
  <2>1. PICK old \in Row : old = items[r]
    BY <1>2, <1>6 DEF Modify
  <2> DEFINE cat == IF edit.category = "" THEN old.category ELSE edit.category
             kws == IF edit.keywords = {} THEN old.keywords ELSE UNION edit.keywords
             row == [old EXCEPT !.category = cat, !.keywords = kws]
  <2>2. row = Edited(items[r], edit)
    BY <2>1 DEF Edited
  <2>3. SameRouting(row, old) /\ row.status = old.status
    <3> HIDE DEF cat, kws
    <3> QED BY DEF SameRouting, Row
  <2> HIDE DEF row
  <2>4. PICK op : op = "modify"
    OBVIOUS
  <2>5. InFlight(c, op, r, row) /\ op # "register"
    BY <1>6, <2>2, <2>4 DEF Modify
  <2> QED BY <1>5, <2>1, <2>3, <2>5 DEF Moves
<1>7. CASE StartProcessing(c, r)
  <2> DEFINE row == [items[r] EXCEPT !.status = "in_progress"]
  <2>1. SameRouting(row, items[r]) /\ row.status = "in_progress"
    BY <1>3, <1>7 DEF StartProcessing, Statuses
  <2>2. InFlight(c, "start_processing", r, row) /\ Moves(items[r].status, "in_progress")
    BY <1>7 DEF StartProcessing, ValidateTransition, Moves
  <2> HIDE DEF row
  <2> QED BY <1>5, <2>1, <2>2
<1>8. CASE ReturnForCorrection(c, r)
  <2> DEFINE row == [items[r] EXCEPT !.status = "returned"]
  <2>1. SameRouting(row, items[r]) /\ row.status = "returned"
    BY <1>3, <1>8 DEF ReturnForCorrection, Statuses
  <2>2. InFlight(c, "return", r, row) /\ Moves(items[r].status, "returned")
    BY <1>8 DEF ReturnForCorrection, ValidateTransition, Moves
  <2> HIDE DEF row
  <2> QED BY <1>5, <2>1, <2>2
<1>9. CASE Resubmit(c, r)
  <2> DEFINE row == [items[r] EXCEPT !.status = "adjudicated"]
  <2>1. SameRouting(row, items[r]) /\ row.status = "adjudicated"
    BY <1>3, <1>9 DEF Resubmit, Statuses
  <2>2. items[r].status = "returned"
    BY <1>2, <1>9, TransitionSources DEF Resubmit, RowCoherent
  <2>3. InFlight(c, "resubmit", r, row) /\ Moves(items[r].status, "adjudicated")
    BY <1>9, <2>2 DEF Resubmit, Moves
  <2> HIDE DEF row
  <2> QED BY <1>5, <2>1, <2>3
<1>10. CASE Cancel(c, r)
  <2> DEFINE row == [items[r] EXCEPT !.status = "cancelled", !.cancelled = TRUE]
  <2>1. SameRouting(row, items[r]) /\ row.status = "cancelled"
    BY <1>3, <1>10 DEF Cancel, Statuses
  <2>2. InFlight(c, "cancel", r, row) /\ Moves(items[r].status, "cancelled")
    BY <1>10 DEF Cancel, ValidateTransition, Moves
  <2> HIDE DEF row
  <2> QED BY <1>5, <2>1, <2>2
<1>11. CASE Complete(c, r)
  <2> DEFINE row == [items[r] EXCEPT !.status = "completed", !.completed = TRUE]
  <2>1. SameRouting(row, items[r]) /\ row.status = "completed"
    BY <1>3, <1>11 DEF Complete, Statuses
  <2>2. InFlight(c, "complete", r, row) /\ Moves(items[r].status, "completed")
    BY <1>11 DEF Complete, ValidateTransition, Moves
  <2> HIDE DEF row
  <2> QED BY <1>5, <2>1, <2>2
<1> QED BY <1>4, <1>6, <1>7, <1>8, <1>9, <1>10, <1>11 DEF BeginCall

\* The transaction of a client ends its request, and with it the only
\* operation in flight.
LEMMA SerialEndCall ==
  ASSUME SafetyInv, SerialRest, NEW c \in Clients, EndCall(c)
  PROVE  SerialRest' /\ Follows
<1>1. TypeOK
  BY DEF SafetyInv, BaseInv
<1>2. call[c] # {} /\ call' = [call EXCEPT ![c] = {}] /\ UNCHANGED <<worker, esc>>
  BY DEF EndCall, RegisterTx, UpdateItemWithAudit, CallFails
<1>3. worker = IdleWorker /\ esc.queue = <<>> /\ \A d \in Clients : d # c => call[d] = {}
  BY <1>2 DEF SerialRest, Solo
<1>4. \A d \in Clients : call'[d] = {}
  BY <1>1, <1>2, <1>3 DEF TypeOK
<1>5. Solo' /\ FreshCalls'
  BY <1>2, <1>3, <1>4 DEF Solo, FreshCalls
<1>6. FreshPending' /\ FreshQueue'
  BY <1>2, <1>3 DEF FreshPending, FreshQueue, IdleWorker
<1>7. CASE RegisterTx(c)
  <2>1. PICK w \in call[c] : RegisterTx(c)!(w)
    BY <1>7 DEF RegisterTx
  <2>2. w.ref \in Refs /\ w.row \in Row
    BY <1>1 DEF TypeOK, Call
  <2>3. Writes(w.ref, w.row)
    BY <2>1 DEF Writes, Registered, Upsert
  <2>4. w.row.status = "adjudicated" /\ w.row.level = 0
    BY <2>1 DEF SerialRest, FreshCalls
  <2>5. Follows
    BY <2>1, <2>2, <2>3, <2>4, FollowsOpen
  <2>6. referrals[w.ref] = <<>> /\ escalations[w.ref] = <<>>
    <3>1. referrals[w.ref] = <<>>
      BY <2>1, <2>2 DEF SafetyInv, OneCurrentReferral
    <3>2. {"register", "escalate", "rule_reevaluated"} \subseteq Actions
      BY DEF Actions, ClientActions
    <3>3. /\ audits[w.ref]["register"] \in Nat /\ audits[w.ref]["escalate"] \in Nat
          /\ audits[w.ref]["rule_reevaluated"] \in Nat /\ escalations[w.ref] \in Seq(Escalation)
      BY <1>1, <2>2, <3>2 DEF TypeOK
    <3>4. /\ Len(escalations[w.ref]) = audits[w.ref]["escalate"]
          /\ Len(referrals[w.ref]) = audits[w.ref]["register"] + audits[w.ref]["escalate"]
                                       + audits[w.ref]["rule_reevaluated"]
      BY <2>2 DEF SafetyInv, AuditLedger
    <3>5. Len(referrals[w.ref]) = 0
      BY <3>1
    <3>6. \A i, j, k \in Nat : 0 = i + j + k => j = 0
      OBVIOUS
    <3>7. audits[w.ref]["escalate"] = 0
      BY <3>3, <3>4, <3>5, <3>6, Zenon
    <3>8. Len(escalations[w.ref]) = 0
      BY <3>4, <3>7
    <3> QED BY <3>1, <3>3, <3>8
  <2>7. Steps(0) = <<>>
    BY DEF Steps
  <2> DEFINE new == SaveAssignment(<<>>, w.row)
  <2>8. new[Len(new)].lead = w.row.lead /\ new[Len(new)].ver = w.row.ver
    <3>1. <<>> \in Seq(Referral)
      OBVIOUS
    <3> QED BY <2>2, <3>1, SavedAgrees
  <2>9. \A r \in Refs : /\ referrals'[r] = IF r = w.ref THEN new ELSE referrals[r]
                        /\ escalations'[r] = escalations[r]
    BY <1>1, <2>1, <2>2, <2>6 DEF TypeOK
  <2> HIDE DEF new
  <2>10. Agrees(new, <<>>, w.row)
    BY <2>4, <2>7, <2>8 DEF Agrees
  <2>11. \A r \in Registered : Agrees(referrals[r], escalations[r], items[r])
    BY AgreeByCase DEF SerialRest
  <2>12. ASSUME NEW r \in Registered'
         PROVE  Agrees(referrals'[r], escalations'[r], items'[r])
    <3>1. r \in Refs
      BY <1>1, <2>2, <2>3 DEF Writes, TypeOK
    <3>2. CASE r = w.ref
      BY <2>3, <2>6, <2>9, <2>10, <3>1, <3>2 DEF Writes
    <3>3. CASE r # w.ref
      BY <2>3, <2>9, <2>11, <3>1, <3>3 DEF Writes
    <3> QED BY <3>2, <3>3
  <2>13. TablesAgree'
    BY <2>12, AgreeNext
  <2> QED BY <1>5, <1>6, <2>5, <2>13 DEF SerialRest
<1>8. CASE UpdateItemWithAudit(c)
  <2>1. PICK w \in call[c] : UpdateItemWithAudit(c)!(w)
    BY <1>8 DEF UpdateItemWithAudit
  <2>2. w.ref \in Refs /\ w.row \in Row
    BY <1>1 DEF TypeOK, Call
  <2>3. w.ref \in Registered
    BY <2>1 DEF SafetyInv, RowsInv, CallsGood, SameCase, Registered
  <2>4. Writes(w.ref, w.row)
    BY <1>1, <2>1, <2>3, RowReplaced DEF TypeOK, Registered
  <2>5. SameRouting(w.row, items[w.ref]) /\ Moves(items[w.ref].status, w.row.status)
    BY <2>1 DEF SerialRest, FreshCalls
  <2>6. Follows
    BY <1>1, <2>2, <2>3, <2>4, <2>5, FollowsMove DEF SameRouting, TypeOK
  <2>7. \A r \in Registered : Agrees(referrals[r], escalations[r], items[r])
    BY AgreeByCase DEF SerialRest
  <2>8. ASSUME NEW r \in Registered'
        PROVE  Agrees(referrals'[r], escalations'[r], items'[r])
    BY <2>1, <2>3, <2>4, <2>5, <2>7 DEF Writes, Agrees, SameRouting
  <2>9. TablesAgree'
    BY <2>8, AgreeNext
  <2> QED BY <1>5, <1>6, <2>6, <2>9 DEF SerialRest
<1>9. CASE CallFails(c)
  <2>1. UNCHANGED <<items, referrals, escalations>>
    BY <1>9 DEF CallFails, tables
  <2> QED BY <1>5, <1>6, <2>1, TablesStand DEF SerialRest
<1> QED BY <1>7, <1>8, <1>9 DEF EndCall

\* A transaction that supersedes the referral of a case and saves one with
\* the row it writes.
LEMMA RerouteAgrees ==
  ASSUME TypeOK, TablesAgree, NEW ref \in Registered, NEW row \in Row, Writes(ref, row),
         referrals' = [referrals EXCEPT
                         ![ref] = SaveAssignment(MarkAssignmentSuperseded(@), row)],
         escalations'[ref] = Steps(row.level),
         \A r \in Registered : r # ref => escalations'[r] = escalations[r]
  PROVE  TablesAgree'
<1>1. Registered \subseteq Refs /\ referrals[ref] \in Seq(Referral)
  BY DEF TypeOK
<1> DEFINE new == SaveAssignment(MarkAssignmentSuperseded(referrals[ref]), row)
<1>2. new[Len(new)].lead = row.lead /\ new[Len(new)].ver = row.ver
  BY <1>1, SupersededReferrals, SavedAgrees
<1>3. \A r \in Registered : referrals'[r] = IF r = ref THEN new ELSE referrals[r]
  BY <1>1 DEF TypeOK
<1> HIDE DEF new
<1>4. \A r \in Registered : Agrees(referrals[r], escalations[r], items[r])
  BY AgreeByCase
<1>5. ASSUME NEW r \in Registered'
      PROVE  Agrees(referrals'[r], escalations'[r], items'[r])
  <2>1. r \in Registered
    BY DEF Writes
  <2>2. CASE r = ref
    BY <1>2, <1>3, <2>1, <2>2 DEF Writes, Agrees
  <2>3. CASE r # ref
    BY <1>3, <1>4, <2>1, <2>3 DEF Writes
  <2> QED BY <2>2, <2>3
<1> QED BY <1>5, AgreeNext

\* The rest of the system waits while a sweep runs.
LEMMA SerialSweep ==
  ASSUME SafetyInv, SerialRest, WorkerStep \/ (Quiet /\ SweepVersion)
  PROVE  SerialRest' /\ Follows
<1>1. TypeOK
  BY DEF SafetyInv, BaseInv
<1>2. UNCHANGED <<call, esc, escalations>>
  BY DEF WorkerStep, SweepVersion, SweepRules, CollectStaleItems, ReevalLoad, ReevalTx,
         ReevalFails, SweepEnds, tables
<1>3. (\A c \in Clients : call[c] = {}) /\ esc.queue = <<>>
  <2>1. CASE Quiet
    BY <2>1, QuietRest
  <2>2. CASE WorkerStep
    <3>1. worker.pc # "idle" \/ worker.pending # {}
      BY <2>2 DEF WorkerStep, SweepRules, CollectStaleItems, ReevalLoad, ReevalTx,
                  ReevalFails, SweepEnds
    <3>2. IdleWorker.pc = "idle" /\ IdleWorker.pending = {}
      BY DEF IdleWorker
    <3>3. worker # IdleWorker
      BY <3>1, <3>2
    <3> QED BY <3>3 DEF SerialRest, Solo
  <2> QED BY <2>1, <2>2
<1>4. Solo' /\ FreshCalls' /\ FreshQueue'
  BY <1>2, <1>3 DEF Solo, FreshCalls, FreshQueue
<1>5. ASSUME UNCHANGED <<items, referrals>>, FreshPending'
      PROVE  SerialRest' /\ Follows
  BY <1>2, <1>4, <1>5, TablesStand DEF SerialRest
<1>6. worker \in WorkerState
  BY <1>1 DEF TypeOK, WorkerState
<1>7. CASE SweepVersion \/ SweepRules
  <2>1. UNCHANGED <<items, referrals>>
    BY <1>7 DEF SweepVersion, SweepRules, tables
  <2>2. worker'.pending = worker.pending
    BY <1>6, <1>7 DEF SweepVersion, SweepRules, WorkerState
  <2> QED BY <1>2, <1>5, <2>1, <2>2, TablesStand
<1>8. CASE CollectStaleItems
  <2>1. UNCHANGED <<items, referrals>>
    BY <1>8 DEF CollectStaleItems, tables
  <2>2. worker'.pending = worker.pending \/ worker'.pending = {}
    BY <1>6, <1>8 DEF CollectStaleItems, WorkerState, IdleWorker
  <2>3. worker'.pending = {} => FreshPending'
    BY DEF FreshPending
  <2> QED BY <1>2, <1>5, <2>1, <2>2, <2>3, TablesStand
<1>9. CASE ReevalFails \/ SweepEnds
  <2>1. UNCHANGED <<items, referrals>>
    BY <1>9 DEF ReevalFails, SweepEnds, tables
  <2>2. worker'.pending = {}
    BY <1>6, <1>9 DEF ReevalFails, SweepEnds, WorkerState, IdleWorker
  <2>3. FreshPending'
    BY <2>2 DEF FreshPending
  <2> QED BY <1>5, <2>1, <2>3
<1>10. ASSUME NEW r \in Refs, ReevalLoad(r)
       PROVE  SerialRest' /\ Follows
  <2>1. UNCHANGED <<items, referrals>>
    BY <1>10 DEF ReevalLoad, tables
  <2>2. worker'.pending = Reevaluated(r)
    BY <1>6, <1>10 DEF ReevalLoad, WorkerState
  <2>3. r \in Registered
    BY <1>10 DEF ReevalLoad, SafetyInv, BaseInv
  <2>4. ASSUME NEW w \in Reevaluated(r)
        PROVE  w.row.status = items[w.ref].status /\ w.row.level = items[w.ref].level
    <3>1. /\ w.ref = r /\ items[r].status \in ReevaluableStatuses
          /\ \E rule \in Adjudicate(items[r], worker.rules) :
               w.row = Routed(items[r], rule, "adjudicated")
      BY <1>1, <2>3, ReevaluatedType
    <3>2. items[r].status # "registered"
      BY <2>3 DEF SafetyInv, RowsInv, ItemsGood, GoodRow, RowCoherent
    <3>3. items[r].status = "adjudicated"
      BY <3>1, <3>2 DEF ReevaluableStatuses
    <3> QED BY <3>1, <3>3 DEF Routed
  <2>5. FreshPending'
    BY <2>1, <2>2, <2>4 DEF FreshPending
  <2> QED BY <1>5, <2>1, <2>5
<1>11. CASE ReevalTx
  <2>1. PICK w \in worker.pending : ReevalTx!(w)
    BY <1>11 DEF ReevalTx
  <2>2. w.ref \in Refs /\ w.row \in Row
    BY <1>1 DEF TypeOK, Write
  <2>3. w.ref \in Registered
    BY DEF SafetyInv, RowsInv, PendingGood, SameCase, Registered
  <2>4. Writes(w.ref, w.row)
    BY <1>1, <2>1, <2>3, RowReplaced DEF TypeOK, Registered
  <2>5. w.row.status = items[w.ref].status /\ w.row.level = items[w.ref].level
    BY DEF SerialRest, FreshPending
  <2>6. Follows
    BY <1>1, <2>2, <2>3, <2>4, <2>5, FollowsMove DEF Moves, TypeOK
  <2>7. escalations'[w.ref] = Steps(w.row.level)
    BY <2>1, <2>3, <2>5, AgreeByCase DEF SerialRest, Agrees
  <2>8. TablesAgree'
    BY <1>1, <1>2, <2>1, <2>2, <2>3, <2>4, <2>7, RerouteAgrees DEF SerialRest
  <2>9. worker'.pending = {}
    BY <1>6, <2>1 DEF WorkerState
  <2>10. FreshPending'
    BY <2>9 DEF FreshPending
  <2> QED BY <1>4, <2>6, <2>8, <2>10 DEF SerialRest
<1> QED BY <1>7, <1>8, <1>9, <1>10, <1>11 DEF WorkerStep

\* The rest of the system waits while the escalation task works off its scan,
\* so the rows of the queue are the stored ones until they are written.
LEMMA SerialEscalation ==
  ASSUME SafetyInv, SerialRest, EscalationStep \/ (Quiet /\ CheckAndEscalate)
  PROVE  SerialRest' /\ Follows
<1>1. TypeOK
  BY DEF SafetyInv, BaseInv
<1>2. UNCHANGED <<call, worker>>
  BY DEF EscalationStep, CheckAndEscalate, EscalateItem, EscalationAborts
<1>3. (\A c \in Clients : call[c] = {}) /\ worker = IdleWorker
  <2>1. CASE Quiet
    BY <2>1, QuietRest
  <2>2. CASE EscalationStep
    <3>1. esc.queue # <<>>
      BY <2>2 DEF EscalationStep, EscalateItem, EscalationAborts
    <3> QED BY <3>1 DEF SerialRest, Solo
  <2> QED BY <2>1, <2>2
<1>4. Solo' /\ FreshCalls' /\ FreshPending'
  BY <1>2, <1>3 DEF Solo, FreshCalls, FreshPending, IdleWorker
<1>5. ASSUME UNCHANGED <<items, referrals, escalations>>, FreshQueue'
      PROVE  SerialRest' /\ Follows
  BY <1>4, <1>5, TablesStand DEF SerialRest
<1>6. CASE CheckAndEscalate
  <2>1. PICK q \in ByDeadline(FindOverdueItems(now)) :
          esc' = [at    |-> now,
                  queue |-> [i \in DOMAIN q |-> [ref |-> q[i], row |-> items[q[i]]]]]
    BY <1>6 DEF CheckAndEscalate
  <2>2. UNCHANGED <<items, referrals, escalations>>
    BY <1>6 DEF CheckAndEscalate, tables
  <2>3. /\ DOMAIN esc'.queue = DOMAIN q
        /\ \A i \in DOMAIN q : esc'.queue[i].ref = q[i] /\ esc'.queue[i].row = items[q[i]]
    BY <2>1
  <2>4. \A i, j \in DOMAIN q : i # j => q[i] # q[j]
    <3>1. \A i, j \in DOMAIN q : i < j => q[i] # q[j]
      BY DEF ByDeadline
    <3>2. DOMAIN q = 1 .. Cardinality(FindOverdueItems(now))
      BY DEF ByDeadline
    <3>3. \A i, j \in DOMAIN q : i # j => i < j \/ j < i
      BY <3>2
    <3> QED BY <3>1, <3>3
  <2>5. FreshQueue'
    BY <2>2, <2>3, <2>4 DEF FreshQueue
  <2> QED BY <1>5, <2>2, <2>5
<1>7. CASE EscalationAborts
  <2>1. UNCHANGED <<items, referrals, escalations>> /\ esc'.queue = <<>>
    BY <1>7 DEF EscalationAborts, tables, IdleEscalation
  <2>2. FreshQueue'
    BY <2>1 DEF FreshQueue
  <2> QED BY <1>5, <2>1, <2>2
<1>8. CASE EscalateItem
  <2>1. esc.queue \in Seq(Write) /\ esc.queue # <<>> /\ esc.at \in Nat
    BY <1>1, <1>8 DEF EscalateItem, TypeOK
  <2>2. PICK w : w = Head(esc.queue)
    OBVIOUS
  <2>3. /\ w = esc.queue[1] /\ 1 \in DOMAIN esc.queue /\ w \in Write
        /\ \A i \in DOMAIN Tail(esc.queue) :
             i + 1 \in DOMAIN esc.queue /\ Tail(esc.queue)[i] = esc.queue[i + 1]
    BY <2>1, <2>2, QueueHead
  <2>4. w.ref \in Refs /\ w.row \in Row
    BY <2>3 DEF Write
  <2>5. w.row = items[w.ref]
    BY <2>3 DEF SerialRest, FreshQueue
  <2>6. w.ref \in Registered /\ w.row.level < MaxEscalationLevel
    BY <2>3 DEF SafetyInv, RowsInv, QueueGood, SameCase, Registered
  <2>7. PICK row : row = Escalated(w.row, esc.at)
    OBVIOUS
  <2>8. /\ row \in Row /\ row.status = "escalated" /\ row.level = w.row.level + 1
        /\ w.row.level \in Nat
    <3>1. row.status = "escalated" /\ row.level = w.row.level + 1
      BY <2>4, <2>7 DEF Escalated, Row
    <3> QED BY <2>1, <2>4, <2>7, <3>1, EscalatedIsRow DEF Row
  <2>9. /\ ValidateTransition(w.row.status, "escalated")
        /\ escalations' = [escalations EXCEPT
                             ![w.ref] = Append(@, [from |-> w.row.level, to |-> row.level])]
        /\ referrals' = [referrals EXCEPT
                           ![w.ref] = SaveAssignment(MarkAssignmentSuperseded(@), row)]
        /\ items' = [items EXCEPT ![w.ref] = row]
        /\ esc' = [esc EXCEPT !.queue = Tail(@)]
    BY <1>8, <2>2, <2>7 DEF EscalateItem
  <2>10. Writes(w.ref, row)
    BY <1>1, <2>6, <2>9, RowReplaced DEF TypeOK, Registered
  <2>11. Follows
    BY <2>4, <2>5, <2>6, <2>8, <2>9, <2>10, FollowsEscalate
  <2>12. escalations[w.ref] = Steps(w.row.level)
    BY <2>5, <2>6, AgreeByCase DEF SerialRest, Agrees
  <2>13. /\ escalations'[w.ref] = Append(escalations[w.ref], [from |-> w.row.level, to |-> row.level])
         /\ \A r \in Refs : r # w.ref => escalations'[r] = escalations[r]
    BY <1>1, <2>4, <2>9 DEF TypeOK
  <2>14. escalations'[w.ref] = Steps(row.level)
    BY <2>8, <2>12, <2>13, NextStep
  <2>15. Registered \subseteq Refs
    BY <1>1 DEF TypeOK
  <2>16. TablesAgree'
    BY <1>1, <2>6, <2>8, <2>9, <2>10, <2>13, <2>14, <2>15, RerouteAgrees DEF SerialRest
  <2>17. esc'.queue = Tail(esc.queue)
    BY <1>1, <2>9 DEF TypeOK
  <2>18. ASSUME NEW i \in DOMAIN Tail(esc.queue)
         PROVE  /\ Tail(esc.queue)[i].row = items'[Tail(esc.queue)[i].ref]
                /\ \A j \in DOMAIN Tail(esc.queue) :
                     i # j => Tail(esc.queue)[i].ref # Tail(esc.queue)[j].ref
    <3>1. DOMAIN Tail(esc.queue) \subseteq Nat \ {0}
      <4>1. Tail(esc.queue) \in Seq(Write)
        BY <2>1
      <4> QED BY <4>1
    <3>2. i + 1 \in DOMAIN esc.queue /\ i + 1 # 1 /\ Tail(esc.queue)[i] = esc.queue[i + 1]
      BY <2>3, <3>1
    <3>3. esc.queue[i + 1].ref # w.ref /\ esc.queue[i + 1].row = items[esc.queue[i + 1].ref]
      BY <2>3, <3>2 DEF SerialRest, FreshQueue
    <3>4. esc.queue[i + 1].ref \in Registered
      BY <3>2 DEF SafetyInv, RowsInv, QueueGood, SameCase, Registered
    <3>5. items'[esc.queue[i + 1].ref] = items[esc.queue[i + 1].ref]
      BY <2>10, <3>3, <3>4 DEF Writes
    <3>6. ASSUME NEW j \in DOMAIN Tail(esc.queue), i # j
          PROVE  Tail(esc.queue)[i].ref # Tail(esc.queue)[j].ref
      <4>1. j + 1 \in DOMAIN esc.queue /\ Tail(esc.queue)[j] = esc.queue[j + 1] /\ i + 1 # j + 1
        BY <2>3, <3>1, <3>6
      <4> QED BY <3>2, <4>1 DEF SerialRest, FreshQueue
    <3> QED BY <3>2, <3>3, <3>5, <3>6
  <2>19. FreshQueue'
    BY <2>17, <2>18 DEF FreshQueue
  <2> QED BY <1>4, <2>11, <2>16, <2>19 DEF SerialRest
<1> QED BY <1>6, <1>7, <1>8 DEF EscalationStep

LEMMA SerialStep ==
  ASSUME SafetyInv, SerialRest, [SerialNext]_vars
  PROVE  SafetyInv' /\ SerialRest' /\ Follows
<1>1. SafetyInv'
  <2>1. [Next]_vars
    BY DEF SerialNext, Next
  <2> QED BY <2>1, SafetyStep
<1> SUFFICES SerialRest' /\ Follows
  BY <1>1
<1>2. ASSUME UNCHANGED <<items, referrals, escalations, call, worker, esc>>
      PROVE  SerialRest' /\ Follows
  <2>1. Solo'
    BY <1>2 DEF SerialRest, Solo
  <2> QED BY <1>2, <2>1, TablesStand DEF SerialRest
<1>3. ASSUME NEW a \in Admins, BeginRule(a) \/ EndRule(a)
      PROVE  SerialRest' /\ Follows
  BY <1>2, <1>3 DEF BeginRule, EndRule, CreateRule, CreateRuleTx, CreateRuleFails, tables
<1>4. CASE Tick \/ UNCHANGED vars
  BY <1>2, <1>4 DEF Tick, vars, tables
<1>5. CASE Restart
  <2>1. /\ call' = [c \in Clients |-> {}] /\ worker' = IdleWorker /\ esc' = IdleEscalation
        /\ UNCHANGED <<items, referrals, escalations>>
    BY <1>5 DEF Restart, tables
  <2>2. Solo' /\ FreshCalls' /\ FreshPending' /\ FreshQueue'
    BY <2>1 DEF Solo, FreshCalls, FreshPending, FreshQueue, IdleWorker, IdleEscalation
  <2> QED BY <2>1, <2>2, TablesStand DEF SerialRest
<1>6. CASE Quiet /\ Begin
  <2>1. ASSUME NEW c \in Clients, NEW r \in Refs, BeginCall(c, r)
        PROVE  SerialRest' /\ Follows
    BY <1>6, <2>1, SerialBeginCall
  <2>2. CASE SweepVersion
    BY <1>6, <2>2, SerialSweep
  <2>3. CASE CheckAndEscalate
    BY <1>6, <2>3, SerialEscalation
  <2> QED BY <1>3, <1>6, <2>1, <2>2, <2>3 DEF Begin
<1>7. CASE Continue
  <2>1. ASSUME NEW c \in Clients, EndCall(c)
        PROVE  SerialRest' /\ Follows
    BY <2>1, SerialEndCall
  <2>2. CASE WorkerStep
    BY <2>2, SerialSweep
  <2>3. CASE EscalationStep
    BY <2>3, SerialEscalation
  <2> QED BY <1>3, <1>7, <2>1, <2>2, <2>3 DEF Continue
<1> QED BY <1>4, <1>5, <1>6, <1>7 DEF SerialNext

LEMMA SerialInit == Init => SafetyInv /\ SerialRest
<1> SUFFICES ASSUME Init PROVE SafetyInv /\ SerialRest
  OBVIOUS
<1>1. Solo /\ FreshCalls /\ FreshPending /\ FreshQueue
  BY DEF Init, Solo, FreshCalls, FreshPending, FreshQueue, IdleWorker, IdleEscalation
<1>2. TablesAgree
  BY DEF Init, TablesAgree, Registered
<1> QED BY <1>1, <1>2, SafetyInit DEF SerialRest

LEMMA SerialAlways == SerialSpec => []SerialInv
<1>1. SerialInv <=> SafetyInv /\ SerialRest
  BY DEF SerialInv, SerialRest
<1>2. SerialInv /\ [SerialNext]_vars => SerialInv'
  <2>1. SafetyInv /\ SerialRest /\ [SerialNext]_vars => SafetyInv' /\ SerialRest'
    BY SerialStep
  <2> QED BY <2>1 DEF SerialInv, SerialRest
<1> QED BY <1>1, <1>2, SerialInit, PTL DEF SerialSpec

\* One operation at a time, the current referral is the routing stored in the
\* case and the escalation records are the steps to its present level: a
\* disagreement of the tables needs two overlapping operations (Register,
\* reevaluateItem, escalateItem and updateItemWithAudit between them).
THEOREM TablesAgreeSerially == SerialSpec => []TablesAgree
<1>1. SerialInv => TablesAgree
  BY DEF SerialInv
<1> QED BY <1>1, SerialAlways, PTL

\* One operation at a time, the four services implement CaseLifecycle: each
\* committed change is a transition of the table, a readmission or one
\* escalation below the maximum level, and a closed case never changes.
THEOREM ServicesImplementLifecycle == SerialSpec => ImplementsLifecycle
<1>1. Init => Lifecycle!LifecycleInit
  BY DEF Init, Lifecycle!LifecycleInit, Registered
<1>2. SerialInv /\ [SerialNext]_vars => [Lifecycle!LifecycleNext]_(Lifecycle!lifecycle)
  <2> SUFFICES ASSUME SerialInv, [SerialNext]_vars
               PROVE  [Lifecycle!LifecycleNext]_(Lifecycle!lifecycle)
    OBVIOUS
  <2>1. Follows
    BY SerialStep DEF SerialInv, SerialRest
  <2> QED BY <2>1 DEF Follows, StatusOf, LevelOf, Lifecycle!lifecycle
<1> QED BY <1>1, <1>2, SerialAlways, PTL DEF SerialSpec, ImplementsLifecycle, Lifecycle!LifecycleSpec

=============================================================================
