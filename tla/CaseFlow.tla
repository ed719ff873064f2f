------------------------------ MODULE CaseFlow ------------------------------
(***************************************************************************)
(* The compliance-case workflow: the item service, the rule service, the   *)
(* escalation service run by the scheduler and the re-evaluation worker,   *)
(* all working at the same time on the tables of one SQLite index.         *)
(*                                                                         *)
(* Every operation of the code reads its rows outside a transaction,       *)
(* decides, and later writes the WHOLE row back in one transaction         *)
(* (store.WithTx) that does not look at the row again.  So an operation is *)
(* two steps here: the read computes the write and leaves it in flight,    *)
(* the transaction applies it.  Other processes may run in between.  The   *)
(* index has one connection (SetMaxOpenConns(1)), so a transaction is one  *)
(* atomic step and a failed one changes nothing in the index.              *)
(*                                                                         *)
(* An item is identified by its external_ref: the column is UNIQUE and     *)
(* items are never deleted, so ref and id name the same row.               *)
(***************************************************************************)
EXTENDS CaseDomain, FiniteSets

CONSTANTS
  Refs,                \* external references of cases
  Clients,             \* concurrent requests on cases
  Admins,              \* concurrent requests that create rules
  Departments,         \* lead departments named by rules
  RuleForms,           \* rule requests: [lead, priority, isDefault, category, keywords]
  Subjects,            \* registration requests: [category, keywords]
  Edits,               \* modification requests: [category, keywords], see Edited
  Ops,                 \* the case operations clients call
  MaxEscalationLevel,  \* scheduler.max_escalation_level
  DefaultDeadline,     \* time from registration to the deadline
  DeadlineExtension,   \* time an escalation adds, counted from the scan
  MaxTime,             \* bound: the clock stops here
  MaxVersion,          \* bound: highest rule version
  Cap                  \* bound: how often each audited action commits, per case

\* The audited actions on a case: those of clients and of the two daemons.
ClientActions == {"register", "start_processing", "modify", "return", "resubmit",
                  "cancel", "complete"}
Actions == ClientActions \cup {"escalate", "rule_reevaluated"}

ASSUME RefsAssumption  == IsFiniteSet(Refs)
ASSUME LevelAssumption == MaxEscalationLevel \in Nat \ {0}
ASSUME TimeAssumption  == /\ DefaultDeadline \in Nat \ {0}
                          /\ DeadlineExtension \in Nat \ {0}
                          /\ MaxTime \in Nat
ASSUME BoundAssumption == MaxVersion \in Nat /\ Cap \in [Actions -> Nat]
ASSUME FormAssumption  ==
  /\ RuleForms \subseteq [lead : Departments, priority : Nat, isDefault : BOOLEAN,
                          category : STRING, keywords : SUBSET STRING]
  /\ Subjects  \subseteq [category : STRING, keywords : SUBSET STRING]
  /\ Edits     \subseteq [category : STRING, keywords : SUBSET SUBSET STRING]
  /\ Ops       \subseteq ClientActions

VARIABLES
  now,          \* the clock
  items,        \* table items: ref -> row, for the registered refs
  rules,        \* table rules: version -> rule
  referrals,    \* table assignments, per ref in insertion order
  escalations,  \* table escalations, per ref in insertion order
  audits,       \* table audit_entries: number of entries per ref and action
  call,         \* per client, the write its request is about to commit
  draft,        \* per admin, the rule its request is about to commit
  worker,       \* the sweep of the re-evaluation worker
  esc           \* the run of the escalation task

tables == <<items, referrals, escalations, audits>>
vars   == <<now, items, rules, referrals, escalations, audits, call, draft, worker, esc>>

Lead     == [dept : Departments, chain : Seq(Nat)]
Row      == [status : Statuses, lead : Lead, ver : Nat, registeredAt : Nat,
             deadline : Nat, level : Nat, category : STRING,
             keywords : SUBSET STRING, completed : BOOLEAN, cancelled : BOOLEAN]
Rule     == [version : Nat, lead : Departments, priority : Nat, isDefault : BOOLEAN,
             category : STRING, keywords : SUBSET STRING, effectiveFrom : Nat,
             status : {"active", "superseded"}]
Referral   == [lead : Lead, ver : Nat, current : BOOLEAN]
Escalation == [from : Nat, to : Nat]

\* A write in flight: the row as it was read and then changed in memory.
Write     == [ref : Refs, row : Row]
Call      == [ref : Refs, row : Row, op : ClientActions]
Draft     == [rule : Rule, supersede : Nat]

-----------------------------------------------------------------------------
(***************************************************************************)
(* The queries of the index.                                               *)
(***************************************************************************)
Registered == DOMAIN items

\* SELECT COALESCE(MAX(version), 0) FROM rules
GetCurrentRuleVersion ==
  CHOOSE v \in DOMAIN rules \cup {0} : \A u \in DOMAIN rules : u <= v

GetActiveRules(at) == {rules[v] : v \in {u \in DOMAIN rules : IsActiveAt(rules[u], at)}}

\* Deliberate fault: <= in place of < on the level.
IsOverdueRowOffByOne(row, at) == /\ ~ IsTerminal(row.status)
                                 /\ row.deadline < at
                                 /\ row.level <= MaxEscalationLevel

IsOverdueRow(row, at) == /\ ~ IsTerminal(row.status)
                         /\ row.deadline < at
                         /\ row.level < MaxEscalationLevel

\* Deliberate fault: only cases nobody has started are found.
FindOverdueItemsNotStarted(at) ==
  {r \in Registered : IsOverdueRow(items[r], at) /\ items[r].status = "adjudicated"}

FindOverdueItems(at) == {r \in Registered : IsOverdueRow(items[r], at)}

(***************************************************************************)
(* The statements of a transaction.                                        *)
(***************************************************************************)
Upsert(table, key, val) ==
  [k \in DOMAIN table \cup {key} |-> IF k = key THEN val ELSE table[k]]

\* Deliberate fault: DELETE of the old referrals in place of the UPDATE.
MarkAssignmentDeleted(list) == <<>>

MarkAssignmentSuperseded(list) ==
  [i \in DOMAIN list |-> [list[i] EXCEPT !.current = FALSE]]

\* INSERT of the referral that goes with the row being written.
SaveAssignment(list, row) ==
  Append(list, [lead |-> row.lead, ver |-> row.ver, current |-> TRUE])

SaveAudit(r, action) ==
  /\ audits[r][action] < Cap[action]
  /\ audits' = [audits EXCEPT ![r][action] = @ + 1]

-----------------------------------------------------------------------------
(***************************************************************************)
(* Case operations, first half: read the row, validate, change it in       *)
(* memory.  A request that finds no row, an illegal transition or no       *)
(* matching rule returns an error and changes nothing: it is no step.      *)
(***************************************************************************)
InFlight(c, op, r, row) ==
  /\ op \in Ops /\ audits[r][op] < Cap[op]
  /\ call[c] = {}
  /\ call' = [call EXCEPT ![c] = {[ref |-> r, row |-> row, op |-> op]}]
  /\ UNCHANGED <<now, tables, rules, draft, worker, esc>>

\* A case whose external_ref is known is returned as it is.
NewItem(subject) ==
  [registeredAt |-> now, deadline |-> now + DefaultDeadline, level |-> 0,
   category |-> subject.category, keywords |-> subject.keywords,
   completed |-> FALSE, cancelled |-> FALSE]

Routed(item, rule, status) ==
  [status |-> status, lead |-> Department(rule.lead), ver |-> rule.version,
   registeredAt |-> item.registeredAt, deadline |-> item.deadline,
   level |-> item.level, category |-> item.category, keywords |-> item.keywords,
   completed |-> item.completed, cancelled |-> item.cancelled]

Register(c, r, subject) ==
  /\ r \notin Registered
  /\ \E rule \in Adjudicate(NewItem(subject), GetActiveRules(now)) :
       InFlight(c, "register", r, Routed(NewItem(subject), rule, "adjudicated"))

StartProcessing(c, r) ==
  /\ r \in Registered
  /\ ValidateTransition(items[r].status, "in_progress")
  /\ InFlight(c, "start_processing", r, [items[r] EXCEPT !.status = "in_progress"])

\* An empty category and an absent keyword list leave the field alone; an
\* absent list is {} and a given one the singleton of its set of keywords.
Edited(row, edit) ==
  [row EXCEPT !.category = IF edit.category = "" THEN @ ELSE edit.category,
              !.keywords = IF edit.keywords = {} THEN @ ELSE UNION edit.keywords]

Modify(c, r, edit) ==
  /\ r \in Registered
  /\ ~ IsTerminal(items[r].status)
  /\ InFlight(c, "modify", r, Edited(items[r], edit))

\* Deliberate fault: the terminal check of Modify in place of TransitionTo.
ReturnUnlessTerminal(c, r) ==
  /\ r \in Registered
  /\ ~ IsTerminal(items[r].status)
  /\ InFlight(c, "return", r, [items[r] EXCEPT !.status = "returned"])

ReturnForCorrection(c, r) ==
  /\ r \in Registered
  /\ ValidateTransition(items[r].status, "returned")
  /\ InFlight(c, "return", r, [items[r] EXCEPT !.status = "returned"])

Resubmit(c, r) ==
  /\ r \in Registered
  /\ ValidateTransition(items[r].status, "registered")
  /\ ValidateTransition("registered", "adjudicated")
  /\ InFlight(c, "resubmit", r, [items[r] EXCEPT !.status = "adjudicated"])

Cancel(c, r) ==
  /\ r \in Registered
  /\ ValidateTransition(items[r].status, "cancelled")
  /\ InFlight(c, "cancel", r, [items[r] EXCEPT !.status = "cancelled", !.cancelled = TRUE])

\* Deliberate fault: the same confusion in Complete.
CompleteUnlessTerminal(c, r) ==
  /\ r \in Registered
  /\ ~ IsTerminal(items[r].status)
  /\ InFlight(c, "complete", r, [items[r] EXCEPT !.status = "completed", !.completed = TRUE])

Complete(c, r) ==
  /\ r \in Registered
  /\ ValidateTransition(items[r].status, "completed")
  /\ InFlight(c, "complete", r, [items[r] EXCEPT !.status = "completed", !.completed = TRUE])

(***************************************************************************)
(* Case operations, second half: the transaction.                          *)
(***************************************************************************)
\* Deliberate fault: external_ref is not UNIQUE.
RegisterTxNotUnique(c) ==
  \E w \in call[c] :
    /\ w.op = "register"
    /\ audits' = [audits EXCEPT ![w.ref][w.op] = @ + 1]
    /\ items' = Upsert(items, w.ref, w.row)
    /\ referrals' = [referrals EXCEPT ![w.ref] = SaveAssignment(@, w.row)]
    /\ call' = [call EXCEPT ![c] = {}]
    /\ UNCHANGED <<now, rules, escalations, draft, worker, esc>>

\* INSERT of the item (external_ref is UNIQUE), its referral and its audit.
RegisterTx(c) ==
  \E w \in call[c] :
    /\ w.op = "register"
    /\ w.ref \notin Registered
    /\ SaveAudit(w.ref, w.op)
    /\ items' = Upsert(items, w.ref, w.row)
    /\ referrals' = [referrals EXCEPT ![w.ref] = SaveAssignment(@, w.row)]
    /\ call' = [call EXCEPT ![c] = {}]
    /\ UNCHANGED <<now, rules, escalations, draft, worker, esc>>

\* UPDATE of every column of the row, whatever the row holds by now.
UpdateItemWithAudit(c) ==
  \E w \in call[c] :
    /\ w.op # "register"
    /\ SaveAudit(w.ref, w.op)
    /\ items' = [items EXCEPT ![w.ref] = w.row]
    /\ call' = [call EXCEPT ![c] = {}]
    /\ UNCHANGED <<now, rules, referrals, escalations, draft, worker, esc>>

\* The transaction is rolled back (a constraint, an I/O error, a cancelled
\* request context): the client gets an error, the index is unchanged.
CallFails(c) ==
  /\ call[c] # {}
  /\ call' = [call EXCEPT ![c] = {}]
  /\ UNCHANGED <<now, tables, rules, draft, worker, esc>>

-----------------------------------------------------------------------------
(***************************************************************************)
(* Rule creation: the next version is read first and inserted later, as a  *)
(* primary key.  SupersedeRule is an UPDATE that may match no row.         *)
(***************************************************************************)
CreateRule(a, form, supersede) ==
  /\ draft[a] = {}
  /\ GetCurrentRuleVersion < MaxVersion
  /\ draft' = [draft EXCEPT ![a] =
       {[supersede |-> supersede,
         rule |-> [version |-> GetCurrentRuleVersion + 1, lead |-> form.lead,
                   priority |-> form.priority, isDefault |-> form.isDefault,
                   category |-> form.category, keywords |-> form.keywords,
                   effectiveFrom |-> now, status |-> "active"]]}]
  /\ UNCHANGED <<now, tables, rules, call, worker, esc>>

\* Deliberate fault: the superseded rule is deleted.
SupersedeRuleDeletes(table, version) ==
  [v \in DOMAIN table \ {version} |-> table[v]]

SupersedeRule(table, version) ==
  [v \in DOMAIN table |-> IF v = version THEN [table[v] EXCEPT !.status = "superseded"]
                                         ELSE table[v]]

CreateRuleTx(a) ==
  \E d \in draft[a] :
    /\ d.rule.version \notin DOMAIN rules
    /\ rules' = Upsert(SupersedeRule(rules, d.supersede), d.rule.version, d.rule)
    /\ draft' = [draft EXCEPT ![a] = {}]
    /\ UNCHANGED <<now, tables, call, worker, esc>>

\* The transaction is rolled back, in particular when the version is taken.
CreateRuleFails(a) ==
  /\ draft[a] # {}
  /\ draft' = [draft EXCEPT ![a] = {}]
  /\ UNCHANGED <<now, tables, rules, call, worker, esc>>

-----------------------------------------------------------------------------
(***************************************************************************)
(* The sweep of the re-evaluation worker.  runMu admits one sweep at a     *)
(* time, a second RunOnce returns at once.                                 *)
(***************************************************************************)
IdleWorker == [pc |-> "idle", current |-> 0, rules |-> {}, stale |-> {}, pending |-> {}]

\* A sweep with no rules in the table ends here.
SweepVersion ==
  /\ worker.pc = "idle"
  /\ GetCurrentRuleVersion # 0
  /\ worker' = [worker EXCEPT !.pc = "rules", !.current = GetCurrentRuleVersion]
  /\ UNCHANGED <<now, tables, rules, call, draft, esc>>

SweepRules ==
  /\ worker.pc = "rules"
  /\ worker' = [worker EXCEPT !.pc = "collect", !.rules = GetActiveRules(now)]
  /\ UNCHANGED <<now, tables, rules, call, draft, esc>>

CollectStaleItems ==
  LET stale == {r \in Registered : /\ items[r].status \in ReevaluableStatuses
                                   /\ items[r].ver < worker.current}
  IN  /\ worker.pc = "collect"
      /\ worker' = IF stale = {} THEN IdleWorker
                                 ELSE [worker EXCEPT !.pc = "sweep", !.stale = stale]
      /\ UNCHANGED <<now, tables, rules, call, draft, esc>>

\* What the re-read of one collected item leads to: nothing, when it is up to
\* date, no longer re-evaluable or matches no rule, or the row to write.
Reevaluated(r) ==
  LET fresh  == items[r]
      chosen == Adjudicate(fresh, worker.rules)
  IN  IF fresh.ver >= worker.current \/ fresh.status \notin ReevaluableStatuses
      THEN {}
      ELSE {[ref |-> r, row |-> Routed(fresh, rule, "adjudicated")] : rule \in chosen}

ReevalLoad(r) ==
  /\ worker.pc = "sweep" /\ worker.pending = {} /\ r \in worker.stale
  /\ worker' = [worker EXCEPT !.stale = @ \ {r}, !.pending = Reevaluated(r)]
  /\ UNCHANGED <<now, tables, rules, call, draft, esc>>

\* Deliberate fault: the old referral is not superseded.
ReevalTxKeepsOldReferral ==
  \E w \in worker.pending :
    /\ SaveAudit(w.ref, "rule_reevaluated")
    /\ referrals' = [referrals EXCEPT ![w.ref] = SaveAssignment(@, w.row)]
    /\ items' = [items EXCEPT ![w.ref] = w.row]
    /\ worker' = [worker EXCEPT !.pending = {}]
    /\ UNCHANGED <<now, rules, escalations, call, draft, esc>>

\* Deliberate fault: the row itself is not updated.
ReevalTxForgetsItem ==
  \E w \in worker.pending :
    /\ SaveAudit(w.ref, "rule_reevaluated")
    /\ referrals' = [referrals EXCEPT
                       ![w.ref] = SaveAssignment(MarkAssignmentSuperseded(@), w.row)]
    /\ worker' = [worker EXCEPT !.pending = {}]
    /\ UNCHANGED <<now, items, rules, escalations, call, draft, esc>>

ReevalTx ==
  \E w \in worker.pending :
    /\ SaveAudit(w.ref, "rule_reevaluated")
    /\ referrals' = [referrals EXCEPT
                       ![w.ref] = SaveAssignment(MarkAssignmentSuperseded(@), w.row)]
    /\ items' = [items EXCEPT ![w.ref] = w.row]
    /\ worker' = [worker EXCEPT !.pending = {}]
    /\ UNCHANGED <<now, rules, escalations, call, draft, esc>>

\* The reload or the transaction fails: it is counted, the sweep goes on.
ReevalFails ==
  /\ worker.pending # {}
  /\ worker' = [worker EXCEPT !.pending = {}]
  /\ UNCHANGED <<now, tables, rules, call, draft, esc>>

\* The sweep is done, or a read fails, or its context is cancelled or times
\* out between two items.
SweepEnds ==
  /\ worker.pc # "idle" /\ worker.pending = {}
  /\ worker' = IdleWorker
  /\ UNCHANGED <<now, tables, rules, call, draft, esc>>

-----------------------------------------------------------------------------
(***************************************************************************)
(* The escalation task: one scan, then one transaction per scanned row, in *)
(* the order of the deadlines.  The row written is the scanned one.        *)
(***************************************************************************)
IdleEscalation == [at |-> 0, queue |-> <<>>]

\* ORDER BY deadline ASC, in any order among equal deadlines.
ByDeadline(S) ==
  {q \in [1 .. Cardinality(S) -> S] :
     \A i, j \in DOMAIN q : i < j => /\ q[i] # q[j]
                                     /\ items[q[i]].deadline <= items[q[j]].deadline}

CheckAndEscalate ==
  /\ esc.queue = <<>> /\ FindOverdueItems(now) # {}
  /\ \E q \in ByDeadline(FindOverdueItems(now)) :
       esc' = [at    |-> now,
               queue |-> [i \in DOMAIN q |-> [ref |-> q[i], row |-> items[q[i]]]]]
  /\ UNCHANGED <<now, tables, rules, call, draft, worker>>

\* Deliberate fault: the name is built from the old level.
EscalatedWithOldLevel(row, at) ==
  [row EXCEPT !.level    = @ + 1,
              !.lead     = EscalationDepartmentName(@, row.level),
              !.deadline = at + DeadlineExtension,
              !.status   = "escalated"]

\* Deliberate fault: the audit action's name is stored as the status.
EscalatedWithActionName(row, at) ==
  [row EXCEPT !.level    = @ + 1,
              !.lead     = EscalationDepartmentName(@, row.level + 1),
              !.deadline = at + DeadlineExtension,
              !.status   = "escalate"]

Escalated(row, at) ==
  [row EXCEPT !.level    = @ + 1,
              !.lead     = EscalationDepartmentName(@, row.level + 1),
              !.deadline = at + DeadlineExtension,
              !.status   = "escalated"]

\* newLevel > maxLevel (a permanent failure) cannot happen: the scan returns
\* rows below the maximum only, which EscalationQueueBelowMax checks.
EscalateItem ==
  /\ esc.queue # <<>>
  /\ LET w   == Head(esc.queue)
         row == Escalated(w.row, esc.at)
     IN  /\ ValidateTransition(w.row.status, "escalated")
         /\ SaveAudit(w.ref, "escalate")
         /\ escalations' = [escalations EXCEPT
                              ![w.ref] = Append(@, [from |-> w.row.level, to |-> row.level])]
         /\ referrals' = [referrals EXCEPT
                            ![w.ref] = SaveAssignment(MarkAssignmentSuperseded(@), row)]
         /\ items' = [items EXCEPT ![w.ref] = row]
  /\ esc' = [esc EXCEPT !.queue = Tail(@)]
  /\ UNCHANGED <<now, rules, call, draft, worker>>

\* The first row that cannot be escalated (its transition is illegal, its
\* transaction fails, the task times out) ends the run for all the others.
EscalationAborts ==
  /\ esc.queue # <<>>
  /\ esc' = IdleEscalation
  /\ UNCHANGED <<now, tables, rules, call, draft, worker>>

-----------------------------------------------------------------------------
Tick ==
  /\ now < MaxTime
  /\ now' = now + 1
  /\ UNCHANGED <<tables, rules, call, draft, worker, esc>>

Quiet == /\ \A c \in Clients : call[c] = {}
         /\ \A a \in Admins  : draft[a] = {}
         /\ worker = IdleWorker
         /\ esc.queue = <<>>

\* The server stops, in any state, and starts again: the index keeps what was
\* committed, everything in flight is gone.
Restart ==
  /\ ~ Quiet
  /\ call'   = [c \in Clients |-> {}]
  /\ draft'  = [a \in Admins |-> {}]
  /\ worker' = IdleWorker
  /\ esc'    = IdleEscalation
  /\ UNCHANGED <<now, tables, rules>>

Init ==
  /\ now         = 0
  /\ items       = [r \in {} |-> {}]
  /\ rules       = [v \in {} |-> {}]
  /\ referrals   = [r \in Refs |-> <<>>]
  /\ escalations = [r \in Refs |-> <<>>]
  /\ audits      = [r \in Refs |-> [a \in Actions |-> 0]]
  /\ call        = [c \in Clients |-> {}]
  /\ draft       = [a \in Admins |-> {}]
  /\ worker      = IdleWorker
  /\ esc         = IdleEscalation

\* The steps that begin an operation (a handler of the HTTP API is one call of
\* a service) and the steps that carry one on.
BeginCall(c, r) == \/ \E subject \in Subjects : Register(c, r, subject)
                   \/ \E edit \in Edits : Modify(c, r, edit)
                   \/ StartProcessing(c, r) \/ ReturnForCorrection(c, r) \/ Resubmit(c, r)
                   \/ Cancel(c, r) \/ Complete(c, r)
BeginRule(a)    == \E form \in RuleForms, v \in 0 .. MaxVersion : CreateRule(a, form, v)
Begin           == \/ \E c \in Clients, r \in Refs : BeginCall(c, r)
                   \/ \E a \in Admins : BeginRule(a)
                   \/ SweepVersion
                   \/ CheckAndEscalate

EndCall(c)      == RegisterTx(c) \/ UpdateItemWithAudit(c) \/ CallFails(c)
EndRule(a)      == CreateRuleTx(a) \/ CreateRuleFails(a)
WorkerStep      == \/ SweepRules \/ CollectStaleItems \/ ReevalTx \/ ReevalFails \/ SweepEnds
                   \/ \E r \in Refs : ReevalLoad(r)
EscalationStep  == EscalateItem \/ EscalationAborts
Continue        == \/ \E c \in Clients : EndCall(c)
                   \/ \E a \in Admins : EndRule(a)
                   \/ WorkerStep
                   \/ EscalationStep

Next == Begin \/ Continue \/ Tick \/ Restart
Spec == Init /\ [][Next]_vars

(***************************************************************************)
(* The same system with operations that never overlap: one begins only     *)
(* when none is in flight.                                                 *)
(***************************************************************************)
SerialNext == (Quiet /\ Begin) \/ Continue \/ Tick \/ Restart
SerialSpec == Init /\ [][SerialNext]_vars

(***************************************************************************)
(* Fairness of the scheduler: its ticker fires again and again, a started  *)
(* task goes on, and a task that keeps coming back to a row it can         *)
(* escalate does not run into an error or a timeout every single time.     *)
(***************************************************************************)
Fairness == /\ WF_vars(CheckAndEscalate)
            /\ WF_vars(EscalationStep)
            /\ SF_vars(EscalateItem)
FairSpec == Spec /\ Fairness

-----------------------------------------------------------------------------
(***************************************************************************)
(* Properties of every interleaving.                                       *)
(***************************************************************************)

\* Every table and every write in flight is well formed.
TypeOK ==
  /\ now \in 0 .. MaxTime
  /\ Registered \subseteq Refs /\ items \in [Registered -> Row]
  /\ DOMAIN rules \subseteq Nat /\ rules \in [DOMAIN rules -> Rule]
  /\ referrals \in [Refs -> Seq(Referral)]
  /\ escalations \in [Refs -> Seq(Escalation)]
  /\ audits \in [Refs -> [Actions -> Nat]]
  /\ call \in [Clients -> SUBSET Call]
  /\ draft \in [Admins -> SUBSET Draft]
  /\ worker \in [pc : {"idle", "rules", "collect", "sweep"}, current : Nat,
                 rules : SUBSET Rule, stale : SUBSET Refs, pending : SUBSET Write]
  /\ esc \in [at : Nat, queue : Seq(Write)]

\* The supervisor suffixes that escalations up to a level leave on a name.
EscalatedLead(dept, level) == [dept |-> dept, chain |-> [i \in 1 .. level |-> i]]

RowRouted(row, table) ==
  /\ row.ver \in DOMAIN table
  /\ row.lead = EscalatedLead(table[row.ver].lead, row.level)
  /\ table[row.ver].effectiveFrom <= row.registeredAt

\* Whatever stale rows the operations write over each other, the lead of a
\* case is the department of the rule its rule_version names, carrying one
\* supervisor suffix per escalation level and no other, and that rule was in
\* force when the case was registered (Adjudicate, escalateItem,
\* reevaluateItem and updateItemWithAudit between them).
RoutedByItsRule == \A r \in Registered : RowRouted(items[r], rules)

RowCoherent(row) ==
  /\ row.status # "registered"
  /\ row.level <= MaxEscalationLevel
  /\ row.status \in {"adjudicated", "returned"} => row.level = 0
  /\ row.status = "escalated" => row.level > 0
  /\ row.completed <=> row.status = "completed"
  /\ row.cancelled <=> row.status = "cancelled"

\* A stored case is never half-way through a transition: it is not left
\* "registered" by Resubmit, an escalated case is never sent back to be
\* corrected or re-routed, the level stays within max_escalation_level, and
\* completed_at and cancelled_at are set exactly when the status says so,
\* never both, also when Complete and Cancel race.
StoredRowsCoherent == \A r \in Registered : RowCoherent(items[r])

\* A registered case has exactly one current referral and it is the newest
\* one, although Register, EscalateItem and ReevalTx supersede and insert
\* without reading the table; an unregistered reference has none.
OneCurrentReferral ==
  \A r \in Refs :
    /\ r \in Registered <=> referrals[r] # <<>>
    /\ \A i \in DOMAIN referrals[r] : referrals[r][i].current <=> i = Len(referrals[r])

\* The versions in the rule table have no gap and no duplicate, although
\* CreateRule reads MAX(version) in one step and inserts in a later one.
RuleVersionsContiguous == DOMAIN rules = 1 .. GetCurrentRuleVersion

\* A new case is routed by exactly one rule as soon as any active rule
\* matches it, and by none otherwise, whatever rules racing administrators
\* have created and superseded ("adjudicates a unique lead agency for every
\* cross-agency government service item", eval_README.md:4).
UniqueLead ==
  \A subject \in Subjects :
    LET item == NewItem(subject)
    IN  Cardinality(Adjudicate(item, GetActiveRules(now)))
          = IF \E v \in DOMAIN rules : IsActiveAt(rules[v], now) /\ Matches(rules[v], item)
            THEN 1 ELSE 0

\* The audit trail accounts for the tables: a case was registered once, has
\* one referral per registration, escalation and re-evaluation, and one
\* escalation record per audited escalation.
AuditLedger ==
  \A r \in Refs :
    /\ audits[r]["register"] = IF r \in Registered THEN 1 ELSE 0
    /\ Len(escalations[r]) = audits[r]["escalate"]
    /\ Len(referrals[r]) = audits[r]["register"] + audits[r]["escalate"]
                             + audits[r]["rule_reevaluated"]

\* Every row waiting to be escalated is below the maximum level, so the
\* ErrMaxEscalationReached branch of CheckAndEscalate is never taken, and
\* every recorded escalation is a single level within the maximum.
EscalationQueueBelowMax ==
  /\ \A i \in DOMAIN esc.queue : esc.queue[i].row.level < MaxEscalationLevel
  /\ \A r \in Refs : \A i \in DOMAIN escalations[r] :
       /\ escalations[r][i].to = escalations[r][i].from + 1
       /\ escalations[r][i].to <= MaxEscalationLevel

\* History is kept: no step removes a case, changes when it was registered,
\* drops or rewrites an old referral or makes a superseded one current again,
\* or changes what a rule says or revives a superseded rule ("old records
\* keep their original semantics", internal/worker/worker.go:39).
HistoryKept ==
  [][/\ \A r \in Registered : /\ r \in Registered'
                              /\ items'[r].registeredAt = items[r].registeredAt
     /\ \A r \in Refs : \A i \in DOMAIN referrals[r] :
          /\ i \in DOMAIN referrals'[r]
          /\ referrals'[r][i].lead = referrals[r][i].lead
          /\ referrals'[r][i].ver = referrals[r][i].ver
          /\ referrals'[r][i].current => referrals[r][i].current
     /\ \A v \in DOMAIN rules :
          /\ v \in DOMAIN rules'
          /\ rules'[v] \in {rules[v], [rules[v] EXCEPT !.status = "superseded"]}]_vars

-----------------------------------------------------------------------------
(***************************************************************************)
(* Properties of operations that do not overlap (SerialSpec).              *)
(***************************************************************************)
Lifecycle == INSTANCE CaseLifecycle
  WITH Cases    <- Refs,
       MaxLevel <- MaxEscalationLevel,
       status   <- [r \in Refs |-> IF r \in Registered THEN items[r].status ELSE "none"],
       level    <- [r \in Refs |-> IF r \in Registered THEN items[r].level ELSE 0]

\* With one operation at a time the four services together implement the
\* lifecycle of CaseLifecycle: every committed change is a legal transition,
\* levels only rise, outcomes are final.
ImplementsLifecycle == Lifecycle!LifecycleSpec

\* With one operation at a time the current referral is the routing stored in
\* the case itself, and the escalation records are exactly the steps from
\* level 0 to its present level.
TablesAgree ==
  \A r \in Registered :
    LET last == referrals[r][Len(referrals[r])]
    IN  /\ last.lead = items[r].lead /\ last.ver = items[r].ver
        /\ escalations[r] = [i \in 1 .. items[r].level |-> [from |-> i - 1, to |-> i]]

-----------------------------------------------------------------------------
(***************************************************************************)
(* What the repository says that not every interleaving keeps.             *)
(***************************************************************************)

\* A completed or cancelled case rejects every other status
\* (TestStateMachine_TerminalStatesReject).
TerminalIsFinal ==
  [][\A r \in Registered : IsTerminal(items[r].status) => items'[r].status = items[r].status]_vars

\* Every overdue case that the table lets escalate is escalated in the end,
\* or finished, or sent back.  What can keep it overdue for good is a returned
\* case that fell due no later: CheckAndEscalate takes overdue cases in the
\* order of their deadlines and ends its run at the first that may not be
\* escalated.
Escalatable(r) == /\ r \in Registered
                  /\ IsOverdueRow(items[r], now)
                  /\ ValidateTransition(items[r].status, "escalated")
Blocked(r)     == r \in Registered /\ \E q \in Registered :
                    /\ IsOverdueRow(items[q], now) /\ items[q].deadline <= items[r].deadline
                    /\ ~ ValidateTransition(items[q].status, "escalated")
OverdueEscalates == \A r \in Refs : <>[]Escalatable(r) => []<>Blocked(r)
=============================================================================
