----------------------------- MODULE RepoStore ------------------------------
(***************************************************************************)
(* The persistence layer: JSONL event shards plus a SQLite index           *)
(* (internal/repo, internal/shard, internal/index).                        *)
(*                                                                         *)
(* Every statement of a transaction that stores an entity first appends    *)
(* the entity to a shard file and then changes the index inside the        *)
(* transaction.  Rolling back undoes the second and never the first.       *)
(* RebuildIndex reads the shards back, file by file in the order of their  *)
(* dates, last record of a key wins, and replaces the index in one         *)
(* transaction of its own.  A file that cannot be read is passed over.     *)
(*                                                                         *)
(* A request is numbered; its number stands for the UUIDs it draws and for *)
(* the content it writes.  Every table has rows of one shape: what the row *)
(* is about (an external_ref, a case, a superseded rule version), the      *)
(* content, and live (is_current of a referral, status of a rule).         *)
(***************************************************************************)
EXTENDS Naturals, Sequences, FiniteSets, FiniteSetsExt

CONSTANTS
  Refs,           \* external references of cases
  Clients,        \* concurrent requests
  Ops,            \* the kinds of request that occur
  ShardMax,       \* storage.shard_max_size, in records; 0 = no rotation
  Faults,         \* the failures that occur: "write", "torn", "crash", "lose_index"
  MaxRequests,    \* bound: number of requests
  MaxDay,         \* bound: days on which shards are written
  MaxRebuilds,    \* bound: runs of rebuild-index
  MaxUnread,      \* bound: files that one pass over the shards fails to read
  Unreadable      \* bound: types of the files that may fail to be read

Types == {"items", "rules", "assignments", "escalations", "audit", "batches", "failures"}

ASSUME StoreAssumption ==
  /\ ShardMax \in Nat /\ MaxRequests \in Nat /\ MaxDay \in Nat \ {0}
  /\ MaxRebuilds \in Nat /\ MaxUnread \in Nat /\ Unreadable \subseteq Types
  /\ Ops \subseteq {"register", "update", "escalate", "reeval", "rule", "batch", "failure", "retry"}
  /\ Faults \subseteq {"write", "torn", "crash", "lose_index"}

VARIABLES
  index,      \* type -> key -> row: the committed tables of index.db
  shards,     \* type -> records in the order they were appended
  manifest,   \* table shard_manifest: type -> day -> [lines, size, status] of that file
  pending,    \* client -> the transaction its request is about to run
  tx,         \* the open transaction: the index has one connection
  scan,       \* what rebuild-index has collected from the shards
  day,        \* the date that names the shard files
  requests,   \* number of requests so far
  rebuilds,   \* number of rebuilds so far
  committed,  \* history: the requests whose transaction committed
  lost,       \* history: index.db was lost and has not been rebuilt since
  raced,      \* history: the last rebuild stored a scan older than the shards
  skipped     \* history: the records <<type, i>> in files the last rebuild could not read

vars == <<index, shards, manifest, pending, tx, scan, day, requests, rebuilds,
          committed, lost, raced, skipped>>

Empty     == [t \in Types |-> <<>>]
Absent    == [lines |-> 0, size |-> 0, status |-> "absent"]
NoRecords == [t \in Types |-> [d \in 1 .. MaxDay |-> Absent]]

-----------------------------------------------------------------------------
(***************************************************************************)
(* Statements of a transaction.  A Save files its record by the entity's   *)
(* own timestamp, which the request took before the transaction; an Update *)
(* files it by the clock.                                                  *)
(***************************************************************************)
Content(about, n) == [about |-> about, val |-> n, live |-> TRUE]

InsertOf(type, key, row, d) ==
  [stmt |-> "insert", type |-> type, key |-> key, row |-> row, day |-> d]

Insert(type, key, row) == InsertOf(type, key, row, day)
Update(type, key, row) == [stmt |-> "update", type |-> type, key |-> key, row |-> row]
SaveAudit(n, about)    == Insert("audit", <<n, about>>, Content(about, n))
MarkAssignmentSuperseded(id) == [stmt |-> "retire_referrals", key |-> id]
SupersedeRule(version)       == [stmt |-> "supersede_rule", key |-> version]

\* Deliberate fault: an update changes the index only.
AppendsInserts(s) == s.stmt = "insert"

Appends(s) == s.stmt \in {"insert", "update"}

FilingDay(s) == IF s.stmt = "insert" THEN s.day ELSE day

\* PRIMARY KEY and UNIQUE(external_ref) for an INSERT, RowsAffected for an
\* UPDATE that has to find its row.
Accepted(tables, s) ==
  /\ s.stmt = "insert" =>
       /\ s.key \notin DOMAIN tables[s.type]
       /\ s.type = "items" => \A k \in DOMAIN tables["items"] :
                                 tables["items"][k].about # s.row.about
  /\ s.stmt = "update" => s.key \in DOMAIN tables[s.type]

With(table, key, row) ==
  [k \in DOMAIN table \cup {key} |-> IF k = key THEN row ELSE table[k]]

Retired(table, keys) ==
  [k \in DOMAIN table |-> IF k \in keys THEN [table[k] EXCEPT !.live = FALSE] ELSE table[k]]

ReferralsOf(table, ids) == {k \in DOMAIN table : table[k].about \in ids}

Executed(tables, s) ==
  CASE s.stmt \in {"insert", "update"} ->
         [tables EXCEPT ![s.type] = With(@, s.key, s.row)]
    [] s.stmt = "retire_referrals" ->
         [tables EXCEPT !["assignments"] = Retired(@, ReferralsOf(@, {s.key}))]
    [] s.stmt = "supersede_rule" ->
         [tables EXCEPT !["rules"] = Retired(@, {s.key})]

(***************************************************************************)
(* The transactions of the services, as sequences of statements.  They are *)
(* drawn up from what the request read before the transaction.             *)
(***************************************************************************)
Rewritten(type, id, n) == Update(type, id, [index[type][id] EXCEPT !.val = n])
Referral(id, n)        == Insert("assignments", n, Content(id, n))

Unknown(r) == \A k \in DOMAIN index["items"] : index["items"][k].about # r
Cases      == DOMAIN index["items"]

RegisterPlans(n) ==
  {<<Insert("items", n, Content(r, n)), Referral(n, n), SaveAudit(n, 0)>> :
     r \in {q \in Refs : Unknown(q)}}

UpdatePlans(n) == {<<Rewritten("items", id, n), SaveAudit(n, 0)>> : id \in Cases}

EscalatePlans(n) ==
  {<<Insert("escalations", n, Content(id, n)), MarkAssignmentSuperseded(id),
     Referral(id, n), Rewritten("items", id, n), SaveAudit(n, 0)>> : id \in Cases}

ReevalPlans(n) ==
  {<<MarkAssignmentSuperseded(id), Referral(id, n), Rewritten("items", id, n),
     SaveAudit(n, 0)>> : id \in Cases}

\* SupersedeVersion is not looked up: any version may be superseded and audited.
RulePlans(n) ==
  LET version == Max(DOMAIN index["rules"] \cup {0}) + 1
      create  == <<Insert("rules", version, Content(0, n)), SaveAudit(n, 0)>>
  IN  {create} \cup {<<SupersedeRule(v), SaveAudit(n, v)>> \o create :
                        v \in 1 .. MaxRequests}

BatchPlans(n) == {<<Insert("batches", n, Content(0, n)), SaveAudit(n, 0)>>}

\* FirstFailedAt lies before the request, by backoffs or by the case's age.
FailurePlans(n) == {<<InsertOf("failures", n, Content(0, n), d)>> : d \in 1 .. day}

RetryPlans(n)   == {<<Rewritten("failures", id, n), SaveAudit(n, 0)>> :
                      id \in DOMAIN index["failures"]}

Plans(n) ==
  [register |-> RegisterPlans(n), update |-> UpdatePlans(n), escalate |-> EscalatePlans(n),
   reeval |-> ReevalPlans(n), rule |-> RulePlans(n), batch |-> BatchPlans(n),
   failure |-> FailurePlans(n), retry |-> RetryPlans(n)]

-----------------------------------------------------------------------------
(***************************************************************************)
(* The shard files.  A record lies in the file of its day or, once that    *)
(* file is full, in a rotated one ("<date>.jsonl_001").  A write that      *)
(* stops half-way leaves a torn line without a newline, and the next       *)
(* record of the file is glued to it.                                      *)
(***************************************************************************)
Records(type) == DOMAIN shards[type]

\* The records of the file "<day>.jsonl", without those of its rotated files.
File(type, d) == {i \in Records(type) : shards[type][i].day = d /\ ~ shards[type][i].rotated}

rotateIfNeeded(type, d) == ShardMax > 0 /\ Cardinality(File(type, d)) >= ShardMax

AfterTorn(type, d) == File(type, d) # {} /\ shards[type][Max(File(type, d))].torn

Line(s, n, torn) ==
  LET d == FilingDay(s)
  IN  [key |-> s.key, row |-> s.row, req |-> n, day |-> d, torn |-> torn,
       rotated |-> rotateIfNeeded(s.type, d), glued |-> AfterTorn(s.type, d)]

Appended(s, n, torn) == [shards EXCEPT ![s.type] = Append(@, Line(s, n, torn))]

\* ScanEntityType takes the files that end in ".jsonl", add drops the lines
\* that do not decode.
Readable(rec) == ~ rec.rotated /\ ~ rec.torn /\ ~ rec.glued

Existing == {f \in Types \X (1 .. MaxDay) : File(f[1], f[2]) # {}}

\* What ReadAll or Checksum may fail on in one pass over the files: an I/O
\* error, or a line beyond the reader's 16 MB buffer.  No record of the file
\* is delivered then.
FailedReads(files) ==
  {bad \in SUBSET {f \in files : f[1] \in Unreadable} : Cardinality(bad) <= MaxUnread}

RecordsIn(files) == UNION {{f[1]} \X File(f[1], f[2]) : f \in files}

LinesOf(type, d) == Cardinality({i \in File(type, d) : ~ shards[type][i].glued})
SizeOf(type, d)  == Cardinality(File(type, d))

-----------------------------------------------------------------------------
(***************************************************************************)
(* Transactions.                                                           *)
(***************************************************************************)
\* Deliberate fault: two requests draw the same identifiers.
AskSameId(c, op) ==
  /\ tx = {} /\ pending[c] = {} /\ requests < MaxRequests
  /\ \E plan \in Plans(requests + 1)[op] :
       pending' = [pending EXCEPT ![c] = {[req |-> requests + 1, plan |-> plan]}]
  /\ UNCHANGED <<index, shards, manifest, tx, scan, day, requests, rebuilds,
                 committed, lost, raced, skipped>>

\* A request reads the index and draws up its transaction.  The one
\* connection of the pool also keeps readers out of an open transaction.
Ask(c, op) ==
  /\ tx = {} /\ pending[c] = {} /\ requests < MaxRequests
  /\ \E plan \in Plans(requests + 1)[op] :
       pending' = [pending EXCEPT ![c] = {[req |-> requests + 1, plan |-> plan]}]
  /\ requests' = requests + 1
  /\ UNCHANGED <<index, shards, manifest, tx, scan, day, rebuilds,
                 committed, lost, raced, skipped>>

BeginTx(c) ==
  /\ tx = {} /\ pending[c] # {}
  /\ tx' = {[req |-> p.req, todo |-> p.plan, tables |-> index] : p \in pending[c]}
  /\ pending' = [pending EXCEPT ![c] = {}]
  /\ UNCHANGED <<index, shards, manifest, scan, day, requests, rebuilds,
                 committed, lost, raced, skipped>>

\* One statement: the append, then the change of the index.
Execute ==
  \E t \in tx :
    /\ t.todo # <<>>
    /\ LET s == Head(t.todo)
       IN  /\ shards' = IF Appends(s) THEN Appended(s, t.req, FALSE) ELSE shards
           /\ tx' = IF Accepted(t.tables, s)
                    THEN {[req |-> t.req, todo |-> Tail(t.todo), tables |-> Executed(t.tables, s)]}
                    ELSE {}
    /\ UNCHANGED <<index, manifest, pending, scan, day, requests, rebuilds,
                   committed, lost, raced, skipped>>

Commit ==
  \E t \in tx :
    /\ t.todo = <<>>
    /\ index' = t.tables
    /\ committed' = committed \cup {t.req}
    /\ tx' = {}
    /\ UNCHANGED <<shards, manifest, pending, scan, day, requests, rebuilds, lost, raced,
                   skipped>>

\* A statement, the commit or an append that writes nothing fails.
Rollback ==
  /\ "write" \in Faults /\ tx # {}
  /\ tx' = {}
  /\ UNCHANGED <<index, shards, manifest, pending, scan, day, requests, rebuilds,
                 committed, lost, raced, skipped>>

\* An append is cut short, by a full disk or by the end of the process.
TornWrite ==
  \E t \in tx :
    /\ "torn" \in Faults /\ t.todo # <<>> /\ Appends(Head(t.todo))
    /\ shards' = Appended(Head(t.todo), t.req, TRUE)
    /\ tx' = {}
    /\ UNCHANGED <<index, manifest, pending, scan, day, requests, rebuilds,
                   committed, lost, raced, skipped>>

Crash ==
  /\ "crash" \in Faults /\ (tx # {} \/ \E c \in Clients : pending[c] # {})
  /\ tx' = {} /\ pending' = [c \in Clients |-> {}]
  /\ UNCHANGED <<index, shards, manifest, scan, day, requests, rebuilds,
                 committed, lost, raced, skipped>>

NewDay ==
  /\ day < MaxDay
  /\ day' = day + 1
  /\ UNCHANGED <<index, shards, manifest, pending, tx, scan, requests, rebuilds,
                 committed, lost, raced, skipped>>

\* The server is started on a data directory without index.db: Open creates
\* the file and applies the migrations.
OpenEmptyIndex ==
  /\ "lose_index" \in Faults /\ ~ lost
  /\ tx = {} /\ scan = {} /\ \A c \in Clients : pending[c] = {}
  /\ index' = Empty /\ manifest' = NoRecords /\ lost' = TRUE /\ skipped' = {}
  /\ UNCHANGED <<shards, pending, tx, scan, day, requests, rebuilds, committed, raced>>

-----------------------------------------------------------------------------
(***************************************************************************)
(* RebuildIndex, run by hubctl beside the server or while it is down:      *)
(* collect the records, then one transaction.                              *)
(***************************************************************************)
\* The record that is read last: the files come in the order of their dates.
LastOf(type, records) ==
  LET d == Max({shards[type][i].day : i \in records})
  IN  Max({i \in records : shards[type][i].day = d})

\* The records a pass delivers that fails on the files of those in missed.
Delivered(type, missed) ==
  {i \in Records(type) : Readable(shards[type][i]) /\ <<type, i>> \notin missed}

DeliveredAt(type, key, missed) == {i \in Delivered(type, missed) : shards[type][i].key = key}

\* Deliberate fault: the first record of a key wins.
CollectedFirst(missed) ==
  [type \in Types |->
     [key \in {shards[type][i].key : i \in Delivered(type, missed)} |->
        shards[type][Min(DeliveredAt(type, key, missed))].row]]

\* Deliberate fault: the pass over a type ends at the first file that cannot
\* be read.
CollectedUpTo(missed) ==
  [type \in Types |->
     LET before == {i \in Delivered(type, missed) :
                      \A m \in missed : m[1] = type => shards[type][i].day < shards[type][m[2]].day}
     IN  [key \in {shards[type][i].key : i \in before} |->
            shards[type][LastOf(type, {i \in before : shards[type][i].key = key})].row]]

\* The last record of a key wins.
Collected(missed) ==
  [type \in Types |->
     [key \in {shards[type][i].key : i \in Delivered(type, missed)} |->
        shards[type][LastOf(type, DeliveredAt(type, key, missed))].row]]

\* A file that cannot be read is counted and left out.
RebuildScan ==
  /\ scan = {} /\ rebuilds < MaxRebuilds
  /\ \E bad \in FailedReads(Existing) :
       scan' = {[rows |-> Collected(RecordsIn(bad)), missed |-> RecordsIn(bad),
                 files |-> Existing]}
  /\ rebuilds' = rebuilds + 1
  /\ UNCHANGED <<index, shards, manifest, pending, tx, day, requests, committed, lost, raced,
                 skipped>>

\* Deliberate fault: the rules go too.
DeleteAllDataRulesToo(tables) == [type \in Types |-> <<>>]

\* Every table but rules.
DeleteAllData(tables) == [type \in Types |-> IF type = "rules" THEN tables[type] ELSE <<>>]

Conflicts(tables, new) ==
  \/ \E type \in Types : DOMAIN tables[type] \cap DOMAIN new[type] # {}
  \/ \E k, l \in DOMAIN new["items"] :
       k # l /\ new["items"][k].about = new["items"][l].about

Inserted(tables, new) ==
  [type \in Types |-> [k \in DOMAIN tables[type] \cup DOMAIN new[type] |->
                         IF k \in DOMAIN new[type] THEN new[type][k] ELSE tables[type][k]]]

\* Deliberate fault: the referrals of every case are retired.
postProcessRebuildAll(tables) ==
  LET superseded == {tables["audit"][k].about : k \in DOMAIN tables["audit"]}
  IN  [tables EXCEPT
         !["assignments"] = Retired(@, DOMAIN @),
         !["rules"]       = Retired(@, superseded)]

\* is_current=0 for every referral of an escalated case, status='superseded'
\* for every rule an audit entry says was superseded.
postProcessRebuild(tables) ==
  LET escalated  == {tables["escalations"][k].about : k \in DOMAIN tables["escalations"]}
      superseded == {tables["audit"][k].about : k \in DOMAIN tables["audit"]}
  IN  [tables EXCEPT
         !["assignments"] = Retired(@, ReferralsOf(@, escalated)),
         !["rules"]       = Retired(@, superseded)]

\* The scanned files are read twice more, for the manifest: without the
\* records (unread) the entry is that of a corrupted file, without the
\* checksum (unsummed) it is ok.
rebuildManifests(files, unread, unsummed) ==
  [type \in Types |-> [d \in 1 .. MaxDay |->
     LET f == <<type, d>>
     IN  CASE f \notin files  -> Absent
           [] f \in unread    -> [lines |-> 0, size |-> 0, status |-> "corrupted"]
           [] f \in unsummed  -> [lines |-> LinesOf(type, d), size |-> 0, status |-> "ok"]
           [] OTHER -> [lines |-> LinesOf(type, d), size |-> SizeOf(type, d), status |-> "ok"]]]

RebuildTx ==
  \E new \in scan :
    /\ tx = {} /\ ~ Conflicts(DeleteAllData(index), new.rows)
    /\ index' = postProcessRebuild(Inserted(DeleteAllData(index), new.rows))
    /\ \E unread \in FailedReads(new.files) :
         \E unsummed \in FailedReads(new.files \ unread) :
           manifest' = rebuildManifests(new.files, unread, unsummed)
    /\ scan' = {} /\ lost' = FALSE
    /\ raced' = (new.rows # Collected(new.missed)) /\ skipped' = new.missed
    /\ UNCHANGED <<shards, pending, tx, day, requests, rebuilds, committed>>

\* An INSERT meets a key that is there already: everything is rolled back.
RebuildConflict ==
  \E new \in scan :
    /\ tx = {} /\ Conflicts(DeleteAllData(index), new.rows)
    /\ scan' = {}
    /\ UNCHANGED <<index, shards, manifest, pending, tx, day, requests, rebuilds,
                   committed, lost, raced, skipped>>

Entry(f) == manifest[f[1]][f[2]]

\* Deliberate fault: the checksums are not compared.
ReconcileCountsOnly(unread) ==
  LET files == Existing \ unread
  IN  [orphaned   |-> {f \in files : LinesOf(f[1], f[2]) > Entry(f).lines},
       missing    |-> {f \in files : LinesOf(f[1], f[2]) < Entry(f).lines},
       mismatched |-> {},
       corrupted  |-> unread]

\* Deliberate fault: a file that cannot be read is passed over in silence.
ReconcileReadable(unread) ==
  LET files == Existing \ unread
  IN  [orphaned   |-> {f \in files : LinesOf(f[1], f[2]) > Entry(f).lines},
       missing    |-> {f \in files : LinesOf(f[1], f[2]) < Entry(f).lines},
       mismatched |-> {f \in files : Entry(f).size # 0 /\ Entry(f).size # SizeOf(f[1], f[2])},
       corrupted  |-> {}]

\* Reconcile compares every scanned file with its manifest entry: the files
\* with more lines than the entry (or no entry), with fewer lines, and with
\* another checksum.  The size of an append-only file stands for its content,
\* 0 for an entry without a checksum.  A file it fails to read is reported
\* and not compared.
Reconcile(unread) ==
  LET files == Existing \ unread
  IN  [orphaned   |-> {f \in files : LinesOf(f[1], f[2]) > Entry(f).lines},
       missing    |-> {f \in files : LinesOf(f[1], f[2]) < Entry(f).lines},
       mismatched |-> {f \in files : Entry(f).size # 0 /\ Entry(f).size # SizeOf(f[1], f[2])},
       corrupted  |-> unread]

\* The reconciliation task and the diagnose command only read.
RunReconciliation == UNCHANGED vars

-----------------------------------------------------------------------------
Init ==
  /\ index = Empty /\ shards = [t \in Types |-> <<>>] /\ manifest = NoRecords
  /\ pending = [c \in Clients |-> {}] /\ tx = {} /\ scan = {}
  /\ day = 1 /\ requests = 0 /\ rebuilds = 0 /\ committed = {} /\ lost = FALSE /\ raced = FALSE
  /\ skipped = {}

Next == \/ \E c \in Clients, op \in Ops : Ask(c, op)
        \/ \E c \in Clients : BeginTx(c)
        \/ Execute \/ Commit \/ Rollback \/ TornWrite \/ Crash
        \/ NewDay \/ OpenEmptyIndex
        \/ RebuildScan \/ RebuildTx \/ RebuildConflict
        \/ RunReconciliation

Spec == Init /\ [][Next]_vars

-----------------------------------------------------------------------------
\* Tables, shard records and transactions are well formed.
Row       == [about : Refs \cup Nat, val : Nat, live : BOOLEAN]
Keys(t)   == IF t = "audit" THEN Nat \X Nat ELSE Nat
Record(t) == [key : Keys(t), row : Row, req : Nat, day : Nat, torn : BOOLEAN,
              rotated : BOOLEAN, glued : BOOLEAN]
IsTables(tables) ==
  /\ DOMAIN tables = Types
  /\ \A t \in Types : \A k \in DOMAIN tables[t] : k \in Keys(t) /\ tables[t][k] \in Row
TypeOK ==
  /\ IsTables(index) /\ \A new \in scan : IsTables(new.rows)
  /\ DOMAIN shards = Types
  /\ \A t \in Types : \A i \in DOMAIN shards[t] : shards[t][i] \in Record(t)
  /\ \A t \in tx : IsTables(t.tables) /\ t.req \in 1 .. requests
  /\ committed \subseteq 1 .. requests
  /\ day \in 1 .. MaxDay /\ requests \in 0 .. MaxRequests /\ rebuilds \in 0 .. MaxRebuilds

\* The index never holds what the shards do not: every row of every table is
\* the content of a record that was appended, whole, for its key, and what is
\* no longer live was retired by a recorded request: a rule by one with an
\* audit entry, a referral by an escalation of its case or by another
\* referral of it.  It holds through rollbacks, crashes, torn writes, failed
\* reads and rebuilds, because each Save and Update appends before it touches
\* the index.
BackedByShards ==
  \A t \in Types : \A k \in DOMAIN index[t] :
    /\ \E i \in Records(t) : /\ shards[t][i].key = k /\ ~ shards[t][i].torn
                             /\ shards[t][i].row.val = index[t][k].val
                             /\ shards[t][i].row.about = index[t][k].about
    /\ (t = "rules" /\ ~ index[t][k].live) =>
         \E i \in Records("audit") : shards["audit"][i].row.about = k
    /\ (t = "assignments" /\ ~ index[t][k].live) =>
         \/ \E i \in Records("escalations") :
              shards["escalations"][i].row.about = index[t][k].about
         \/ \E i \in Records(t) : /\ shards[t][i].key # k /\ ~ shards[t][i].torn
                                  /\ shards[t][i].row.about = index[t][k].about

\* The records of a key, and the one of them a rebuild reads last.
History(t, k) == {i \in Records(t) : shards[t][i].key = k}
Newest(t, k)  == shards[t][LastOf(t, History(t, k))]

\* The newest record of the key was committed and can be read back; nor does
\* it lie in a file that the last rebuild failed to read.
Recoverable(t, k) ==
  /\ History(t, k) # {}
  /\ Newest(t, k).req \in committed /\ Readable(Newest(t, k))
  /\ <<t, LastOf(t, History(t, k))>> \notin skipped

\* Whatever failed before it, a successful rebuild restores every row whose
\* newest record belongs to a committed transaction and can be read, and the
\* transactions after it keep it so ("Rebuild SQLite index from shard files",
\* cmd/hubctl/main.go:74): the index shows the content of that record.  There
\* are two exceptions.  A file that the rebuild fails to read costs its own
\* rows and those only.  And a rebuild that stores its scan after a running
\* server has appended more loses what was committed in between.
CommittedIsRestored ==
  ~ lost /\ ~ raced => \A t \in Types : \A i \in Records(t) :
              LET k == shards[t][i].key
              IN  Recoverable(t, k) =>
                    k \in DOMAIN index[t] /\ index[t][k].val = Newest(t, k).row.val

\* A reconciliation that finds nothing is right: the index then holds exactly
\* the rows the shards would rebuild ("Reconcile shard files with index",
\* cmd/hubctl/main.go:73), but for the files that the last rebuild failed to
\* read in its scan and could read again for the manifest: of those the
\* report knows nothing.  Rules are left out: RebuildIndex keeps the stored
\* ones, so a rule may outlive the record it came from.  Nothing is said once
\* a file has been rotated, a rebuild was overtaken by the server or could
\* not compute a checksum: scan and manifest do not belong together then.
CleanReconcileIsRight ==
  (/\ tx = {}
   /\ ~ raced
   /\ \A t \in Types : \A i \in Records(t) : ~ shards[t][i].rotated
   /\ \A f \in Existing : Entry(f).status = "ok" => Entry(f).size # 0
   /\ \E unread \in FailedReads(Existing) :
        Reconcile(unread) =
          [orphaned |-> {}, missing |-> {}, mismatched |-> {}, corrupted |-> {}]) =>
    \A t \in Types \ {"rules"} :
      /\ DOMAIN index[t] = DOMAIN Collected(skipped)[t]
      /\ \A k \in DOMAIN index[t] : index[t][k].val = Collected(skipped)[t][k].val

\* A rebuild guesses is_current from the escalations.  For a case without any
\* the guess is right: its only referral is the current one, whatever was
\* rolled back, torn or rebuilt before (postProcessRebuild).
PlainCasesKeepTheirReferral ==
  \A id \in Cases :
    LET own == ReferralsOf(index["assignments"], {id})
    IN  (/\ Cardinality(own) = 1
         /\ \A i \in Records("escalations") : shards["escalations"][i].row.about # id) =>
          \A k \in own : index["assignments"][k].live

\* No transaction, rollback or rebuild removes a stored rule, changes its
\* content or revives a superseded one: DeleteAllData spares the rules and a
\* rebuild that would insert one again is rolled back.
RulesSurviveRebuilds ==
  [][~ lost' \/ lost => \A v \in DOMAIN index["rules"] :
       /\ v \in DOMAIN index'["rules"]
       /\ index'["rules"][v].val = index["rules"][v].val
       /\ index'["rules"][v].live => index["rules"][v].live]_vars
=============================================================================
