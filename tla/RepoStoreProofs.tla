-------------------------- MODULE RepoStoreProofs ---------------------------
(***************************************************************************)
(* Proofs about RepoStore, for every set of references and clients, every  *)
(* rotation limit and every combination of failures.                       *)
(***************************************************************************)
EXTENDS RepoStore, FiniteSetTheorems, SequenceTheorems, WellFoundedInduction, TLAPS

-----------------------------------------------------------------------------
(***************************************************************************)
(* Largest and smallest numbers.                                           *)
(***************************************************************************)
LEMMA LeastExists ==
  ASSUME NEW S \in SUBSET Nat, S # {}
  PROVE  \E x \in S : \A y \in S : x <= y
<1> DEFINE R == {p \in Nat \X Nat : p[1] < p[2]}
<1>1. IsWellFoundedOn(R, Nat)
  <2>1. OpToRel(<, Nat) = R
    BY DEF OpToRel
  <2> QED BY <2>1, NatLessThanWellFounded
<1>2. S \subseteq Nat
  OBVIOUS
<1>3. PICK x \in S : \A y \in S : ~ (<<y, x>> \in R)
  <2> HIDE DEF R
  <2> QED BY <1>1, <1>2, WFMin
<1>4. ASSUME NEW y \in S
      PROVE  x <= y
  <2>1. x \in Nat /\ y \in Nat /\ ~ (<<y, x>> \in R)
    BY <1>3
  <2>2. ~ (y < x)
    BY <2>1
  <2> QED BY <2>1, <2>2
<1> QED BY <1>4

LEMMA GreatestExists ==
  ASSUME NEW n \in Nat, NEW S \in SUBSET (0 .. n), S # {}
  PROVE  \E x \in S : \A y \in S : x >= y
<1> DEFINE T == {m \in 0 .. n : n - m \in S}
<1>1. T \in SUBSET Nat /\ T # {}
  <2>1. PICK x \in S : TRUE
    OBVIOUS
  <2>2. n - x \in 0 .. n /\ n - (n - x) = x
    OBVIOUS
  <2>3. n - x \in T
    BY <2>2
  <2>4. T \in SUBSET Nat
    OBVIOUS
  <2> HIDE DEF T
  <2> QED BY <2>3, <2>4
<1>2. PICK x \in T : \A y \in T : x <= y
  BY <1>1, LeastExists
<1>3. n - x \in S
  OBVIOUS
<1>4. ASSUME NEW y \in S
      PROVE  n - x >= y
  <2>1. n - y \in 0 .. n /\ n - (n - y) = y
    OBVIOUS
  <2>2. n - y \in T
    BY <2>1
  <2> QED BY <2>1, <2>2, <1>2
<1> QED BY <1>3, <1>4

LEMMA MaxIsGreatest ==
  ASSUME NEW n \in Nat, NEW S \in SUBSET (0 .. n), S # {}
  PROVE  Max(S) \in S /\ \A y \in S : Max(S) >= y
<1>1. \E x \in S : \A y \in S : x >= y
  BY GreatestExists
<1> QED BY <1>1 DEF Max

-----------------------------------------------------------------------------
(***************************************************************************)
(* Statements.  An insert writes a live row; only items and failures are   *)
(* updated.                                                                *)
(***************************************************************************)
KeysUpTo(t, n) == IF t = "audit" THEN Nat \X Nat ELSE 1 .. n

Statements ==
       [stmt : {"insert"}, type : Types, key : Nat \cup (Nat \X Nat), row : Row,
        day : Nat]
  \cup [stmt : {"update"}, type : {"items", "failures"}, key : Nat, row : Row]
  \cup [stmt : {"retire_referrals", "supersede_rule"}, key : Nat]

\* What a statement of a request numbered n or lower names by day y.
Sound(s, n, y) ==
  /\ s.stmt = "insert" => /\ s.key \in KeysUpTo(s.type, n) /\ s.row.live = TRUE
                          /\ s.day \in 1 .. y
  /\ s.stmt = "update" => s.key \in 1 .. n

Announces(s, v) == s.stmt = "insert" /\ s.type = "audit" /\ s.row.about = v
Refers(s, id)   == s.stmt = "insert" /\ s.type = "assignments" /\ s.row.about = id

\* A transaction, or what is left of it: the statement that retires is
\* followed by the one that accounts for it.
PlanOK(plan, n, y) ==
  /\ plan \in Seq(Statements)
  /\ \A i \in 1 .. Len(plan) :
       /\ Sound(plan[i], n, y)
       /\ plan[i].stmt = "supersede_rule" =>
            i + 1 <= Len(plan) /\ Announces(plan[i + 1], plan[i].key)
       /\ plan[i].stmt = "retire_referrals" =>
            i + 1 <= Len(plan) /\ Refers(plan[i + 1], plan[i].key)

Leaves(plan) == \E i \in 1 .. Len(plan) : Appends(plan[i])

\* Rows, keys and the bound on the keys of the tables.
Within(tables, n) == /\ IsTables(tables)
                     /\ \A t \in Types : \A k \in DOMAIN tables[t] : k \in KeysUpTo(t, n)

LEMMA ContentIsRow ==
  ASSUME NEW about \in Refs \cup Nat, NEW n \in Nat
  PROVE  /\ Content(about, n) \in Row
         /\ Content(about, n).live = TRUE /\ Content(about, n).about = about
BY DEF Content, Row

LEMMA InsertIsStatement ==
  ASSUME NEW type \in Types, NEW n \in Nat, NEW key \in KeysUpTo(type, n),
         NEW about \in Refs \cup Nat, NEW m \in Nat, NEW y \in Nat, NEW d \in 1 .. y
  PROVE  LET s == InsertOf(type, key, Content(about, m), d)
         IN  /\ s \in Statements /\ Sound(s, n, y) /\ Appends(s)
             /\ s.stmt = "insert" /\ s.type = type /\ s.row.about = about
<1> DEFINE row == Content(about, m)
           s == InsertOf(type, key, row, d)
<1>1. row \in Row /\ row.live = TRUE /\ row.about = about
  BY ContentIsRow
<1>2. key \in Nat \cup (Nat \X Nat)
  BY DEF KeysUpTo
<1> HIDE DEF row
<1>3. /\ s \in Statements /\ Sound(s, n, y) /\ Appends(s)
      /\ s.stmt = "insert" /\ s.type = type /\ s.row.about = about
  BY <1>1, <1>2 DEF InsertOf, Statements, Sound, Appends
<1> QED BY <1>3 DEF row

LEMMA RewriteIsStatement ==
  ASSUME NEW n \in Nat, Within(index, n), NEW type \in {"items", "failures"},
         NEW id \in DOMAIN index[type], NEW m \in Nat, NEW y
  PROVE  LET s == Rewritten(type, id, m)
         IN  s \in Statements /\ Sound(s, n, y) /\ Appends(s) /\ s.stmt = "update"
<1> DEFINE row == [index[type][id] EXCEPT !.val = m]
           s == Update(type, id, row)
<1>1. row \in Row
  BY DEF Within, IsTables, Row, Types
<1>2. id \in 1 .. n
  BY DEF Within, KeysUpTo, Types
<1> HIDE DEF row
<1>3. s \in Statements /\ Sound(s, n, y) /\ Appends(s) /\ s.stmt = "update"
  BY <1>1, <1>2 DEF Update, Statements, Sound, Appends
<1> QED BY <1>3 DEF row, Rewritten

\* Retiring statements, and the audit entry that closes a transaction.
LEMMA RetiringStatements ==
  ASSUME NEW id \in Nat, NEW n \in Nat, NEW y
  PROVE  /\ MarkAssignmentSuperseded(id) \in Statements
         /\ Sound(MarkAssignmentSuperseded(id), n, y)
         /\ MarkAssignmentSuperseded(id).stmt = "retire_referrals"
         /\ MarkAssignmentSuperseded(id).key = id
         /\ SupersedeRule(id) \in Statements
         /\ Sound(SupersedeRule(id), n, y)
         /\ SupersedeRule(id).stmt = "supersede_rule"
         /\ SupersedeRule(id).key = id
BY DEF MarkAssignmentSuperseded, SupersedeRule, Statements, Sound

LEMMA AuditStatement ==
  ASSUME NEW n \in Nat, NEW v \in Nat, day \in Nat \ {0}
  PROVE  /\ SaveAudit(n, v) \in Statements /\ Sound(SaveAudit(n, v), n, day)
         /\ Announces(SaveAudit(n, v), v) /\ Appends(SaveAudit(n, v))
         /\ SaveAudit(n, v).stmt = "insert"
<1>1. /\ "audit" \in Types /\ <<n, v>> \in KeysUpTo("audit", n) /\ v \in Refs \cup Nat
      /\ day \in 1 .. day
  BY DEF Types, KeysUpTo
<1> QED BY <1>1, InsertIsStatement DEF SaveAudit, Insert, Announces

LEMMA ReferralStatement ==
  ASSUME NEW n \in Nat \ {0}, NEW id \in Nat, day \in Nat \ {0}
  PROVE  /\ Referral(id, n) \in Statements /\ Sound(Referral(id, n), n, day)
         /\ Refers(Referral(id, n), id) /\ Appends(Referral(id, n))
         /\ Referral(id, n).stmt = "insert"
<1>1. /\ "assignments" \in Types /\ n \in KeysUpTo("assignments", n) /\ id \in Refs \cup Nat
      /\ day \in 1 .. day
  BY DEF Types, KeysUpTo
<1> QED BY <1>1, InsertIsStatement DEF Referral, Insert, Refers

LEMMA SoundLater ==
  ASSUME NEW s \in Statements, NEW m \in Nat, NEW n \in Nat, m <= n,
         NEW x \in Nat, NEW y \in Nat, x <= y, Sound(s, m, x)
  PROVE  Sound(s, n, y)
BY DEF Sound, KeysUpTo

\* Transactions of one to five statements.
Plain(s, n, y) == s \in Statements /\ Sound(s, n, y) /\ s.stmt \in {"insert", "update"}

LEMMA ShortPlans ==
  ASSUME NEW n \in Nat, NEW y, NEW a, NEW b, NEW c, NEW d, NEW e,
         Plain(a, n, y)
  PROVE  /\ PlanOK(<<a>>, n, y) /\ Leaves(<<a>>)
         /\ Plain(b, n, y) => PlanOK(<<a, b>>, n, y) /\ Leaves(<<a, b>>)
         /\ Plain(b, n, y) /\ Plain(c, n, y) => PlanOK(<<a, b, c>>, n, y) /\ Leaves(<<a, b, c>>)
<1> USE DEF Plain
<1>1. a.stmt # "supersede_rule" /\ a.stmt # "retire_referrals" /\ Appends(a)
  BY DEF Appends
<1>2. PlanOK(<<a>>, n, y) /\ Leaves(<<a>>)
  BY <1>1 DEF PlanOK, Leaves
<1>3. ASSUME Plain(b, n, y) PROVE PlanOK(<<a, b>>, n, y) /\ Leaves(<<a, b>>)
  <2>1. b.stmt # "supersede_rule" /\ b.stmt # "retire_referrals"
    BY <1>3
  <2>2. <<a, b>> \in Seq(Statements) /\ Len(<<a, b>>) = 2
    BY <1>3
  <2> QED BY <1>1, <1>3, <2>1, <2>2 DEF PlanOK, Leaves
<1>4. ASSUME Plain(b, n, y), Plain(c, n, y) PROVE PlanOK(<<a, b, c>>, n, y) /\ Leaves(<<a, b, c>>)
  <2>1. /\ b.stmt # "supersede_rule" /\ b.stmt # "retire_referrals"
        /\ c.stmt # "supersede_rule" /\ c.stmt # "retire_referrals"
    BY <1>4
  <2>2. <<a, b, c>> \in Seq(Statements) /\ Len(<<a, b, c>>) = 3
    BY <1>4
  <2> QED BY <1>1, <1>4, <2>1, <2>2 DEF PlanOK, Leaves
<1> QED BY <1>2, <1>3, <1>4

LEMMA RetiringPlans ==
  ASSUME NEW n \in Nat, NEW y, NEW a \in Statements, Sound(a, n, y), NEW b, NEW c, NEW d, NEW e,
         \/ a.stmt = "retire_referrals" /\ Refers(b, a.key)
         \/ a.stmt = "supersede_rule" /\ Announces(b, a.key),
         Plain(b, n, y), Plain(c, n, y), Plain(d, n, y), Plain(e, n, y)
  PROVE  /\ PlanOK(<<a, b, c, d>>, n, y) /\ Leaves(<<a, b, c, d>>)
         /\ PlanOK(<<e, a, b, c, d>>, n, y) /\ Leaves(<<e, a, b, c, d>>)
<1>1. /\ b \in Statements /\ c \in Statements /\ d \in Statements /\ e \in Statements
      /\ Sound(b, n, y) /\ Sound(c, n, y) /\ Sound(d, n, y) /\ Sound(e, n, y)
      /\ b.stmt # "supersede_rule" /\ b.stmt # "retire_referrals" /\ Appends(b)
      /\ c.stmt # "supersede_rule" /\ c.stmt # "retire_referrals"
      /\ d.stmt # "supersede_rule" /\ d.stmt # "retire_referrals"
      /\ e.stmt # "supersede_rule" /\ e.stmt # "retire_referrals"
  BY DEF Plain, Appends
<1>2. PlanOK(<<a, b, c, d>>, n, y) /\ Leaves(<<a, b, c, d>>)
  <2> DEFINE p == <<a, b, c, d>>
  <2>1. /\ p \in Seq(Statements) /\ Len(p) = 4
        /\ p[1] = a /\ p[2] = b /\ p[3] = c /\ p[4] = d
    BY <1>1
  <2>2. \A i \in 1 .. 4 : i = 1 \/ i = 2 \/ i = 3 \/ i = 4
    OBVIOUS
  <2> HIDE DEF p
  <2> QED BY <1>1, <2>1, <2>2 DEF PlanOK, Leaves
<1>3. PlanOK(<<e, a, b, c, d>>, n, y) /\ Leaves(<<e, a, b, c, d>>)
  <2> DEFINE p == <<e, a, b, c, d>>
  <2>1. /\ p \in Seq(Statements) /\ Len(p) = 5
        /\ p[1] = e /\ p[2] = a /\ p[3] = b /\ p[4] = c /\ p[5] = d
    BY <1>1
  <2>2. \A i \in 1 .. 5 : i = 1 \/ i = 2 \/ i = 3 \/ i = 4 \/ i = 5
    OBVIOUS
  <2> HIDE DEF p
  <2> QED BY <1>1, <2>1, <2>2 DEF PlanOK, Leaves
<1> QED BY <1>2, <1>3

\* Two lists of two, one after the other.
LEMMA TwoAndTwo ==
  ASSUME NEW S, NEW a \in S, NEW b \in S, NEW c \in S, NEW d \in S
  PROVE  <<a, b>> \o <<c, d>> = <<a, b, c, d>>
<1> DEFINE p == <<a, b>>
           q == <<c, d>>
           r == p \o q
           u == <<a, b, c, d>>
<1>1. /\ p \in Seq(S) /\ q \in Seq(S) /\ Len(p) = 2 /\ Len(q) = 2
      /\ p[1] = a /\ p[2] = b /\ q[1] = c /\ q[2] = d
  OBVIOUS
<1>2. u \in Seq(S) /\ Len(u) = 4 /\ u[1] = a /\ u[2] = b /\ u[3] = c /\ u[4] = d
  OBVIOUS
<1> HIDE DEF p, q, u
<1>3. r \in Seq(S) /\ Len(r) = 4
  BY <1>1, ConcatProperties
<1>4. \A i \in 1 .. Len(p) + Len(q) :
        (p \o q)[i] = IF i <= Len(p) THEN p[i] ELSE q[i - Len(p)]
  BY <1>1, ConcatProperties, Zenon
<1> HIDE DEF r
<1>5. \A i \in 1 .. Len(p) + Len(q) : r[i] = IF i <= Len(p) THEN p[i] ELSE q[i - Len(p)]
  BY <1>4 DEF r
<1>6. \A i \in 1 .. 4 : r[i] = IF i <= 2 THEN p[i] ELSE q[i - 2]
  BY <1>1, <1>5
<1>7. r[1] = a /\ r[2] = b /\ r[3] = c /\ r[4] = d
  BY <1>1, <1>6
<1>8. \A i \in 1 .. 4 : i = 1 \/ i = 2 \/ i = 3 \/ i = 4
  OBVIOUS
<1>9. \A i \in 1 .. 4 : r[i] = u[i]
  BY <1>2, <1>7, <1>8
<1>10. r = u
  BY <1>2, <1>3, <1>9
<1> QED BY <1>10 DEF p, q, r, u

\* Every transaction a request can draw up is of this kind.
LEMMA PlansAreSound ==
  ASSUME NEW m \in Nat, Within(index, m), day \in Nat \ {0},
         NEW op \in Ops, NEW plan \in Plans(m + 1)[op]
  PROVE  PlanOK(plan, m + 1, day) /\ Leaves(plan)
<1> DEFINE n == m + 1
<1>1. n \in Nat \ {0} /\ n \in Nat /\ m <= n /\ n \in 1 .. n
  OBVIOUS
<1>2. Within(index, n)
  BY <1>1 DEF Within, KeysUpTo
<1>3. /\ \A t \in Types \ {"audit"} : DOMAIN index[t] \subseteq 1 .. m
      /\ \A t \in Types \ {"audit"} : n \in KeysUpTo(t, n)
  BY <1>1 DEF Within, KeysUpTo
<1>4. \A v \in Nat : Plain(SaveAudit(n, v), n, day) /\ Announces(SaveAudit(n, v), v)
  BY <1>1, AuditStatement DEF Plain
<1>5. \A id \in Nat : Plain(Referral(id, n), n, day) /\ Refers(Referral(id, n), id)
  BY <1>1, ReferralStatement DEF Plain
<1>6. \A type \in {"items", "failures"} : \A id \in DOMAIN index[type] :
        Plain(Rewritten(type, id, n), n, day)
  BY <1>1, <1>2, RewriteIsStatement DEF Plain
<1>7. \A type \in Types \ {"audit"} : \A key \in 1 .. n : \A about \in Refs \cup Nat :
        /\ Plain(Insert(type, key, Content(about, n)), n, day)
        /\ \A d \in 1 .. day : Plain(InsertOf(type, key, Content(about, n), d), n, day)
  <2> SUFFICES ASSUME NEW type \in Types \ {"audit"}, NEW key \in 1 .. n,
                      NEW about \in Refs \cup Nat, NEW d \in 1 .. day
               PROVE  Plain(InsertOf(type, key, Content(about, n), d), n, day)
    BY DEF Insert
  <2>1. key \in KeysUpTo(type, n)
    BY DEF KeysUpTo
  <2> QED BY <1>1, <2>1, InsertIsStatement DEF Plain
<1>8. /\ 0 \in Nat /\ 0 \in Refs \cup Nat
      /\ \A id \in 1 .. n : id \in Nat /\ id \in Refs \cup Nat
  OBVIOUS
<1>9. /\ "items" \in Types \ {"audit"} /\ "rules" \in Types \ {"audit"}
      /\ "escalations" \in Types \ {"audit"} /\ "batches" \in Types \ {"audit"}
      /\ "failures" \in Types \ {"audit"}
  BY DEF Types
<1>10. Cases \subseteq 1 .. m
  BY <1>3, <1>9 DEF Cases
<1>q. op \in {"register", "update", "escalate", "reeval", "rule", "batch", "failure", "retry"}
  BY StoreAssumption
<1>r. /\ Plans(n).register = RegisterPlans(n) /\ Plans(n).update = UpdatePlans(n)
      /\ Plans(n).escalate = EscalatePlans(n) /\ Plans(n).reeval = ReevalPlans(n)
      /\ Plans(n).rule = RulePlans(n) /\ Plans(n).batch = BatchPlans(n)
      /\ Plans(n).failure = FailurePlans(n) /\ Plans(n).retry = RetryPlans(n)
  BY DEF Plans
<1>s. plan \in Plans(n)[op]
  OBVIOUS
<1> HIDE DEF n
<1>11. CASE op = "register"
  <2>1. plan \in RegisterPlans(n)
    BY <1>11, <1>r, <1>s
  <2>2. PICK r \in Refs :
          plan = <<Insert("items", n, Content(r, n)), Referral(n, n), SaveAudit(n, 0)>>
    BY <2>1 DEF RegisterPlans
  <2> QED BY <1>1, <1>4, <1>5, <1>7, <1>8, <1>9, <2>2, ShortPlans DEF n
<1>12. CASE op = "update"
  <2>1. plan \in UpdatePlans(n)
    BY <1>12, <1>r, <1>s
  <2>2. PICK id \in Cases : plan = <<Rewritten("items", id, n), SaveAudit(n, 0)>>
    BY <2>1 DEF UpdatePlans
  <2> QED BY <1>1, <1>4, <1>6, <1>8, <2>2, ShortPlans DEF n, Cases
<1>13. CASE op = "escalate"
  <2>1. plan \in EscalatePlans(n)
    BY <1>13, <1>r, <1>s
  <2>2. PICK id \in Cases :
          plan = <<Insert("escalations", n, Content(id, n)), MarkAssignmentSuperseded(id),
                   Referral(id, n), Rewritten("items", id, n), SaveAudit(n, 0)>>
    BY <2>1 DEF EscalatePlans
  <2>3. id \in Nat /\ id \in Refs \cup Nat /\ id \in DOMAIN index["items"]
    BY <1>10 DEF Cases
  <2>4. /\ MarkAssignmentSuperseded(id) \in Statements /\ Sound(MarkAssignmentSuperseded(id), n, day)
        /\ MarkAssignmentSuperseded(id).stmt = "retire_referrals"
        /\ MarkAssignmentSuperseded(id).key = id
    BY <1>1, <2>3, RetiringStatements
  <2>5. /\ Plain(Insert("escalations", n, Content(id, n)), n, day)
        /\ Plain(Referral(id, n), n, day) /\ Refers(Referral(id, n), id)
        /\ Plain(Rewritten("items", id, n), n, day) /\ Plain(SaveAudit(n, 0), n, day)
    BY <1>1, <1>4, <1>5, <1>6, <1>7, <1>8, <1>9, <2>3
  <2> QED BY <1>1, <2>2, <2>4, <2>5, RetiringPlans DEF n
<1>14. CASE op = "reeval"
  <2>1. plan \in ReevalPlans(n)
    BY <1>14, <1>r, <1>s
  <2>2. PICK id \in Cases :
          plan = <<MarkAssignmentSuperseded(id), Referral(id, n), Rewritten("items", id, n),
                   SaveAudit(n, 0)>>
    BY <2>1 DEF ReevalPlans
  <2>3. id \in Nat /\ id \in DOMAIN index["items"]
    BY <1>10 DEF Cases
  <2>4. /\ MarkAssignmentSuperseded(id) \in Statements /\ Sound(MarkAssignmentSuperseded(id), n, day)
        /\ MarkAssignmentSuperseded(id).stmt = "retire_referrals"
        /\ MarkAssignmentSuperseded(id).key = id
    BY <1>1, <2>3, RetiringStatements
  <2>5. /\ Plain(Referral(id, n), n, day) /\ Refers(Referral(id, n), id)
        /\ Plain(Rewritten("items", id, n), n, day) /\ Plain(SaveAudit(n, 0), n, day)
    BY <1>4, <1>5, <1>6, <1>8, <2>3
  <2> QED BY <1>1, <2>2, <2>4, <2>5, RetiringPlans DEF n
<1>15. CASE op = "rule"
  <2> DEFINE version == Max(DOMAIN index["rules"] \cup {0}) + 1
             create  == <<Insert("rules", version, Content(0, n)), SaveAudit(n, 0)>>
  <2>1. plan \in RulePlans(n)
    BY <1>15, <1>r, <1>s
  <2>2. \/ plan = create
        \/ \E v \in 1 .. MaxRequests : plan = <<SupersedeRule(v), SaveAudit(n, v)>> \o create
    BY <2>1 DEF RulePlans
  <2>3. version \in 1 .. n
    <3>1. DOMAIN index["rules"] \cup {0} \in SUBSET (0 .. m)
      BY <1>3, <1>9
    <3>2. Max(DOMAIN index["rules"] \cup {0}) \in 0 .. m
      BY <3>1, MaxIsGreatest
    <3> QED BY <3>2 DEF n
  <2> HIDE DEF version
  <2>4. Plain(Insert("rules", version, Content(0, n)), n, day) /\ Plain(SaveAudit(n, 0), n, day)
    BY <1>4, <1>7, <1>8, <1>9, <2>3
  <2>5. CASE plan = create
    BY <1>1, <2>4, <2>5, ShortPlans DEF n
  <2>6. ASSUME NEW v \in 1 .. MaxRequests,
               plan = <<SupersedeRule(v), SaveAudit(n, v)>> \o create
        PROVE  PlanOK(plan, n, day) /\ Leaves(plan)
    <3>1. v \in Nat
      BY StoreAssumption
    <3>3. /\ SupersedeRule(v) \in Statements /\ Sound(SupersedeRule(v), n, day)
          /\ SupersedeRule(v).stmt = "supersede_rule" /\ SupersedeRule(v).key = v
      BY <1>1, <3>1, RetiringStatements
    <3>4. Plain(SaveAudit(n, v), n, day) /\ Announces(SaveAudit(n, v), v)
      BY <1>4, <3>1
    <3>5. plan = <<SupersedeRule(v), SaveAudit(n, v),
                   Insert("rules", version, Content(0, n)), SaveAudit(n, 0)>>
      BY <2>4, <2>6, <3>3, <3>4, TwoAndTwo DEF Plain
    <3> QED BY <1>1, <2>4, <3>3, <3>4, <3>5, RetiringPlans
  <2> QED BY <2>2, <2>5, <2>6 DEF n
<1>16. CASE op = "batch"
  <2>1. plan = <<Insert("batches", n, Content(0, n)), SaveAudit(n, 0)>>
    BY <1>16, <1>r, <1>s DEF BatchPlans
  <2> QED BY <1>1, <1>4, <1>7, <1>8, <1>9, <2>1, ShortPlans DEF n
<1>17. CASE op = "failure"
  <2>1. PICK d \in 1 .. day : plan = <<InsertOf("failures", n, Content(0, n), d)>>
    BY <1>17, <1>r, <1>s DEF FailurePlans
  <2> QED BY <1>1, <1>7, <1>8, <1>9, <2>1, ShortPlans DEF n
<1>18. CASE op = "retry"
  <2>1. PICK id \in DOMAIN index["failures"] :
          plan = <<Rewritten("failures", id, n), SaveAudit(n, 0)>>
    BY <1>18, <1>r, <1>s DEF RetryPlans
  <2> QED BY <1>1, <1>4, <1>6, <1>8, <2>1, ShortPlans DEF n
<1> QED BY <1>q, <1>11, <1>12, <1>13, <1>14, <1>15, <1>16, <1>17, <1>18

-----------------------------------------------------------------------------
(***************************************************************************)
(* What a statement, an append, a scan and a rebuild do, row by row.       *)
(***************************************************************************)
LEMMA RetiredRow ==
  ASSUME NEW row \in Row
  PROVE  /\ [row EXCEPT !.live = FALSE] \in Row
         /\ [row EXCEPT !.live = FALSE].val = row.val
         /\ [row EXCEPT !.live = FALSE].about = row.about
         /\ [row EXCEPT !.live = FALSE].live = FALSE
BY DEF Row

\* Statements that store a row.
LEMMA StoredRows ==
  ASSUME NEW T, IsTables(T), NEW s \in Statements, Appends(s)
  PROVE  /\ s.type \in Types /\ s.row \in Row
         /\ DOMAIN Executed(T, s) = Types
         /\ \A t \in Types : t # s.type => Executed(T, s)[t] = T[t]
         /\ DOMAIN Executed(T, s)[s.type] = DOMAIN T[s.type] \cup {s.key}
         /\ Executed(T, s)[s.type][s.key] = s.row
         /\ \A k \in DOMAIN T[s.type] : k # s.key => Executed(T, s)[s.type][k] = T[s.type][k]
<1>1. s.stmt \in {"insert", "update"}
  BY DEF Appends
<1>2. s.type \in Types /\ s.row \in Row
  BY <1>1 DEF Statements, Types
<1>3. Executed(T, s) = [T EXCEPT ![s.type] = With(@, s.key, s.row)]
  BY <1>1 DEF Executed
<1>4. DOMAIN T = Types
  BY DEF IsTables
<1> DEFINE w == With(T[s.type], s.key, s.row)
<1>5. /\ DOMAIN w = DOMAIN T[s.type] \cup {s.key} /\ w[s.key] = s.row
      /\ \A k \in DOMAIN T[s.type] : k # s.key => w[k] = T[s.type][k]
  BY DEF With
<1> HIDE DEF w
<1>6. Executed(T, s) = [T EXCEPT ![s.type] = w]
  BY <1>3 DEF w
<1> QED BY <1>2, <1>4, <1>5, <1>6

\* Statements that retire.
LEMMA RetiredRows ==
  ASSUME NEW T, IsTables(T), NEW s \in Statements, ~ Appends(s)
  PROVE  LET u == IF s.stmt = "retire_referrals" THEN "assignments" ELSE "rules"
             Hit(k) == IF s.stmt = "retire_referrals" THEN T[u][k].about = s.key ELSE k = s.key
         IN  /\ DOMAIN Executed(T, s) = Types
             /\ \A t \in Types : t # u => Executed(T, s)[t] = T[t]
             /\ DOMAIN Executed(T, s)[u] = DOMAIN T[u]
             /\ \A k \in DOMAIN T[u] :
                  /\ Hit(k) => Executed(T, s)[u][k] = [T[u][k] EXCEPT !.live = FALSE]
                  /\ ~ Hit(k) => Executed(T, s)[u][k] = T[u][k]
<1>1. DOMAIN T = Types /\ "assignments" \in Types /\ "rules" \in Types
  BY DEF IsTables, Types
<1>2. s.stmt \in {"retire_referrals", "supersede_rule"}
  BY DEF Appends, Statements
<1>3. CASE s.stmt = "retire_referrals"
  <2> DEFINE u == "assignments"
             w == Retired(T[u], ReferralsOf(T[u], {s.key}))
  <2>1. /\ DOMAIN w = DOMAIN T[u]
        /\ \A k \in DOMAIN T[u] :
             /\ T[u][k].about = s.key => w[k] = [T[u][k] EXCEPT !.live = FALSE]
             /\ T[u][k].about # s.key => w[k] = T[u][k]
    BY DEF Retired, ReferralsOf
  <2>2. Executed(T, s) = [T EXCEPT ![u] = w]
    BY <1>3 DEF Executed
  <2> HIDE DEF w
  <2> QED BY <1>1, <1>3, <2>1, <2>2
<1>4. CASE s.stmt = "supersede_rule"
  <2> DEFINE u == "rules"
             w == Retired(T[u], {s.key})
  <2>1. /\ DOMAIN w = DOMAIN T[u]
        /\ \A k \in DOMAIN T[u] :
             /\ k = s.key => w[k] = [T[u][k] EXCEPT !.live = FALSE]
             /\ k # s.key => w[k] = T[u][k]
    BY DEF Retired
  <2>2. Executed(T, s) = [T EXCEPT ![u] = w]
    BY <1>4 DEF Executed
  <2> HIDE DEF w
  <2> QED BY <1>1, <1>4, <2>1, <2>2
<1> QED BY <1>2, <1>3, <1>4

\* An append to a shard.
ShardsOK == DOMAIN shards = Types /\ \A t \in Types : shards[t] \in Seq(Record(t))

LEMMA AppendedRecord ==
  ASSUME ShardsOK, NEW s \in Statements, Appends(s), NEW n \in Nat, NEW torn \in BOOLEAN,
         s.key \in Keys(s.type), FilingDay(s) \in Nat, shards' = Appended(s, n, torn)
  PROVE  LET last == Len(shards[s.type]) + 1
             line == shards'[s.type][last]
         IN  /\ ShardsOK' /\ s.type \in Types
             /\ \A t \in Types : t # s.type => shards'[t] = shards[t]
             /\ Len(shards[s.type]) \in Nat
             /\ DOMAIN shards[s.type] = 1 .. Len(shards[s.type])
             /\ DOMAIN shards'[s.type] = 1 .. last
             /\ \A i \in DOMAIN shards[s.type] : shards'[s.type][i] = shards[s.type][i]
             /\ line.key = s.key /\ line.row = s.row /\ line.req = n
             /\ line.day = FilingDay(s)
             /\ line.torn = torn /\ line.rotated = rotateIfNeeded(s.type, FilingDay(s))
             /\ line.glued = AfterTorn(s.type, FilingDay(s)) /\ line \in Record(s.type)
<1> DEFINE u == s.type
           d == FilingDay(s)
           L == Line(s, n, torn)
<1>1. u \in Types /\ s.row \in Row
  BY DEF Appends, Statements, Types
<1>a. DOMAIN shards = Types /\ shards[u] \in Seq(Record(u))
  BY <1>1 DEF ShardsOK
<1>b. ASSUME File(u, d) # {}
      PROVE  shards[u][Max(File(u, d))].torn \in BOOLEAN
  <2>1. File(u, d) \in SUBSET (0 .. Len(shards[u])) /\ Len(shards[u]) \in Nat
    BY <1>a DEF File, Records
  <2>2. Max(File(u, d)) \in File(u, d)
    BY <1>b, <2>1, MaxIsGreatest
  <2>3. Max(File(u, d)) \in DOMAIN shards[u]
    BY <2>2 DEF File, Records
  <2>4. shards[u][Max(File(u, d))] \in Record(u)
    BY <1>a, <2>3
  <2> QED BY <2>4 DEF Record
<1>2. rotateIfNeeded(u, d) \in BOOLEAN /\ AfterTorn(u, d) \in BOOLEAN
  BY <1>b DEF rotateIfNeeded, AfterTorn
<1>3. /\ L \in Record(u) /\ L.key = s.key /\ L.row = s.row /\ L.req = n /\ L.day = d
      /\ L.torn = torn /\ L.rotated = rotateIfNeeded(u, d) /\ L.glued = AfterTorn(u, d)
  <2> HIDE DEF d
  <2>1. L = [key |-> s.key, row |-> s.row, req |-> n, day |-> d, torn |-> torn,
             rotated |-> rotateIfNeeded(u, d), glued |-> AfterTorn(u, d)]
    BY DEF Line, d
  <2>2. d \in Nat
    BY DEF d
  <2> HIDE DEF L
  <2> QED BY <1>1, <1>2, <2>1, <2>2 DEF Record
<1>4. shards' = [shards EXCEPT ![u] = Append(shards[u], L)]
  BY DEF Appended
<1>5. shards[u] \in Seq(Record(u)) /\ DOMAIN shards = Types
  BY <1>1 DEF ShardsOK
<1> HIDE DEF L, u, d
<1> DEFINE a == Append(shards[u], L)
<1>6. /\ a \in Seq(Record(u)) /\ Len(shards[u]) \in Nat
      /\ DOMAIN shards[u] = 1 .. Len(shards[u]) /\ DOMAIN a = 1 .. Len(shards[u]) + 1
      /\ a[Len(shards[u]) + 1] = L
      /\ \A i \in DOMAIN shards[u] : a[i] = shards[u][i]
  BY <1>3, <1>5
<1> HIDE DEF a
<1>7. /\ shards'[u] = a /\ DOMAIN shards' = Types
      /\ \A t \in Types : t # u => shards'[t] = shards[t]
  BY <1>1, <1>4, <1>5 DEF a
<1>8. ShardsOK'
  BY <1>5, <1>6, <1>7 DEF ShardsOK, Record, Row, Keys
<1> QED BY <1>1, <1>3, <1>6, <1>7, <1>8 DEF u, d

\* The record of a set that is read last.
LastIn(recs, S) ==
  LET d == Max({recs[i].day : i \in S})
  IN  Max({i \in S : recs[i].day = d})

ReadBefore(recs, i, j) ==
  \/ recs[i].day < recs[j].day
  \/ recs[i].day = recs[j].day /\ i <= j

LEMMA LastIsLast ==
  ASSUME NEW recs, NEW n \in Nat, NEW S \in SUBSET (1 .. n), S # {},
         \A i \in S : recs[i].day \in 1 .. MaxDay
  PROVE  /\ LastIn(recs, S) \in S
         /\ \A i \in S : ReadBefore(recs, i, LastIn(recs, S))
<1> DEFINE days == {recs[i].day : i \in S}
           d    == Max(days)
           own  == {i \in S : recs[i].day = d}
<1>0. MaxDay \in Nat
  BY StoreAssumption
<1>a. PICK e \in S : TRUE
  OBVIOUS
<1>b. recs[e].day \in days
  OBVIOUS
<1>c. \A x \in days : x \in 0 .. MaxDay
  BY <1>0
<1>1. days \in SUBSET (0 .. MaxDay) /\ days # {} /\ MaxDay \in Nat
  <2> HIDE DEF days
  <2> QED BY <1>0, <1>b, <1>c
<1>2. d \in days /\ \A x \in days : d >= x
  <2> HIDE DEF days
  <2> QED BY <1>1, MaxIsGreatest
<1> HIDE DEF d
<1>3. own # {} /\ own \in SUBSET (0 .. n)
  <2>1. PICK i \in S : recs[i].day = d
    BY <1>2
  <2>2. i \in own /\ \A j \in own : j \in S
    BY <2>1
  <2>3. \A j \in S : j \in 0 .. n
    <3>1. 1 .. n \subseteq 0 .. n
      OBVIOUS
    <3>2. S \subseteq 1 .. n
      OBVIOUS
    <3> QED BY <3>1, <3>2, Zenon
  <2> HIDE DEF own
  <2> QED BY <2>2, <2>3
<1> HIDE DEF own, days
<1>4. Max(own) \in own /\ \A j \in own : Max(own) >= j
  BY <1>3, MaxIsGreatest
<1>5. LastIn(recs, S) = Max(own)
  BY DEF LastIn, own, d, days
<1>m. PICK m : m = Max(own)
  OBVIOUS
<1>n. m \in own
  BY <1>4, <1>m
<1>6. Max(own) \in S /\ recs[Max(own)].day = d /\ Max(own) \in Nat
  BY <1>n, <1>m DEF own
<1>7. ASSUME NEW i \in S
      PROVE  ReadBefore(recs, i, Max(own))
  <2>1. recs[i].day \in Nat /\ d \in Nat /\ recs[i].day <= d /\ i \in Nat
    <3>1. recs[i].day \in days
      BY DEF days
    <3> QED BY <1>1, <1>2, <3>1
  <2>2. recs[i].day = d => i \in own
    BY DEF own
  <2> QED BY <1>4, <1>6, <2>1, <2>2 DEF ReadBefore
<1> QED BY <1>5, <1>6, <1>7

\* There is one last record only.
LEMMA LastIsUnique ==
  ASSUME NEW recs, NEW i \in Nat, NEW j \in Nat,
         recs[i].day \in 1 .. MaxDay, recs[j].day \in 1 .. MaxDay,
         ReadBefore(recs, i, j), ReadBefore(recs, j, i)
  PROVE  i = j
<1>1. recs[i].day \in Nat /\ recs[j].day \in Nat
  BY StoreAssumption
<1> QED BY <1>1 DEF ReadBefore

LEMMA LastOfSame ==
  ASSUME NEW a, NEW b, NEW S, \A i \in S : a[i] = b[i]
  PROVE  LastIn(a, S) = LastIn(b, S)
<1>1. {a[i].day : i \in S} = {b[i].day : i \in S}
  OBVIOUS
<1>2. PICK d : d = Max({a[i].day : i \in S})
  OBVIOUS
<1>3. {i \in S : a[i].day = d} = {i \in S : b[i].day = d}
  OBVIOUS
<1>4. LastIn(a, S) = Max({i \in S : a[i].day = d})
  BY <1>2 DEF LastIn
<1>5. LastIn(b, S) = Max({i \in S : b[i].day = d})
  BY <1>1, <1>2 DEF LastIn
<1> QED BY <1>3, <1>4, <1>5

\* What a scan collects.
DaysOK == \A t \in Types : \A i \in Records(t) : shards[t][i].day \in 1 .. MaxDay

Delivers(t, i, missed) == Readable(shards[t][i]) /\ <<t, i>> \notin missed

LEMMA CollectedRows ==
  ASSUME ShardsOK, DaysOK, NEW missed
  PROVE  /\ DOMAIN Collected(missed) = Types
         /\ \A t \in Types : \A k :
              k \in DOMAIN Collected(missed)[t] <=>
                \E i \in Records(t) : Delivers(t, i, missed) /\ shards[t][i].key = k
         /\ \A t \in Types : \A k \in DOMAIN Collected(missed)[t] :
              \E i \in Records(t) :
                /\ Delivers(t, i, missed) /\ shards[t][i].key = k
                /\ Collected(missed)[t][k] = shards[t][i].row
                /\ \A j \in Records(t) :
                     Delivers(t, j, missed) /\ shards[t][j].key = k => ReadBefore(shards[t], j, i)
<1> DEFINE keys(t) == {shards[t][i].key : i \in Delivered(t, missed)}
           C == Collected(missed)
<1>1. DOMAIN C = Types
  BY DEF Collected
<1>2. ASSUME NEW t \in Types
      PROVE  /\ DOMAIN C[t] = keys(t)
             /\ \A k \in keys(t) :
                  C[t][k] = shards[t][LastOf(t, DeliveredAt(t, k, missed))].row
  BY DEF Collected
<1>3. ASSUME NEW t \in Types, NEW k
      PROVE  k \in keys(t) <=>
               \E i \in Records(t) : Delivers(t, i, missed) /\ shards[t][i].key = k
  BY DEF Delivered, Delivers
<1> HIDE DEF C
<1>4. ASSUME NEW t \in Types, NEW k \in keys(t)
      PROVE  \E i \in Records(t) :
                /\ Delivers(t, i, missed) /\ shards[t][i].key = k
                /\ C[t][k] = shards[t][i].row
                /\ \A j \in Records(t) :
                     Delivers(t, j, missed) /\ shards[t][j].key = k => ReadBefore(shards[t], j, i)
  <2> DEFINE S == DeliveredAt(t, k, missed)
             i == LastOf(t, S)
  <2>1. \A j : j \in S <=> j \in Records(t) /\ Delivers(t, j, missed) /\ shards[t][j].key = k
    BY DEF DeliveredAt, Delivered, Delivers
  <2>2. S # {} /\ S \in SUBSET Records(t)
    BY <1>3, <2>1
  <2>3. C[t][k] = shards[t][i].row
    BY <1>2
  <2> HIDE DEF S
  <2>4. i \in S /\ \A j \in S : ReadBefore(shards[t], j, i)
    <3>1. i = LastIn(shards[t], S)
      BY DEF LastOf, LastIn
    <3>2. Len(shards[t]) \in Nat /\ S \in SUBSET (1 .. Len(shards[t]))
      BY <2>2 DEF ShardsOK, Records
    <3>3. \A j \in S : shards[t][j].day \in 1 .. MaxDay
      BY <2>2 DEF DaysOK
    <3> HIDE DEF i
    <3> QED BY <2>2, <3>1, <3>2, <3>3, LastIsLast
  <2> HIDE DEF i
  <2> QED BY <2>1, <2>3, <2>4
<1> HIDE DEF keys
<1> QED BY <1>1, <1>2, <1>3, <1>4 DEF C

\* What a rebuild from the scan stores.
Rebuilt(new) == postProcessRebuild(Inserted(DeleteAllData(index), new))

LEMMA RebuiltRows ==
  ASSUME IsTables(index), NEW new, IsTables(new), ~ Conflicts(DeleteAllData(index), new)
  PROVE  LET Base(t, k) == IF k \in DOMAIN new[t] THEN new[t][k] ELSE index[t][k]
             Hit(t, k) == \/ /\ t = "assignments"
                             /\ \E e \in DOMAIN new["escalations"] :
                                  new["escalations"][e].about = Base(t, k).about
                          \/ /\ t = "rules"
                             /\ \E a \in DOMAIN new["audit"] : new["audit"][a].about = k
         IN  /\ DOMAIN Rebuilt(new) = Types
             /\ \A t \in Types : DOMAIN Rebuilt(new)[t] =
                  DOMAIN new[t] \cup (IF t = "rules" THEN DOMAIN index[t] ELSE {})
             /\ DOMAIN new["rules"] \cap DOMAIN index["rules"] = {}
             /\ \A t \in Types : \A k \in DOMAIN Rebuilt(new)[t] :
                  /\ Hit(t, k) => Rebuilt(new)[t][k] = [Base(t, k) EXCEPT !.live = FALSE]
                  /\ ~ Hit(t, k) => Rebuilt(new)[t][k] = Base(t, k)
<1> DEFINE Base(t, k) == IF k \in DOMAIN new[t] THEN new[t][k] ELSE index[t][k]
           Dom(t) == DOMAIN new[t] \cup (IF t = "rules" THEN DOMAIN index[t] ELSE {})
           D == DeleteAllData(index)
           I == Inserted(D, new)
           R == postProcessRebuild(I)
<1>0. /\ "rules" \in Types /\ "assignments" \in Types /\ "escalations" \in Types
      /\ "audit" \in Types
  BY DEF Types
<1>1. \A t \in Types : D[t] = IF t = "rules" THEN index[t] ELSE <<>>
  BY DEF DeleteAllData
<1>2. DOMAIN new["rules"] \cap DOMAIN index["rules"] = {}
  BY <1>0, <1>1 DEF Conflicts
<1>3. DOMAIN I = Types /\ \A t \in Types : DOMAIN I[t] = DOMAIN D[t] \cup DOMAIN new[t]
  BY DEF Inserted
<1>4. \A t \in Types : DOMAIN I[t] = Dom(t)
  <2>1. \A t \in Types : DOMAIN D[t] = IF t = "rules" THEN DOMAIN index[t] ELSE {}
    BY <1>1
  <2> HIDE DEF D, I
  <2> QED BY <1>3, <2>1
<1>5. \A t \in Types : \A k \in DOMAIN I[t] : I[t][k] = Base(t, k)
  <2> SUFFICES ASSUME NEW t \in Types, NEW k \in DOMAIN I[t]
               PROVE  I[t][k] = Base(t, k)
    OBVIOUS
  <2>1. I[t][k] = IF k \in DOMAIN new[t] THEN new[t][k] ELSE D[t][k]
    BY <1>3 DEF Inserted
  <2>2. k \in Dom(t)
    BY <1>4
  <2>3. k \notin DOMAIN new[t] => D[t][k] = index[t][k]
    BY <1>1, <2>2
  <2> HIDE DEF I, D
  <2> QED BY <2>1, <2>3
<1> HIDE DEF D, I
<1> DEFINE escalated  == {I["escalations"][k].about : k \in DOMAIN I["escalations"]}
           superseded == {I["audit"][k].about : k \in DOMAIN I["audit"]}
           wa == Retired(I["assignments"], ReferralsOf(I["assignments"], escalated))
           wr == Retired(I["rules"], superseded)
<1>6. R = [I EXCEPT !["assignments"] = wa, !["rules"] = wr]
  BY DEF postProcessRebuild
<1>7. /\ DOMAIN wa = DOMAIN I["assignments"]
      /\ \A k \in DOMAIN wa :
           /\ I["assignments"][k].about \in escalated =>
                wa[k] = [I["assignments"][k] EXCEPT !.live = FALSE]
           /\ I["assignments"][k].about \notin escalated => wa[k] = I["assignments"][k]
  BY DEF Retired, ReferralsOf
<1>8. /\ DOMAIN wr = DOMAIN I["rules"]
      /\ \A k \in DOMAIN wr :
           /\ k \in superseded => wr[k] = [I["rules"][k] EXCEPT !.live = FALSE]
           /\ k \notin superseded => wr[k] = I["rules"][k]
  BY DEF Retired
<1>9. /\ \A x : x \in escalated <=> \E e \in DOMAIN new["escalations"] :
                                       new["escalations"][e].about = x
      /\ \A x : x \in superseded <=> \E a \in DOMAIN new["audit"] : new["audit"][a].about = x
  <2>1. DOMAIN I["escalations"] = DOMAIN new["escalations"] /\ DOMAIN I["audit"] = DOMAIN new["audit"]
    BY <1>0, <1>4
  <2>2. /\ \A e \in DOMAIN new["escalations"] : I["escalations"][e] = new["escalations"][e]
        /\ \A a \in DOMAIN new["audit"] : I["audit"][a] = new["audit"][a]
    BY <1>0, <1>5, <2>1
  <2> QED BY <2>1, <2>2
<1> HIDE DEF R, wa, wr, escalated, superseded
<1>10. /\ DOMAIN R = Types /\ R["assignments"] = wa /\ R["rules"] = wr
       /\ \A t \in Types : t # "assignments" /\ t # "rules" => R[t] = I[t]
  BY <1>0, <1>3, <1>6
<1> DEFINE Hit(t, k) == \/ /\ t = "assignments"
                           /\ \E e \in DOMAIN new["escalations"] :
                                new["escalations"][e].about = Base(t, k).about
                        \/ /\ t = "rules"
                           /\ \E a \in DOMAIN new["audit"] : new["audit"][a].about = k
<1>11. \A t \in Types : DOMAIN R[t] = Dom(t)
  BY <1>0, <1>4, <1>7, <1>8, <1>10
<1>12. ASSUME NEW t \in Types, NEW k \in DOMAIN R[t]
       PROVE  /\ Hit(t, k) => R[t][k] = [Base(t, k) EXCEPT !.live = FALSE]
              /\ ~ Hit(t, k) => R[t][k] = Base(t, k)
  <2>1. k \in DOMAIN I[t] /\ I[t][k] = Base(t, k)
    BY <1>4, <1>5, <1>11
  <2> HIDE DEF Base
  <2>2. CASE t = "assignments"
    BY <1>7, <1>9, <1>10, <2>1, <2>2
  <2>3. CASE t = "rules"
    BY <1>8, <1>9, <1>10, <2>1, <2>3
  <2>4. CASE t # "assignments" /\ t # "rules"
    BY <1>10, <2>1, <2>4
  <2> QED BY <2>2, <2>3, <2>4
<1>13. R = Rebuilt(new)
  BY DEF R, I, D, Rebuilt
<1> QED BY <1>2, <1>10, <1>11, <1>12, <1>13

\* A transaction after its first statement.
LEMMA RestOfPlan ==
  ASSUME NEW n \in Nat, NEW y, NEW plan, PlanOK(plan, n, y), plan # <<>>
  PROVE  LET s == Head(plan)
             rest == Tail(plan)
         IN  /\ s \in Statements /\ Sound(s, n, y) /\ PlanOK(rest, n, y)
             /\ s.stmt = "supersede_rule" => rest # <<>> /\ Announces(Head(rest), s.key)
             /\ s.stmt = "retire_referrals" => rest # <<>> /\ Refers(Head(rest), s.key)
             /\ Leaves(plan) => Appends(s) \/ Leaves(rest)
<1> DEFINE rest == Tail(plan)
           s == Head(plan)
<1>1. plan \in Seq(Statements) /\ Len(plan) \in Nat /\ Len(plan) >= 1
  BY DEF PlanOK
<1>2. /\ rest \in Seq(Statements) /\ Len(rest) = Len(plan) - 1
      /\ \A i \in 1 .. Len(rest) : rest[i] = plan[i + 1]
      /\ s = plan[1] /\ s \in Statements
      /\ Len(rest) > 0 => rest # <<>> /\ Head(rest) = plan[2]
  <2>1. /\ rest \in Seq(Statements) /\ Len(rest) = Len(plan) - 1
        /\ \A i \in 1 .. Len(rest) : rest[i] = plan[i + 1]
    BY <1>1, HeadTailProperties
  <2>2. s = plan[1] /\ s \in Statements
    BY <1>1
  <2> HIDE DEF rest
  <2>3. Len(rest) > 0 => rest # <<>> /\ Head(rest) = rest[1] /\ 1 \in 1 .. Len(rest)
    BY <2>1
  <2> QED BY <2>1, <2>2, <2>3
<1> HIDE DEF rest, s
<1>3. Sound(s, n, y)
  BY <1>1, <1>2 DEF PlanOK
<1>4. PlanOK(rest, n, y)
  <2> SUFFICES ASSUME NEW i \in 1 .. Len(rest)
               PROVE  /\ Sound(rest[i], n, y)
                      /\ rest[i].stmt = "supersede_rule" =>
                           i + 1 <= Len(rest) /\ Announces(rest[i + 1], rest[i].key)
                      /\ rest[i].stmt = "retire_referrals" =>
                           i + 1 <= Len(rest) /\ Refers(rest[i + 1], rest[i].key)
    BY <1>2 DEF PlanOK
  <2>1. i + 1 \in 1 .. Len(plan) /\ rest[i] = plan[i + 1]
    BY <1>1, <1>2
  <2>2. /\ Sound(plan[i + 1], n, y)
        /\ plan[i + 1].stmt = "supersede_rule" =>
             (i + 1) + 1 <= Len(plan) /\ Announces(plan[(i + 1) + 1], plan[i + 1].key)
        /\ plan[i + 1].stmt = "retire_referrals" =>
             (i + 1) + 1 <= Len(plan) /\ Refers(plan[(i + 1) + 1], plan[i + 1].key)
    BY <2>1 DEF PlanOK
  <2>3. (i + 1) + 1 <= Len(plan) => i + 1 <= Len(rest) /\ rest[i + 1] = plan[(i + 1) + 1]
    BY <1>1, <1>2
  <2> QED BY <2>1, <2>2, <2>3
<1>5. /\ s.stmt = "supersede_rule" => 2 <= Len(plan) /\ Announces(plan[2], s.key)
      /\ s.stmt = "retire_referrals" => 2 <= Len(plan) /\ Refers(plan[2], s.key)
  BY <1>1, <1>2 DEF PlanOK
<1>6. 2 <= Len(plan) => rest # <<>> /\ Head(rest) = plan[2]
  BY <1>1, <1>2
<1>7. ASSUME NEW i \in 1 .. Len(plan), Appends(plan[i])
      PROVE  Appends(s) \/ Leaves(rest)
  <2>1. CASE i = 1
    BY <1>2, <1>7, <2>1
  <2>2. CASE i # 1
    <3>1. i - 1 \in 1 .. Len(rest) /\ rest[i - 1] = plan[i]
      BY <1>1, <1>2, <2>2
    <3> QED BY <1>7, <3>1 DEF Leaves
  <2> QED BY <2>1, <2>2
<1>8. Leaves(plan) => Appends(s) \/ Leaves(rest)
  BY <1>7 DEF Leaves
<1> QED BY <1>2, <1>3, <1>4, <1>5, <1>6, <1>8 DEF s, rest

-----------------------------------------------------------------------------
(***************************************************************************)
(* The inductive invariant, part by part.                                  *)
(***************************************************************************)
Standing == {"rules", "assignments"}    \* types whose records are never updated

Filed ==
  /\ ShardsOK
  /\ \A t \in Types : \A i \in Records(t) :
       /\ shards[t][i].key \in KeysUpTo(t, requests)
       /\ shards[t][i].req \in 1 .. requests
       /\ shards[t][i].day \in 1 .. day
       /\ t \in Standing => shards[t][i].row.live = TRUE

Scans == {z.rows : z \in scan}

Scanned ==
  \A new \in Scans :
    /\ Within(new, requests)
    /\ \A t \in Standing : \A k \in DOMAIN new[t] : new[t][k].live = TRUE

Asked ==
  /\ DOMAIN pending = Clients
  /\ \A c \in Clients : \A p \in pending[c] :
       p.req \in 1 .. requests /\ PlanOK(p.plan, requests, day) /\ Leaves(p.plan)

Running ==
  \A t \in tx :
    t.req \in 1 .. requests /\ PlanOK(t.todo, requests, day) /\ Within(t.tables, requests)

Counters ==
  /\ day \in 1 .. MaxDay /\ requests \in 0 .. MaxRequests /\ rebuilds \in 0 .. MaxRebuilds
  /\ committed \subseteq 1 .. requests

Shapes == Filed /\ Scanned /\ Asked /\ Running /\ Counters /\ Within(index, requests)

\* A row is backed by a whole record of its key with its content.
Backing(t, k, row) ==
  \E i \in Records(t) : /\ shards[t][i].key = k /\ ~ shards[t][i].torn
                        /\ shards[t][i].row.val = row.val
                        /\ shards[t][i].row.about = row.about

Backed(tables) == \A t \in Types : \A k \in DOMAIN tables[t] : Backing(t, k, tables[t][k])

AllBacked == /\ Backed(index) /\ \A t \in tx : Backed(t.tables)
             /\ \A new \in Scans : Backed(new)

\* A superseded rule was announced by an audit record; in a transaction the
\* audit entry may be the next statement.
Announced(v) == \E i \in Records("audit") : shards["audit"][i].row.about = v

Accounted ==
  /\ \A v \in DOMAIN index["rules"] : ~ index["rules"][v].live => Announced(v)
  /\ \A t \in tx : \A v \in DOMAIN t.tables["rules"] :
       ~ t.tables["rules"][v].live =>
         Announced(v) \/ (t.todo # <<>> /\ Announces(Head(t.todo), v))

\* An open transaction has removed, rewritten or revived no rule.
RulesCarried ==
  \A t \in tx : \A v \in DOMAIN index["rules"] :
    /\ v \in DOMAIN t.tables["rules"]
    /\ t.tables["rules"][v].val = index["rules"][v].val
    /\ t.tables["rules"][v].live => index["rules"][v].live

\* A retired referral belongs to a case with an escalation record or with
\* another referral; in a transaction that one may be the next statement.
Escalated(id) == \E i \in Records("escalations") : shards["escalations"][i].row.about = id
Succeeded(tables, k) ==
  \E l \in DOMAIN tables["assignments"] \ {k} :
    tables["assignments"][l].about = tables["assignments"][k].about

Referred ==
  /\ \A k \in DOMAIN index["assignments"] :
       ~ index["assignments"][k].live =>
         Escalated(index["assignments"][k].about) \/ Succeeded(index, k)
  /\ \A t \in tx : \A k \in DOMAIN t.tables["assignments"] :
       ~ t.tables["assignments"][k].live =>
         \/ Escalated(t.tables["assignments"][k].about) \/ Succeeded(t.tables, k)
         \/ t.todo # <<>> /\ Refers(Head(t.todo), t.tables["assignments"][k].about)

\* Request numbers are drawn once: no other request, record or commit has the
\* number of one that has not begun.
Numbered ==
  /\ \A c \in Clients : \A p \in pending[c] :
       /\ p.req \notin committed
       /\ \A t \in Types : \A i \in Records(t) : shards[t][i].req # p.req
       /\ \A t \in tx : t.req # p.req
       /\ \A d \in Clients \ {c} : \A q \in pending[d] : q.req # p.req
  /\ \A t \in tx : t.req \notin committed

\* In an open transaction a key whose newest record it appended has that
\* record's content, every other key what the index has.
Carried ==
  \A x \in tx : \A t \in Types : \A k :
    /\ History(t, k) # {} /\ Newest(t, k).req = x.req =>
         k \in DOMAIN x.tables[t] /\ x.tables[t][k].val = Newest(t, k).row.val
    /\ (History(t, k) = {} \/ Newest(t, k).req # x.req) /\ k \in DOMAIN index[t] =>
         k \in DOMAIN x.tables[t] /\ x.tables[t][k].val = index[t][k].val

Restored ==
  ~ lost /\ ~ raced => \A t \in Types : \A k :
    Recoverable(t, k) => k \in DOMAIN index[t] /\ index[t][k].val = Newest(t, k).row.val

\* The manifest belongs to the shards of the last rebuild.
Outgrown ==
  \/ \E t \in Types, d \in 1 .. MaxDay : SizeOf(t, d) # manifest[t][d].size
  \/ \E t \in Types : \E i \in Records(t) : shards[t][i].rotated

Matches(tables, new) ==
  \A t \in Types \ {"rules"} : /\ DOMAIN tables[t] = DOMAIN new[t]
                               /\ \A k \in DOMAIN tables[t] : tables[t][k].val = new[t][k].val

Manifested ==
  /\ \A t \in Types, d \in 1 .. MaxDay :
       /\ manifest[t][d].lines \in Nat /\ manifest[t][d].size \in Nat
       /\ manifest[t][d].size <= SizeOf(t, d)
       /\ manifest[t][d].status # "ok" => manifest[t][d].lines = 0
  /\ \A t \in Types : \A i \in Records(t) : shards[t][i].glued =>
       \E j \in File(t, shards[t][i].day) : j < i
  /\ ~ Outgrown /\ ~ raced => Matches(index, Collected(skipped))
  /\ \A x \in tx : Outgrown \/ Leaves(x.todo)

Inv == /\ Shapes /\ AllBacked /\ Accounted /\ RulesCarried /\ Referred /\ Numbered
       /\ Carried /\ Restored /\ Manifested

\* Records are filed on days that have been.
LEMMA DaysFiled ==
  ASSUME Shapes
  PROVE  ShardsOK /\ DaysOK /\ day \in Nat /\ day <= MaxDay
<1>1. day \in 1 .. MaxDay /\ MaxDay \in Nat
  BY StoreAssumption DEF Shapes, Counters
<1> QED BY <1>1 DEF Shapes, Filed, DaysOK

-----------------------------------------------------------------------------
(***************************************************************************)
(* Shapes.                                                                 *)
(***************************************************************************)
LEMMA BoundsGrow ==
  ASSUME NEW m \in Nat, NEW n \in Nat, m <= n, NEW x \in Nat, NEW y \in Nat, x <= y
  PROVE  /\ \A t \in Types : KeysUpTo(t, m) \subseteq KeysUpTo(t, n)
         /\ \A T : Within(T, m) => Within(T, n)
         /\ \A plan : PlanOK(plan, m, x) => PlanOK(plan, n, y)
<1>1. \A t \in Types : KeysUpTo(t, m) \subseteq KeysUpTo(t, n)
  BY DEF KeysUpTo
<1>2. \A T : Within(T, m) => Within(T, n)
  BY <1>1 DEF Within
<1>3. ASSUME NEW plan, PlanOK(plan, m, x)
      PROVE  PlanOK(plan, n, y)
  <2>1. \A i \in 1 .. Len(plan) : plan[i] \in Statements /\ Sound(plan[i], m, x)
    BY <1>3 DEF PlanOK
  <2>2. \A i \in 1 .. Len(plan) : Sound(plan[i], n, y)
    BY <2>1, SoundLater
  <2> QED BY <1>3, <2>2 DEF PlanOK
<1> QED BY <1>1, <1>2, <1>3

LEMMA BoundsAreKeys ==
  ASSUME NEW n \in Nat, NEW t \in Types
  PROVE  KeysUpTo(t, n) \subseteq Keys(t)
BY DEF KeysUpTo, Keys

\* The key of a statement that appends.
LEMMA StatementKey ==
  ASSUME NEW n \in Nat, NEW y, NEW s \in Statements, Sound(s, n, y), Appends(s)
  PROVE  /\ s.type \in Types /\ s.key \in KeysUpTo(s.type, n) /\ s.key \in Keys(s.type)
         /\ s.row \in Row
         /\ s.type \in Standing => s.stmt = "insert" /\ s.row.live = TRUE
<1>1. s.type \in Types /\ s.row \in Row
  BY DEF Appends, Statements, Types
<1>2. CASE s.stmt = "insert"
  BY <1>1, <1>2, BoundsAreKeys DEF Sound
<1>3. CASE s.stmt = "update"
  <2>1. s.type \in {"items", "failures"} /\ s.key \in 1 .. n
    BY <1>3 DEF Statements, Sound
  <2>2. s.key \in KeysUpTo(s.type, n) /\ s.type \notin Standing
    BY <2>1 DEF KeysUpTo, Standing
  <2> QED BY <1>1, <2>2, BoundsAreKeys
<1> QED BY <1>2, <1>3 DEF Appends

LEMMA ExecutedWithin ==
  ASSUME NEW n \in Nat, NEW y, NEW T, Within(T, n), NEW s \in Statements, Sound(s, n, y)
  PROVE  Within(Executed(T, s), n)
<1> DEFINE E == Executed(T, s)
<1>1. /\ IsTables(T) /\ DOMAIN T = Types
      /\ \A t \in Types : \A k \in DOMAIN T[t] :
           k \in Keys(t) /\ T[t][k] \in Row /\ k \in KeysUpTo(t, n)
  BY DEF Within, IsTables
<1>2. CASE Appends(s)
  <2>1. /\ s.type \in Types /\ s.key \in KeysUpTo(s.type, n) /\ s.key \in Keys(s.type)
        /\ s.row \in Row
    BY <1>2, StatementKey
  <2>2. /\ DOMAIN E = Types
        /\ \A t \in Types : t # s.type => E[t] = T[t]
        /\ DOMAIN E[s.type] = DOMAIN T[s.type] \cup {s.key}
        /\ E[s.type][s.key] = s.row
        /\ \A k \in DOMAIN T[s.type] : k # s.key => E[s.type][k] = T[s.type][k]
    BY <1>1, <1>2, StoredRows
  <2> HIDE DEF E
  <2>3. \A t \in Types : \A k \in DOMAIN E[t] :
          k \in Keys(t) /\ E[t][k] \in Row /\ k \in KeysUpTo(t, n)
    BY <1>1, <2>1, <2>2
  <2>4. Within(E, n)
    BY <2>2, <2>3 DEF Within, IsTables
  <2> QED BY <2>4 DEF E
<1>3. CASE ~ Appends(s)
  <2> DEFINE u == IF s.stmt = "retire_referrals" THEN "assignments" ELSE "rules"
  <2>1. /\ DOMAIN E = Types
        /\ \A t \in Types : t # u => E[t] = T[t]
        /\ DOMAIN E[u] = DOMAIN T[u]
        /\ \A k \in DOMAIN T[u] : \/ E[u][k] = [T[u][k] EXCEPT !.live = FALSE]
                                  \/ E[u][k] = T[u][k]
    BY <1>1, <1>3, RetiredRows
  <2>2. u \in Types
    BY DEF Types
  <2> HIDE DEF E, u
  <2>3. \A k \in DOMAIN E[u] : E[u][k] \in Row
    BY <1>1, <2>1, <2>2, RetiredRow
  <2>4. \A t \in Types : \A k \in DOMAIN E[t] :
          k \in Keys(t) /\ E[t][k] \in Row /\ k \in KeysUpTo(t, n)
    BY <1>1, <2>1, <2>2, <2>3
  <2>5. Within(E, n)
    BY <2>1, <2>4 DEF Within, IsTables
  <2> QED BY <2>5 DEF E
<1> QED BY <1>2, <1>3

LEMMA RebuiltWithin ==
  ASSUME NEW n \in Nat, Within(index, n), NEW new, Within(new, n),
         ~ Conflicts(DeleteAllData(index), new)
  PROVE  Within(Rebuilt(new), n)
<1> DEFINE R == Rebuilt(new)
           Base(t, k) == IF k \in DOMAIN new[t] THEN new[t][k] ELSE index[t][k]
<1>1. /\ DOMAIN R = Types
      /\ \A t \in Types : DOMAIN R[t] \subseteq DOMAIN new[t] \cup DOMAIN index[t]
      /\ \A t \in Types : \A k \in DOMAIN R[t] :
           R[t][k] = [Base(t, k) EXCEPT !.live = FALSE] \/ R[t][k] = Base(t, k)
  BY RebuiltRows DEF Within
<1>2. \A t \in Types : \A k \in DOMAIN new[t] \cup DOMAIN index[t] :
        Base(t, k) \in Row /\ k \in Keys(t) /\ k \in KeysUpTo(t, n)
  BY DEF Within, IsTables
<1> HIDE DEF R, Base
<1>3. \A t \in Types : \A k \in DOMAIN R[t] :
        R[t][k] \in Row /\ k \in Keys(t) /\ k \in KeysUpTo(t, n)
  BY <1>1, <1>2, RetiredRow
<1>4. Within(R, n)
  BY <1>1, <1>3 DEF Within, IsTables
<1> QED BY <1>4 DEF R

LEMMA EmptyWithin ==
  ASSUME NEW n \in Nat
  PROVE  Within(Empty, n)
BY DEF Within, IsTables, Empty

\* The effect of one append: s is the last record of its type.
Grown(s, n, torn) ==
  LET u    == s.type
      last == Len(shards[u]) + 1
      line == shards'[u][last]
  IN  /\ ShardsOK' /\ u \in Types
      /\ \A t \in Types : t # u => shards'[t] = shards[t]
      /\ Len(shards[u]) \in Nat
      /\ Records(u) = 1 .. Len(shards[u]) /\ Records(u)' = 1 .. last
      /\ \A i \in Records(u) : shards'[u][i] = shards[u][i]
      /\ line.key = s.key /\ line.row = s.row /\ line.req = n
      /\ line.day = FilingDay(s) /\ line.day \in 1 .. day
      /\ line.torn = torn /\ line.rotated = rotateIfNeeded(u, line.day)
      /\ line.glued = AfterTorn(u, line.day)

\* What Execute does to the open transaction t, whose next statement is s.
Executes(t, s) ==
  /\ t \in tx /\ t.todo # <<>> /\ s = Head(t.todo) /\ s \in Statements /\ Sound(s, requests, day)
  /\ IF Appends(s) THEN Grown(s, t.req, FALSE) ELSE shards' = shards
  /\ \/ tx' = {}
     \/ /\ Accepted(t.tables, s)
        /\ tx' = {[req |-> t.req, todo |-> Tail(t.todo), tables |-> Executed(t.tables, s)]}
  /\ UNCHANGED <<index, manifest, pending, scan, day, requests, rebuilds, committed, lost,
                 raced, skipped>>

Tears(t, s) ==
  /\ t \in tx /\ s \in Statements /\ Sound(s, requests, day) /\ Appends(s)
  /\ Grown(s, t.req, TRUE) /\ tx' = {}
  /\ UNCHANGED <<index, manifest, pending, scan, day, requests, rebuilds, committed, lost,
                 raced, skipped>>

LEMMA OpenTransaction ==
  ASSUME Shapes, NEW t \in tx, t.todo # <<>>
  PROVE  /\ requests \in Nat /\ day \in Nat \ {0} /\ t.req \in Nat
         /\ Head(t.todo) \in Statements /\ Sound(Head(t.todo), requests, day)
         /\ Within(t.tables, requests) /\ PlanOK(Tail(t.todo), requests, day)
<1>1. requests \in Nat /\ day \in Nat \ {0} /\ t.req \in Nat
  BY StoreAssumption DEF Shapes, Counters, Running
<1>2. PlanOK(t.todo, requests, day) /\ Within(t.tables, requests)
  BY DEF Shapes, Running
<1> QED BY <1>1, <1>2, RestOfPlan

LEMMA GrownBy ==
  ASSUME Shapes, NEW t \in tx, t.todo # <<>>, NEW torn \in BOOLEAN,
         Appends(Head(t.todo)), shards' = Appended(Head(t.todo), t.req, torn)
  PROVE  Grown(Head(t.todo), t.req, torn)
<1> DEFINE s == Head(t.todo)
<1>1. /\ requests \in Nat /\ day \in Nat \ {0} /\ t.req \in Nat
      /\ s \in Statements /\ Sound(s, requests, day)
  BY OpenTransaction
<1>2. Appends(s) /\ shards' = Appended(s, t.req, torn) /\ ShardsOK
  BY DEF Shapes, Filed
<1> HIDE DEF s
<1>3. s.key \in Keys(s.type)
  BY <1>1, <1>2, StatementKey
<1>4. FilingDay(s) \in 1 .. day /\ FilingDay(s) \in Nat
  BY <1>1 DEF FilingDay, Sound
<1>5. Grown(s, t.req, torn)
  BY <1>1, <1>2, <1>3, <1>4, AppendedRecord DEF Grown, Records
<1> QED BY <1>5 DEF s

LEMMA ExecuteEffect ==
  ASSUME Shapes, Execute
  PROVE  \E t \in tx : \E s \in Statements : Executes(t, s)
<1>1. PICK t \in tx :
        /\ t.todo # <<>>
        /\ shards' = IF Appends(Head(t.todo)) THEN Appended(Head(t.todo), t.req, FALSE) ELSE shards
        /\ tx' = IF Accepted(t.tables, Head(t.todo))
                 THEN {[req |-> t.req, todo |-> Tail(t.todo),
                        tables |-> Executed(t.tables, Head(t.todo))]}
                 ELSE {}
        /\ UNCHANGED <<index, manifest, pending, scan, day, requests, rebuilds, committed,
                       lost, raced, skipped>>
  BY DEF Execute
<1> DEFINE s == Head(t.todo)
<1>2. s \in Statements /\ Sound(s, requests, day)
  BY <1>1, OpenTransaction
<1>3. IF Appends(s) THEN Grown(s, t.req, FALSE) ELSE shards' = shards
  BY <1>1, GrownBy
<1>4. Executes(t, s)
  BY <1>1, <1>2, <1>3 DEF Executes
<1> QED BY <1>2, <1>4

LEMMA TornEffect ==
  ASSUME Shapes, TornWrite
  PROVE  \E t \in tx : \E s \in Statements : Tears(t, s)
<1>1. PICK t \in tx :
        /\ t.todo # <<>> /\ Appends(Head(t.todo))
        /\ shards' = Appended(Head(t.todo), t.req, TRUE) /\ tx' = {}
        /\ UNCHANGED <<index, manifest, pending, scan, day, requests, rebuilds, committed,
                       lost, raced, skipped>>
  BY DEF TornWrite
<1>2. Head(t.todo) \in Statements /\ Sound(Head(t.todo), requests, day)
  BY <1>1, OpenTransaction
<1>3. Grown(Head(t.todo), t.req, TRUE)
  BY <1>1, GrownBy
<1> QED BY <1>1, <1>2, <1>3 DEF Tears

\* Shards only grow.
LEMMA ShardsGrow ==
  ASSUME Shapes, [Next]_vars
  PROVE  \A t \in Types : \A i \in Records(t) : i \in Records(t)' /\ shards'[t][i] = shards[t][i]
<1>1. ASSUME NEW s, NEW n, NEW torn, Grown(s, n, torn)
      PROVE  \A t \in Types : \A i \in Records(t) :
               i \in Records(t)' /\ shards'[t][i] = shards[t][i]
  <2>1. \A i \in Records(s.type) : i \in Records(s.type)' /\ shards'[s.type][i] = shards[s.type][i]
    BY <1>1 DEF Grown
  <2>2. \A t \in Types : t # s.type => shards'[t] = shards[t]
    BY <1>1 DEF Grown
  <2> QED BY <2>1, <2>2 DEF Records
<1>2. CASE shards' = shards
  BY <1>2 DEF Records
<1>3. CASE Execute
  BY <1>1, <1>2, <1>3, ExecuteEffect DEF Executes
<1>4. CASE TornWrite
  BY <1>1, <1>4, TornEffect DEF Tears
<1>5. shards' = shards \/ Execute \/ TornWrite
  BY DEF Next, vars, Ask, BeginTx, Commit, Rollback, Crash, NewDay, OpenEmptyIndex, RebuildScan,
         RebuildTx, RebuildConflict, RunReconciliation
<1> QED BY <1>2, <1>3, <1>4, <1>5

\* An append keeps the shards in shape.
LEMMA FiledStep ==
  ASSUME Shapes, UNCHANGED <<requests, day>>, NEW s \in Statements, Sound(s, requests, day), Appends(s),
         NEW t \in tx, NEW torn, Grown(s, t.req, torn)
  PROVE  Filed'
<1> DEFINE u == s.type
           last == Len(shards[u]) + 1
           OK(v, r) == /\ r.key \in KeysUpTo(v, requests) /\ r.req \in 1 .. requests
                       /\ r.day \in 1 .. day
                       /\ v \in Standing => r.row.live = TRUE
<1>1. requests \in Nat /\ day \in 1 .. MaxDay /\ t.req \in 1 .. requests
  BY DEF Shapes, Counters, Running
<1>2. /\ u \in Types /\ s.key \in KeysUpTo(u, requests)
      /\ u \in Standing => s.row.live = TRUE
  BY <1>1, StatementKey
<1>3. \A v \in Types : \A i \in Records(v) : OK(v, shards[v][i])
  BY DEF Shapes, Filed
<1>4. /\ Records(u) = 1 .. Len(shards[u]) /\ Records(u)' = 1 .. last /\ Len(shards[u]) \in Nat
      /\ \A i \in Records(u) : shards'[u][i] = shards[u][i]
      /\ \A v \in Types : v # u => shards'[v] = shards[v]
      /\ ShardsOK'
  BY DEF Grown
<1>5. OK(u, shards'[u][last])
  BY <1>1, <1>2 DEF Grown
<1> HIDE DEF OK, last
<1>6. \A i \in Records(u)' : OK(u, shards'[u][i])
  <2>1. \A i \in Records(u)' : i \in Records(u) \/ i = last
    BY <1>4 DEF last
  <2> QED BY <1>2, <1>3, <1>4, <1>5, <2>1
<1>7. \A v \in Types : \A i \in Records(v)' : OK(v, shards'[v][i])
  BY <1>3, <1>4, <1>6 DEF Records
<1> QED BY <1>4, <1>7 DEF Filed, OK

LEMMA ShapesStep ==
  ASSUME Shapes, [Next]_vars
  PROVE  Shapes'
<1>0. /\ requests \in Nat /\ requests <= MaxRequests /\ day \in 1 .. MaxDay
      /\ MaxRequests \in Nat /\ MaxDay \in Nat /\ MaxRebuilds \in Nat /\ rebuilds \in Nat
  BY StoreAssumption DEF Shapes, Counters
<1>1. CASE UNCHANGED vars \/ RunReconciliation
  <2>1. UNCHANGED vars
    BY <1>1 DEF RunReconciliation
  <2> QED BY <2>1 DEF Shapes, Filed, ShardsOK, Records, Scanned, Scans, Asked, Running, Counters, vars
<1>2. ASSUME NEW c \in Clients, NEW op \in Ops, Ask(c, op)
      PROVE  Shapes'
  <2>1. PICK plan \in Plans(requests + 1)[op] :
          pending' = [pending EXCEPT ![c] = {[req |-> requests + 1, plan |-> plan]}]
    BY <1>2 DEF Ask
  <2>2. /\ requests' = requests + 1 /\ requests < MaxRequests
        /\ UNCHANGED <<index, shards, manifest, tx, scan, day, rebuilds, committed, lost,
                       raced, skipped>>
    BY <1>2 DEF Ask
  <2>3. PlanOK(plan, requests + 1, day) /\ Leaves(plan)
    BY <1>0, PlansAreSound DEF Shapes
  <2>4. /\ requests' \in Nat /\ requests <= requests' /\ requests' \in 0 .. MaxRequests
        /\ 1 .. requests \subseteq 1 .. requests' /\ requests + 1 \in 1 .. requests'
    BY <1>0, <2>2
  <2>5. /\ \A t \in Types : KeysUpTo(t, requests) \subseteq KeysUpTo(t, requests')
        /\ \A T : Within(T, requests) => Within(T, requests')
        /\ \A p : PlanOK(p, requests, day) => PlanOK(p, requests', day')
    BY <1>0, <2>2, <2>4, BoundsGrow
  <2>6. Filed'
    BY <2>2, <2>4, <2>5 DEF Shapes, Filed, ShardsOK, Records
  <2>7. Scanned' /\ Running' /\ Within(index', requests')
    BY <2>2, <2>4, <2>5 DEF Shapes, Scanned, Scans, Running
  <2>8. Asked'
    <3>1. DOMAIN pending' = Clients
      BY <2>1 DEF Shapes, Asked
    <3>2. \A p \in pending'[c] : p.req \in 1 .. requests' /\ PlanOK(p.plan, requests', day') /\ Leaves(p.plan)
      BY <2>1, <2>2, <2>3, <2>4 DEF Shapes, Asked
    <3>3. \A d \in Clients \ {c} : pending'[d] = pending[d]
      BY <2>1 DEF Shapes, Asked
    <3> QED BY <2>4, <2>5, <3>1, <3>2, <3>3 DEF Shapes, Asked
  <2>9. Counters'
    BY <2>2, <2>4 DEF Shapes, Counters
  <2> QED BY <2>6, <2>7, <2>8, <2>9 DEF Shapes
<1>3. ASSUME NEW c \in Clients, BeginTx(c)
      PROVE  Shapes'
  <2>1. /\ tx' = {[req |-> p.req, todo |-> p.plan, tables |-> index] : p \in pending[c]}
        /\ pending' = [pending EXCEPT ![c] = {}]
        /\ UNCHANGED <<index, shards, manifest, scan, day, requests, rebuilds, committed,
                       lost, raced, skipped>>
    BY <1>3 DEF BeginTx
  <2>2. Filed' /\ Scanned' /\ Counters' /\ Within(index', requests')
    BY <2>1 DEF Shapes, Filed, ShardsOK, Records, Scanned, Scans, Counters
  <2>3. Asked'
    BY <2>1 DEF Shapes, Asked
  <2>4. Running'
    <3> SUFFICES ASSUME NEW p \in pending[c]
                 PROVE  /\ p.req \in 1 .. requests /\ PlanOK(p.plan, requests, day)
                        /\ Within(index, requests)
      BY <2>1 DEF Running
    <3> QED BY DEF Shapes, Asked
  <2> QED BY <2>2, <2>3, <2>4 DEF Shapes
<1>4. CASE Execute
  <2>1. PICK t \in tx : \E s \in Statements : Executes(t, s)
    BY <1>4, ExecuteEffect
  <2>2. PICK s \in Statements : Executes(t, s)
    BY <2>1
  <2>3. UNCHANGED <<index, manifest, pending, scan, day, requests, rebuilds, committed,
                    lost, raced, skipped>>
    BY <2>2 DEF Executes
  <2>4. Filed'
    <3>1. CASE Appends(s)
      BY <2>2, <2>3, <3>1, FiledStep DEF Executes
    <3>2. CASE ~ Appends(s)
      BY <2>2, <2>3, <3>2 DEF Executes, Shapes, Filed, ShardsOK, Records
    <3> QED BY <3>1, <3>2
  <2>5. Scanned' /\ Asked' /\ Counters' /\ Within(index', requests')
    BY <2>3 DEF Shapes, Scanned, Scans, Asked, Counters
  <2>6. /\ Within(t.tables, requests) /\ PlanOK(Tail(t.todo), requests, day) /\ t.req \in 1 .. requests
        /\ Sound(s, requests, day)
    BY <2>2, OpenTransaction DEF Executes, Shapes, Running
  <2>7. Within(Executed(t.tables, s), requests)
    BY <1>0, <2>6, ExecutedWithin
  <2>8. \/ tx' = {}
        \/ tx' = {[req |-> t.req, todo |-> Tail(t.todo), tables |-> Executed(t.tables, s)]}
    BY <2>2 DEF Executes
  <2>9. Running'
    <3> DEFINE x == [req |-> t.req, todo |-> Tail(t.todo), tables |-> Executed(t.tables, s)]
    <3>1. x.req = t.req /\ x.todo = Tail(t.todo) /\ x.tables = Executed(t.tables, s)
      OBVIOUS
    <3> HIDE DEF x
    <3>2. \A y \in tx' : y = x
      BY <2>8 DEF x
    <3> QED BY <2>3, <2>6, <2>7, <3>1, <3>2 DEF Running
  <2> QED BY <2>4, <2>5, <2>9 DEF Shapes
<1>5. CASE Commit
  <2>1. PICK t \in tx : index' = t.tables /\ committed' = committed \cup {t.req} /\ tx' = {}
    BY <1>5 DEF Commit
  <2>2. UNCHANGED <<shards, manifest, pending, scan, day, requests, rebuilds, lost, raced,
                    skipped>>
    BY <1>5 DEF Commit
  <2>3. t.req \in 1 .. requests /\ Within(t.tables, requests)
    BY DEF Shapes, Running
  <2> QED BY <2>1, <2>2, <2>3
          DEF Shapes, Filed, ShardsOK, Records, Scanned, Scans, Asked, Running, Counters
<1>6. CASE Rollback
  BY <1>6 DEF Rollback, Shapes, Filed, ShardsOK, Records, Scanned, Scans, Asked, Running, Counters
<1>7. CASE TornWrite
  <2>1. PICK t \in tx : \E s \in Statements : Tears(t, s)
    BY <1>7, TornEffect
  <2>2. PICK s \in Statements : Tears(t, s)
    BY <2>1
  <2>3. /\ UNCHANGED <<index, manifest, pending, scan, day, requests, rebuilds, committed,
                       lost, raced, skipped>>
        /\ tx' = {}
    BY <2>2 DEF Tears
  <2>4. Filed'
    BY <2>2, <2>3, FiledStep DEF Tears
  <2> QED BY <2>3, <2>4 DEF Shapes, Scanned, Scans, Asked, Running, Counters
<1>8. CASE Crash
  BY <1>8 DEF Crash, Shapes, Filed, ShardsOK, Records, Scanned, Scans, Asked, Running, Counters
<1>9. CASE NewDay
  <2>1. /\ day' = day + 1 /\ day < MaxDay
        /\ UNCHANGED <<index, shards, manifest, pending, tx, scan, requests, rebuilds,
                       committed, lost, raced, skipped>>
    BY <1>9 DEF NewDay
  <2>2. /\ day' \in 1 .. MaxDay /\ 1 .. day \subseteq 1 .. day'
        /\ day \in Nat /\ day' \in Nat /\ day <= day' /\ requests <= requests
    BY <1>0, <2>1
  <2>3. \A p : PlanOK(p, requests, day) => PlanOK(p, requests', day')
    BY <1>0, <2>1, <2>2, BoundsGrow
  <2>4. Filed'
    BY <2>1, <2>2 DEF Shapes, Filed, ShardsOK, Records
  <2>5. Asked' /\ Running'
    BY <2>1, <2>3 DEF Shapes, Asked, Running
  <2> QED BY <2>1, <2>2, <2>4, <2>5 DEF Shapes, Scanned, Scans, Counters
<1>10. CASE OpenEmptyIndex
  <2>1. Within(index', requests')
    BY <1>0, <1>10, EmptyWithin DEF OpenEmptyIndex
  <2> QED BY <1>10, <2>1
          DEF OpenEmptyIndex, Shapes, Filed, ShardsOK, Records, Scanned, Scans, Asked, Running, Counters
<1>11. CASE RebuildScan
  <2>a. PICK bad \in FailedReads(Existing) :
          scan' = {[rows |-> Collected(RecordsIn(bad)), missed |-> RecordsIn(bad),
                    files |-> Existing]}
    BY <1>11 DEF RebuildScan
  <2>b. PICK C : C = Collected(RecordsIn(bad))
    OBVIOUS
  <2>1. /\ Scans' = {C} /\ rebuilds' = rebuilds + 1 /\ rebuilds < MaxRebuilds
        /\ UNCHANGED <<index, shards, manifest, pending, tx, day, requests, committed, lost,
                       raced, skipped>>
    BY <1>11, <2>a, <2>b DEF RebuildScan, Scans
  <2>2. /\ DOMAIN C = Types
        /\ \A t \in Types : \A k \in DOMAIN C[t] : \E i \in Records(t) :
             shards[t][i].key = k /\ C[t][k] = shards[t][i].row
    BY <2>b, DaysFiled, CollectedRows
  <2>3. \A t \in Types : \A i \in Records(t) :
          /\ shards[t][i].row \in Row /\ shards[t][i].key \in Keys(t)
          /\ shards[t][i].key \in KeysUpTo(t, requests)
          /\ t \in Standing => shards[t][i].row.live = TRUE
    <3>1. \A t \in Types : \A i \in Records(t) : shards[t][i] \in Record(t)
      BY DEF Shapes, Filed, ShardsOK, Records
    <3>2. \A t \in Types : \A i \in Records(t) :
            shards[t][i].row \in Row /\ shards[t][i].key \in Keys(t)
      BY <3>1 DEF Record
    <3> QED BY <3>2 DEF Shapes, Filed
  <2>4. Within(C, requests)
    BY <2>2, <2>3 DEF Within, IsTables
  <2>5. \A t \in Standing : \A k \in DOMAIN C[t] : C[t][k].live = TRUE
    BY <2>2, <2>3 DEF Standing, Types
  <2>6. Scanned'
    BY <2>1, <2>4, <2>5 DEF Scanned
  <2>7. Counters'
    BY <1>0, <2>1 DEF Shapes, Counters
  <2> QED BY <2>1, <2>6, <2>7 DEF Shapes, Filed, ShardsOK, Records, Asked, Running
<1>12. CASE RebuildTx
  <2>1. PICK new \in Scans : ~ Conflicts(DeleteAllData(index), new) /\ index' = Rebuilt(new)
    BY <1>12 DEF RebuildTx, Rebuilt, Scans
  <2>2. /\ scan' = {} /\ tx = {}
        /\ UNCHANGED <<shards, pending, tx, day, requests, rebuilds, committed>>
    BY <1>12 DEF RebuildTx
  <2>3. Within(index', requests')
    BY <1>0, <2>1, <2>2, RebuiltWithin DEF Shapes, Scanned
  <2> QED BY <2>2, <2>3 DEF Shapes, Filed, ShardsOK, Records, Scanned, Scans, Asked, Running, Counters
<1>13. CASE RebuildConflict
  BY <1>13 DEF RebuildConflict, Shapes, Filed, ShardsOK, Records, Scanned, Scans, Asked, Running, Counters
<1> QED BY <1>1, <1>2, <1>3, <1>4, <1>5, <1>6, <1>7, <1>8, <1>9, <1>10, <1>11, <1>12, <1>13
        DEF Next

LEMMA ShapesInit == Init => Shapes
<1> SUFFICES ASSUME Init PROVE Shapes
  OBVIOUS
<1>1. Within(index, requests)
  BY EmptyWithin DEF Init
<1>2. shards = [t \in Types |-> <<>>] /\ pending = [c \in Clients |-> {}] /\ tx = {} /\ scan = {} /\ Scans = {}
  BY DEF Init, Scans
<1>3. Filed
  BY <1>2 DEF Filed, ShardsOK, Records
<1>4. Counters
  BY StoreAssumption DEF Init, Counters
<1> QED BY <1>1, <1>2, <1>3, <1>4 DEF Shapes, Scanned, Scans, Asked, Running

LEMMA ShapesAreTyped == Shapes => TypeOK
<1> SUFFICES ASSUME Shapes PROVE TypeOK
  OBVIOUS
<1>1. IsTables(index) /\ (\A z \in scan : IsTables(z.rows)) /\ \A t \in tx : IsTables(t.tables)
  BY DEF Shapes, Scanned, Scans, Running, Within
<1>2. DOMAIN shards = Types /\ \A t \in Types : \A i \in DOMAIN shards[t] : shards[t][i] \in Record(t)
  BY DEF Shapes, Filed, ShardsOK
<1> QED BY <1>1, <1>2 DEF TypeOK, Shapes, Running, Counters

\* Every table, shard record and transaction is well formed, for any number
\* of requests, clients, days and rebuilds and whatever fails (TypeOK).  A
\* rule's version is one more than the largest stored one, so the keys have
\* to be bounded to know that there is a largest.
THEOREM TypeCorrect == Spec => []TypeOK
<1>1. Init => Shapes
  BY ShapesInit
<1>2. Shapes /\ [Next]_vars => Shapes'
  BY ShapesStep
<1>3. Shapes => TypeOK
  BY ShapesAreTyped
<1> QED BY <1>1, <1>2, <1>3, PTL DEF Spec

-----------------------------------------------------------------------------
(***************************************************************************)
(* The steps, by what they do to the index, the scan and the transaction.  *)
(***************************************************************************)
Quiet == /\ index' = index /\ (Scans' = Scans \/ Scans' = {}) /\ (tx' = tx \/ tx' = {})
         /\ lost' = lost /\ raced' = raced

LEMMA StepKinds ==
  ASSUME [Next]_vars
  PROVE  \/ Quiet
         \/ \E c \in Clients : BeginTx(c)
         \/ Execute \/ Commit \/ OpenEmptyIndex \/ RebuildScan \/ RebuildTx
BY DEF Quiet, Scans, Next, vars, Ask, Rollback, TornWrite, Crash, NewDay, RebuildConflict,
       RunReconciliation

\* What records say stays said.
LEMMA RecordsSpeak ==
  ASSUME Shapes, [Next]_vars
  PROVE  /\ \A t \in Types : \A k, row : Backing(t, k, row) => Backing(t, k, row)'
         /\ \A v : Announced(v) => Announced(v)'
         /\ \A id : Escalated(id) => Escalated(id)'
<1>1. \A t \in Types : \A i \in Records(t) : i \in Records(t)' /\ shards'[t][i] = shards[t][i]
  BY ShardsGrow
<1>2. "audit" \in Types /\ "escalations" \in Types
  BY DEF Types
<1>3. \A t \in Types : \A k, row : Backing(t, k, row) => Backing(t, k, row)'
  BY <1>1 DEF Backing
<1>4. \A v : Announced(v) => Announced(v)'
  BY <1>1, <1>2 DEF Announced
<1>5. \A id : Escalated(id) => Escalated(id)'
  BY <1>1, <1>2 DEF Escalated
<1> QED BY <1>3, <1>4, <1>5

\* A statement that appends is backed by its own record.
LEMMA RecordOfStatement ==
  ASSUME Shapes, NEW t, NEW s, Executes(t, s), Appends(s)
  PROVE  /\ Backing(s.type, s.key, s.row)'
         /\ \A v : Announces(s, v) => Announced(v)'
<1>1. Grown(s, t.req, FALSE)
  BY DEF Executes
<1>2. PICK i \in Records(s.type)' :
        /\ shards'[s.type][i].key = s.key /\ shards'[s.type][i].row = s.row
        /\ shards'[s.type][i].torn = FALSE
  BY <1>1 DEF Grown
<1>3. Backing(s.type, s.key, s.row)'
  BY <1>2 DEF Backing
<1>4. \A v : Announces(s, v) => Announced(v)'
  BY <1>2 DEF Announces, Announced
<1> QED BY <1>3, <1>4

LEMMA BackedStep ==
  ASSUME Shapes, AllBacked, [Next]_vars
  PROVE  AllBacked'
<1>1. \A t \in Types : \A k, row : Backing(t, k, row) => Backing(t, k, row)'
  BY RecordsSpeak
<1>2. \A T : Backed(T) => Backed(T)'
  BY <1>1 DEF Backed
<1>3. CASE Quiet
  BY <1>2, <1>3 DEF Quiet, AllBacked, Backed
<1>4. ASSUME NEW c \in Clients, BeginTx(c)
      PROVE  AllBacked'
  <2>1. /\ tx' = {[req |-> p.req, todo |-> p.plan, tables |-> index] : p \in pending[c]}
        /\ index' = index /\ Scans' = Scans
    BY <1>4 DEF BeginTx, Scans
  <2>2. \A x \in tx' : x.tables = index
    BY <2>1
  <2> QED BY <1>2, <2>1, <2>2 DEF AllBacked, Backed
<1>5. CASE Execute
  <2>1. PICK t \in tx : \E s \in Statements : Executes(t, s)
    BY <1>5, ExecuteEffect
  <2>2. PICK s \in Statements : Executes(t, s)
    BY <2>1
  <2> DEFINE T == t.tables
             E == Executed(T, s)
             x == [req |-> t.req, todo |-> Tail(t.todo), tables |-> E]
  <2>3. index' = index /\ Scans' = Scans /\ (tx' = {} \/ tx' = {x})
    BY <2>2 DEF Executes, Scans
  <2>4. x.tables = E
    OBVIOUS
  <2>5. IsTables(T) /\ Backed(T)
    BY <2>2, OpenTransaction DEF Executes, Within, AllBacked
  <2> HIDE DEF x
  <2>6. \A t2 \in Types : \A k \in DOMAIN E[t2] : Backing(t2, k, E[t2][k])'
    <3>1. CASE Appends(s)
      <4>1. /\ s.type \in Types /\ s.row \in Row
            /\ \A t2 \in Types : t2 # s.type => E[t2] = T[t2]
            /\ DOMAIN E[s.type] = DOMAIN T[s.type] \cup {s.key}
            /\ E[s.type][s.key] = s.row
            /\ \A k \in DOMAIN T[s.type] : k # s.key => E[s.type][k] = T[s.type][k]
        BY <2>5, <3>1, StoredRows
      <4>2. Backing(s.type, s.key, s.row)'
        BY <2>2, <3>1, RecordOfStatement
      <4>3. \A t2 \in Types : \A k \in DOMAIN T[t2] : Backing(t2, k, T[t2][k])'
        BY <1>1, <2>5 DEF Backed
      <4> HIDE DEF E, T
      <4> QED BY <4>1, <4>2, <4>3
    <3>2. CASE ~ Appends(s)
      <4> DEFINE u == IF s.stmt = "retire_referrals" THEN "assignments" ELSE "rules"
      <4>1. /\ \A t2 \in Types : t2 # u => E[t2] = T[t2]
            /\ DOMAIN E[u] = DOMAIN T[u]
            /\ \A k \in DOMAIN T[u] : \/ E[u][k] = [T[u][k] EXCEPT !.live = FALSE]
                                      \/ E[u][k] = T[u][k]
        BY <2>5, <3>2, RetiredRows
      <4>2. u \in Types
        BY DEF Types
      <4>3. \A t2 \in Types : \A k \in DOMAIN T[t2] : T[t2][k] \in Row
        BY <2>5 DEF IsTables
      <4> HIDE DEF E, T, u
      <4>4. \A t2 \in Types : \A k \in DOMAIN E[t2] :
              /\ k \in DOMAIN T[t2]
              /\ E[t2][k].val = T[t2][k].val /\ E[t2][k].about = T[t2][k].about
        BY <4>1, <4>2, <4>3, RetiredRow
      <4>5. \A t2 \in Types : \A k \in DOMAIN T[t2] : Backing(t2, k, T[t2][k])'
        BY <1>1, <2>5 DEF Backed
      <4> QED BY <4>4, <4>5 DEF Backing
    <3> QED BY <3>1, <3>2
  <2>7. \A y \in tx' : y.tables = E
    BY <2>3, <2>4
  <2> HIDE DEF E
  <2>8. \A y \in tx' : Backed(y.tables)'
    BY <2>6, <2>7 DEF Backed
  <2> QED BY <1>2, <2>3, <2>6, <2>7 DEF AllBacked, Backed
<1>6. CASE Commit
  <2>1. PICK t \in tx : index' = t.tables
    BY <1>6 DEF Commit
  <2>2. tx' = {} /\ Scans' = Scans
    BY <1>6 DEF Commit, Scans
  <2> QED BY <1>2, <2>1, <2>2 DEF AllBacked, Backed
<1>7. CASE OpenEmptyIndex
  <2>1. index' = Empty /\ tx' = {} /\ Scans' = {}
    BY <1>7 DEF OpenEmptyIndex, Scans
  <2> QED BY <2>1 DEF AllBacked, Backed, Empty
<1>8. CASE RebuildScan
  <2>a. PICK bad \in FailedReads(Existing) :
          scan' = {[rows |-> Collected(RecordsIn(bad)), missed |-> RecordsIn(bad),
                    files |-> Existing]}
    BY <1>8 DEF RebuildScan
  <2>b. PICK C : C = Collected(RecordsIn(bad))
    OBVIOUS
  <2>1. Scans' = {C} /\ index' = index /\ tx' = tx
    BY <1>8, <2>a, <2>b DEF RebuildScan, Scans
  <2>2. Backed(C)
    <3>1. \A t \in Types : \A k \in DOMAIN C[t] : \E i \in Records(t) :
            /\ Delivers(t, i, RecordsIn(bad)) /\ shards[t][i].key = k
            /\ C[t][k] = shards[t][i].row
      BY <2>b, DaysFiled, CollectedRows
    <3>2. \A t \in Types : \A i \in Records(t) :
            Delivers(t, i, RecordsIn(bad)) => ~ shards[t][i].torn
      BY DEF Delivers, Readable
    <3>3. \A t \in Types : \A k \in DOMAIN C[t] : Backing(t, k, C[t][k])
      BY <3>1, <3>2 DEF Backing
    <3> QED BY <3>3 DEF Backed
  <2> QED BY <1>2, <2>1, <2>2 DEF AllBacked, Backed
<1>9. CASE RebuildTx
  <2>1. PICK new \in Scans : ~ Conflicts(DeleteAllData(index), new) /\ index' = Rebuilt(new)
    BY <1>9 DEF RebuildTx, Rebuilt, Scans
  <2>2. tx' = {} /\ Scans' = {}
    BY <1>9 DEF RebuildTx, Scans
  <2>a. PICK R : R = Rebuilt(new)
    OBVIOUS
  <2>b. PICK old : old = index
    OBVIOUS
  <2> DEFINE Base(t, k) == IF k \in DOMAIN new[t] THEN new[t][k] ELSE old[t][k]
  <2>3. IsTables(old) /\ IsTables(new) /\ Backed(old) /\ Backed(new)
    BY <2>b DEF Shapes, Scanned, Within, AllBacked
  <2>4. /\ \A t \in Types : DOMAIN R[t] \subseteq DOMAIN new[t] \cup DOMAIN old[t]
        /\ \A t \in Types : \A k \in DOMAIN R[t] :
             R[t][k] = [Base(t, k) EXCEPT !.live = FALSE] \/ R[t][k] = Base(t, k)
    BY <2>1, <2>3, <2>a, <2>b, RebuiltRows
  <2>5. \A t \in Types : \A k \in DOMAIN new[t] \cup DOMAIN old[t] :
          Base(t, k) \in Row /\ Backing(t, k, Base(t, k))'
    <3>1. \A t \in Types : \A k \in DOMAIN new[t] : new[t][k] \in Row /\ Backing(t, k, new[t][k])'
      BY <1>1, <2>3 DEF Backed, IsTables
    <3>2. \A t \in Types : \A k \in DOMAIN old[t] : old[t][k] \in Row /\ Backing(t, k, old[t][k])'
      BY <1>1, <2>3 DEF Backed, IsTables
    <3> QED BY <3>1, <3>2
  <2> HIDE DEF Base
  <2>6. \A t \in Types : \A k \in DOMAIN R[t] :
          /\ Backing(t, k, Base(t, k))'
          /\ R[t][k].val = Base(t, k).val /\ R[t][k].about = Base(t, k).about
    BY <2>4, <2>5, RetiredRow
  <2>7. \A t \in Types : \A k \in DOMAIN R[t] : Backing(t, k, R[t][k])'
    BY <2>6 DEF Backing
  <2>8. index' = R
    BY <2>1, <2>a
  <2> QED BY <2>2, <2>7, <2>8 DEF AllBacked, Backed
<1> QED BY <1>3, <1>4, <1>5, <1>6, <1>7, <1>8, <1>9, StepKinds

\* What Execute leaves of the tables of Standing types, row by row.
StandingEffect(T, E, s, u) ==
  LET Hit(k) == \/ s.stmt = "retire_referrals" /\ u = "assignments" /\ T[u][k].about = s.key
                \/ s.stmt = "supersede_rule" /\ u = "rules" /\ k = s.key
  IN  /\ DOMAIN T[u] \subseteq DOMAIN E[u]
      /\ \A k \in DOMAIN T[u] :
           /\ Hit(k) => E[u][k] = [T[u][k] EXCEPT !.live = FALSE]
           /\ ~ Hit(k) => E[u][k] = T[u][k]
      /\ \A k \in DOMAIN E[u] \ DOMAIN T[u] :
           s.stmt = "insert" /\ s.type = u /\ s.key = k /\ E[u][k] = s.row /\ s.row.live = TRUE
      /\ s.stmt = "insert" /\ s.type = u => s.key \in DOMAIN E[u] \ DOMAIN T[u]

LEMMA StandingRows ==
  ASSUME Shapes, NEW t \in tx, NEW s \in Statements, Executes(t, s), Accepted(t.tables, s),
         NEW u \in Standing
  PROVE  StandingEffect(t.tables, Executed(t.tables, s), s, u)
<1> DEFINE T == t.tables
           E == Executed(T, s)
<1>1. IsTables(T) /\ Sound(s, requests, day) /\ requests \in Nat /\ u \in Types
  BY OpenTransaction DEF Executes, Within, Standing, Types
<1>2. CASE Appends(s)
  <2>1. /\ s.type \in Types /\ s.row \in Row
        /\ \A t2 \in Types : t2 # s.type => E[t2] = T[t2]
        /\ DOMAIN E[s.type] = DOMAIN T[s.type] \cup {s.key}
        /\ E[s.type][s.key] = s.row
        /\ \A k \in DOMAIN T[s.type] : k # s.key => E[s.type][k] = T[s.type][k]
    BY <1>1, <1>2, StoredRows
  <2>2. s.type \in Standing => s.stmt = "insert" /\ s.row.live = TRUE
    BY <1>1, <1>2, StatementKey
  <2>3. s.stmt = "insert" => s.key \notin DOMAIN T[s.type]
    BY DEF Accepted
  <2>4. s.stmt # "retire_referrals" /\ s.stmt # "supersede_rule"
    BY <1>2 DEF Appends
  <2> HIDE DEF E, T
  <2>5. CASE s.type = u
    <3>1. StandingEffect(T, E, s, u)
      BY <2>1, <2>2, <2>3, <2>4, <2>5 DEF StandingEffect
    <3> QED BY <3>1 DEF E, T
  <2>6. CASE s.type # u
    <3>1. E[u] = T[u]
      BY <1>1, <2>1, <2>6
    <3>2. StandingEffect(T, E, s, u)
      BY <2>4, <2>6, <3>1 DEF StandingEffect
    <3> QED BY <3>2 DEF E, T
  <2> QED BY <2>5, <2>6
<1>3. CASE ~ Appends(s)
  <2> DEFINE w == IF s.stmt = "retire_referrals" THEN "assignments" ELSE "rules"
             Cut(k) == IF s.stmt = "retire_referrals" THEN T[w][k].about = s.key ELSE k = s.key
  <2>1. /\ \A t2 \in Types : t2 # w => E[t2] = T[t2]
        /\ DOMAIN E[w] = DOMAIN T[w]
        /\ \A k \in DOMAIN T[w] : /\ Cut(k) => E[w][k] = [T[w][k] EXCEPT !.live = FALSE]
                                  /\ ~ Cut(k) => E[w][k] = T[w][k]
    BY <1>1, <1>3, RetiredRows
  <2>2. s.stmt = "retire_referrals" \/ s.stmt = "supersede_rule"
    BY <1>3 DEF Appends, Statements
  <2> HIDE DEF E, T
  <2>3. u = "rules" \/ u = "assignments"
    BY DEF Standing
  <2>4. DOMAIN E[u] = DOMAIN T[u]
    BY <1>1, <2>1, <2>2, <2>3
  <2>5. \A k \in DOMAIN T[u] :
          LET Hit == \/ s.stmt = "retire_referrals" /\ u = "assignments" /\ T[u][k].about = s.key
                     \/ s.stmt = "supersede_rule" /\ u = "rules" /\ k = s.key
          IN  /\ Hit => E[u][k] = [T[u][k] EXCEPT !.live = FALSE]
              /\ ~ Hit => E[u][k] = T[u][k]
    BY <1>1, <2>1, <2>2, <2>3
  <2>6. StandingEffect(T, E, s, u)
    BY <2>2, <2>4, <2>5 DEF StandingEffect
  <2> QED BY <2>6 DEF E, T
<1> QED BY <1>2, <1>3

\* The same, as the invariants need it.
StandingOutcome(T, E, s, u) ==
  /\ \A k \in DOMAIN T[u] :
       /\ k \in DOMAIN E[u] /\ T[u][k] \in Row
       /\ E[u][k].val = T[u][k].val /\ E[u][k].about = T[u][k].about
       /\ E[u][k].live => T[u][k].live
       /\ \/ E[u][k] = T[u][k]
          \/ s.stmt = "retire_referrals" /\ u = "assignments" /\ T[u][k].about = s.key
          \/ s.stmt = "supersede_rule" /\ u = "rules" /\ k = s.key
  /\ \A k \in DOMAIN E[u] \ DOMAIN T[u] :
       /\ s.stmt = "insert" /\ s.type = u /\ s.key = k
       /\ E[u][k] = s.row /\ E[u][k].live = TRUE
  /\ s.stmt = "insert" /\ s.type = u => s.key \in DOMAIN E[u] \ DOMAIN T[u]

LEMMA StandingKept ==
  ASSUME Shapes, NEW t \in tx, NEW s \in Statements, Executes(t, s), Accepted(t.tables, s),
         NEW u \in Standing
  PROVE  StandingOutcome(t.tables, Executed(t.tables, s), s, u)
<1>a. PICK T : T = t.tables
  OBVIOUS
<1>b. PICK E : E = Executed(t.tables, s)
  OBVIOUS
<1>c. StandingEffect(T, E, s, u)
  BY <1>a, <1>b, StandingRows
<1> DEFINE Hit(k) == \/ s.stmt = "retire_referrals" /\ u = "assignments" /\ T[u][k].about = s.key
                     \/ s.stmt = "supersede_rule" /\ u = "rules" /\ k = s.key
<1>1. /\ DOMAIN T[u] \subseteq DOMAIN E[u]
      /\ \A k \in DOMAIN T[u] :
           /\ Hit(k) => E[u][k] = [T[u][k] EXCEPT !.live = FALSE]
           /\ ~ Hit(k) => E[u][k] = T[u][k]
      /\ \A k \in DOMAIN E[u] \ DOMAIN T[u] :
           s.stmt = "insert" /\ s.type = u /\ s.key = k /\ E[u][k] = s.row /\ s.row.live = TRUE
      /\ s.stmt = "insert" /\ s.type = u => s.key \in DOMAIN E[u] \ DOMAIN T[u]
  BY <1>c DEF StandingEffect
<1>2. \A k \in DOMAIN T[u] : T[u][k] \in Row
  BY <1>a, OpenTransaction DEF Executes, Within, IsTables, Types, Standing
<1>3. ASSUME NEW k \in DOMAIN T[u]
      PROVE  /\ E[u][k].val = T[u][k].val /\ E[u][k].about = T[u][k].about
             /\ E[u][k].live => T[u][k].live
             /\ E[u][k] = T[u][k] \/ Hit(k)
  <2> DEFINE row == T[u][k]
  <2>1. row \in Row
    BY <1>2, <1>3
  <2>2. E[u][k] = row \/ (E[u][k] = [row EXCEPT !.live = FALSE] /\ Hit(k))
    BY <1>1, <1>3
  <2> HIDE DEF row, Hit
  <2>3. /\ E[u][k].val = row.val /\ E[u][k].about = row.about
        /\ E[u][k].live => row.live
        /\ E[u][k] = row \/ Hit(k)
    BY <2>1, <2>2, RetiredRow
  <2> QED BY <2>3 DEF row
<1> HIDE DEF Hit
<1>4. \A k \in DOMAIN T[u] : E[u][k] = T[u][k] \/ Hit(k)
  BY <1>3
<1>5. StandingOutcome(T, E, s, u)
  BY <1>1, <1>2, <1>3, <1>4 DEF Hit, StandingOutcome
<1> QED BY <1>a, <1>b, <1>5

\* What a rebuild leaves of them.
RebuiltOutcome(R, new, u) ==
  /\ DOMAIN R[u] = DOMAIN new[u] \cup (IF u = "rules" THEN DOMAIN index[u] ELSE {})
  /\ \A k \in DOMAIN new[u] : R[u][k].about = new[u][k].about
  /\ u = "rules" => \A k \in DOMAIN index[u] :
       /\ R[u][k].val = index[u][k].val
       /\ R[u][k].live => index[u][k].live
  /\ \A k \in DOMAIN R[u] :
       \/ R[u][k].live = TRUE
       \/ u = "rules" /\ k \in DOMAIN index[u] /\ R[u][k] = index[u][k]
       \/ u = "rules" /\ \E a \in DOMAIN new["audit"] : new["audit"][a].about = k
       \/ u = "assignments" /\ \E e \in DOMAIN new["escalations"] :
                                 new["escalations"][e].about = R[u][k].about

LEMMA StandingRebuilt ==
  ASSUME Shapes, NEW new \in Scans, ~ Conflicts(DeleteAllData(index), new), NEW u \in Standing
  PROVE  RebuiltOutcome(Rebuilt(new), new, u)
<1>a. PICK R : R = Rebuilt(new)
  OBVIOUS
<1> DEFINE Base(t, k) == IF k \in DOMAIN new[t] THEN new[t][k] ELSE index[t][k]
           Hit(t, k) == \/ /\ t = "assignments"
                           /\ \E e \in DOMAIN new["escalations"] :
                                new["escalations"][e].about = Base(t, k).about
                        \/ /\ t = "rules"
                           /\ \E a \in DOMAIN new["audit"] : new["audit"][a].about = k
<1>1. IsTables(index) /\ IsTables(new) /\ u \in Types
  BY DEF Shapes, Scanned, Within, Standing, Types
<1>2. /\ \A t \in Types : DOMAIN R[t] = DOMAIN new[t] \cup (IF t = "rules" THEN DOMAIN index[t] ELSE {})
      /\ DOMAIN new["rules"] \cap DOMAIN index["rules"] = {}
      /\ \A t \in Types : \A k \in DOMAIN R[t] :
           /\ Hit(t, k) => R[t][k] = [Base(t, k) EXCEPT !.live = FALSE]
           /\ ~ Hit(t, k) => R[t][k] = Base(t, k)
  BY <1>a, <1>1, RebuiltRows
<1>3. \A k \in DOMAIN new[u] : new[u][k].live = TRUE
  BY DEF Shapes, Scanned
<1>4. \A k \in DOMAIN R[u] :
        /\ Base(u, k) \in Row
        /\ k \in DOMAIN new[u] => Base(u, k) = new[u][k]
        /\ k \notin DOMAIN new[u] => u = "rules" /\ k \in DOMAIN index[u] /\ Base(u, k) = index[u][k]
        /\ u = "rules" /\ k \in DOMAIN index[u] => Base(u, k) = index[u][k]
  BY <1>1, <1>2 DEF IsTables
<1>5. ASSUME NEW k \in DOMAIN R[u]
      PROVE  /\ R[u][k].val = Base(u, k).val /\ R[u][k].about = Base(u, k).about
             /\ R[u][k].live => Base(u, k).live
             /\ R[u][k] = Base(u, k) \/ Hit(u, k)
  <2> DEFINE row == Base(u, k)
  <2>1. row \in Row
    BY <1>4, <1>5
  <2>2. R[u][k] = row \/ (R[u][k] = [row EXCEPT !.live = FALSE] /\ Hit(u, k))
    BY <1>1, <1>2, <1>5
  <2> HIDE DEF row, Hit
  <2>3. /\ R[u][k].val = row.val /\ R[u][k].about = row.about
        /\ R[u][k].live => row.live
        /\ R[u][k] = row \/ Hit(u, k)
    BY <2>1, <2>2, RetiredRow
  <2> QED BY <2>3 DEF row
<1>6. \A k \in DOMAIN R[u] : Hit(u, k) =>
        \/ u = "rules" /\ \E a \in DOMAIN new["audit"] : new["audit"][a].about = k
        \/ u = "assignments" /\ \E e \in DOMAIN new["escalations"] :
                                  new["escalations"][e].about = R[u][k].about
  BY <1>5
<1> HIDE DEF Base, Hit
<1>7. DOMAIN R[u] = DOMAIN new[u] \cup (IF u = "rules" THEN DOMAIN index[u] ELSE {})
  BY <1>1, <1>2
<1>8. \A k \in DOMAIN new[u] : R[u][k].about = new[u][k].about
  BY <1>4, <1>5, <1>7
<1>9. u = "rules" => \A k \in DOMAIN index[u] :
        R[u][k].val = index[u][k].val /\ (R[u][k].live => index[u][k].live)
  BY <1>4, <1>5, <1>7
<1>10. \A k \in DOMAIN R[u] :
         \/ R[u][k].live = TRUE
         \/ u = "rules" /\ k \in DOMAIN index[u] /\ R[u][k] = index[u][k]
         \/ Hit(u, k)
  BY <1>3, <1>4, <1>5
<1>11. RebuiltOutcome(R, new, u)
  BY <1>6, <1>7, <1>8, <1>9, <1>10 DEF RebuiltOutcome
<1> QED BY <1>a, <1>11

LEMMA RulesCarriedStep ==
  ASSUME Shapes, RulesCarried, [Next]_vars
  PROVE  RulesCarried'
<1>1. CASE Quiet
  BY <1>1 DEF Quiet, RulesCarried
<1>2. ASSUME NEW c \in Clients, BeginTx(c)
      PROVE  RulesCarried'
  <2>1. /\ tx' = {[req |-> p.req, todo |-> p.plan, tables |-> index] : p \in pending[c]}
        /\ index' = index
    BY <1>2 DEF BeginTx
  <2>2. \A x \in tx' : x.tables = index
    BY <2>1
  <2> QED BY <2>1, <2>2 DEF RulesCarried
<1>3. CASE Execute
  <2>1. PICK t \in tx : \E s \in Statements : Executes(t, s)
    BY <1>3, ExecuteEffect
  <2>2. PICK s \in Statements : Executes(t, s)
    BY <2>1
  <2> DEFINE T == t.tables
             E == Executed(T, s)
             x == [req |-> t.req, todo |-> Tail(t.todo), tables |-> E]
  <2>3. index' = index /\ (tx' = {} \/ (tx' = {x} /\ Accepted(T, s)))
    BY <2>2 DEF Executes
  <2>4. x.tables = E
    OBVIOUS
  <2>5. PICK u \in Standing : u = "rules"
    BY DEF Standing
  <2>6. Accepted(T, s) => StandingOutcome(T, E, s, u)
    BY <2>2, StandingKept
  <2> HIDE DEF x, E
  <2> QED BY <2>3, <2>4, <2>5, <2>6 DEF RulesCarried, StandingOutcome
<1>4. CASE Commit \/ OpenEmptyIndex \/ RebuildTx
  <2>1. tx' = {}
    BY <1>4 DEF Commit, OpenEmptyIndex, RebuildTx
  <2> QED BY <2>1 DEF RulesCarried
<1>5. CASE RebuildScan
  BY <1>5 DEF RebuildScan, RulesCarried
<1> QED BY <1>1, <1>2, <1>3, <1>4, <1>5, StepKinds

LEMMA AccountedStep ==
  ASSUME Shapes, AllBacked, Accounted, [Next]_vars
  PROVE  Accounted'
<1>1. \A v : Announced(v) => Announced(v)'
  BY RecordsSpeak
<1>2. CASE Quiet
  BY <1>1, <1>2 DEF Quiet, Accounted
<1>3. ASSUME NEW c \in Clients, BeginTx(c)
      PROVE  Accounted'
  <2>1. /\ tx' = {[req |-> p.req, todo |-> p.plan, tables |-> index] : p \in pending[c]}
        /\ index' = index
    BY <1>3 DEF BeginTx
  <2>2. \A x \in tx' : x.tables = index
    BY <2>1
  <2> QED BY <1>1, <2>1, <2>2 DEF Accounted
<1>4. CASE Execute
  <2>1. PICK t \in tx : \E s \in Statements : Executes(t, s)
    BY <1>4, ExecuteEffect
  <2>2. PICK s \in Statements : Executes(t, s)
    BY <2>1
  <2> DEFINE T == t.tables
             E == Executed(T, s)
             rest == Tail(t.todo)
             x == [req |-> t.req, todo |-> rest, tables |-> E]
  <2>3. index' = index /\ (tx' = {} \/ (tx' = {x} /\ Accepted(T, s)))
    BY <2>2 DEF Executes
  <2>4. x.tables = E /\ x.todo = rest
    OBVIOUS
  <2>5. s = Head(t.todo) /\ t.todo # <<>>
    BY <2>2 DEF Executes
  <2>6. s.stmt = "supersede_rule" => rest # <<>> /\ Announces(Head(rest), s.key)
    <3>1. requests \in Nat /\ PlanOK(t.todo, requests, day)
      BY DEF Shapes, Counters, Running
    <3> QED BY <2>5, <3>1, RestOfPlan
  <2>7. \A v : Announces(s, v) => Announced(v)'
    BY <2>2, RecordOfStatement DEF Announces, Appends
  <2>8. \A v \in DOMAIN T["rules"] : ~ T["rules"][v].live => Announced(v)'
    BY <1>1, <2>5, <2>7 DEF Accounted
  <2>9. ASSUME Accepted(T, s)
        PROVE  \A v \in DOMAIN E["rules"] : ~ E["rules"][v].live =>
                 Announced(v)' \/ (rest # <<>> /\ Announces(Head(rest), v))
    <3>1. PICK u \in Standing : u = "rules"
      BY DEF Standing
    <3>2. StandingOutcome(T, E, s, u)
      BY <2>2, <2>9, StandingKept
    <3> HIDE DEF E, T, rest
    <3> QED BY <2>6, <2>8, <3>1, <3>2 DEF StandingOutcome
  <2> HIDE DEF x, E, T, rest
  <2> QED BY <1>1, <2>3, <2>4, <2>9 DEF Accounted
<1>5. CASE Commit
  <2>1. PICK t \in tx : index' = t.tables /\ t.todo = <<>>
    BY <1>5 DEF Commit
  <2>2. tx' = {}
    BY <1>5 DEF Commit
  <2> QED BY <1>1, <2>1, <2>2 DEF Accounted
<1>6. CASE OpenEmptyIndex
  BY <1>6 DEF OpenEmptyIndex, Accounted, Empty, Types
<1>7. CASE RebuildScan
  BY <1>1, <1>7 DEF RebuildScan, Accounted
<1>8. CASE RebuildTx
  <2>1. PICK new \in Scans : ~ Conflicts(DeleteAllData(index), new) /\ index' = Rebuilt(new)
    BY <1>8 DEF RebuildTx, Rebuilt, Scans
  <2>2. tx' = {} /\ shards' = shards
    BY <1>8 DEF RebuildTx
  <2>3. IsTables(index) /\ IsTables(new) /\ "rules" \in Types /\ "audit" \in Types /\ "rules" \in Standing
    BY DEF Shapes, Scanned, Within, Types, Standing
  <2>4. \A v \in DOMAIN index'["rules"] :
          \/ index'["rules"][v].live = TRUE
          \/ v \in DOMAIN index["rules"] /\ index'["rules"][v] = index["rules"][v]
          \/ \E a \in DOMAIN new["audit"] : new["audit"][a].about = v
    <3>1. PICK u \in Standing : u = "rules"
      BY DEF Standing
    <3>2. PICK R : R = Rebuilt(new)
      OBVIOUS
    <3>3. RebuiltOutcome(R, new, u)
      BY <2>1, <3>2, StandingRebuilt
    <3> QED BY <2>1, <3>1, <3>2, <3>3 DEF RebuiltOutcome
  <2>5. \A a \in DOMAIN new["audit"] : Announced(new["audit"][a].about)
    BY <2>3 DEF AllBacked, Backed, Backing, Announced
  <2>7. \A v \in DOMAIN index'["rules"] : ~ index'["rules"][v].live => Announced(v)
    BY <2>4, <2>5 DEF Accounted
  <2>8. \A v \in DOMAIN index'["rules"] : ~ index'["rules"][v].live => Announced(v)'
    BY <1>1, <2>7
  <2> QED BY <2>2, <2>8 DEF Accounted
<1> QED BY <1>2, <1>3, <1>4, <1>5, <1>6, <1>7, <1>8, StepKinds

LEMMA ReferredStep ==
  ASSUME Shapes, AllBacked, Referred, [Next]_vars
  PROVE  Referred'
<1>1. \A id : Escalated(id) => Escalated(id)'
  BY RecordsSpeak
<1>2. CASE Quiet
  BY <1>1, <1>2 DEF Quiet, Referred, Succeeded
<1>3. ASSUME NEW c \in Clients, BeginTx(c)
      PROVE  Referred'
  <2>1. /\ tx' = {[req |-> p.req, todo |-> p.plan, tables |-> index] : p \in pending[c]}
        /\ index' = index
    BY <1>3 DEF BeginTx
  <2>2. \A x \in tx' : x.tables = index
    BY <2>1
  <2> QED BY <1>1, <2>1, <2>2 DEF Referred, Succeeded
<1>4. CASE Execute
  <2>1. PICK t \in tx : \E s \in Statements : Executes(t, s)
    BY <1>4, ExecuteEffect
  <2>2. PICK s \in Statements : Executes(t, s)
    BY <2>1
  <2>a. PICK T : T = t.tables
    OBVIOUS
  <2>b. PICK E : E = Executed(t.tables, s)
    OBVIOUS
  <2>c. PICK rest : rest = Tail(t.todo)
    OBVIOUS
  <2> DEFINE x == [req |-> t.req, todo |-> rest, tables |-> E]
  <2>3. index' = index /\ (tx' = {} \/ (tx' = {x} /\ Accepted(T, s)))
    BY <2>2, <2>a, <2>b, <2>c DEF Executes
  <2>4. x.tables = E /\ x.todo = rest
    OBVIOUS
  <2>5. s = Head(t.todo) /\ t.todo # <<>>
    BY <2>2 DEF Executes
  <2>6. s.stmt = "retire_referrals" => rest # <<>> /\ Refers(Head(rest), s.key)
    <3>1. requests \in Nat /\ PlanOK(t.todo, requests, day)
      BY DEF Shapes, Counters, Running
    <3> QED BY <2>5, <2>c, <3>1, RestOfPlan
  <2>7. PICK u \in Standing : u = "assignments"
    BY DEF Standing
  <2>8. \A k \in DOMAIN T[u] : ~ T[u][k].live =>
          Escalated(T[u][k].about)' \/ Succeeded(T, k) \/ Refers(s, T[u][k].about)
    BY <1>1, <2>5, <2>7, <2>a DEF Referred
  <2>9. ASSUME Accepted(T, s), NEW k \in DOMAIN E[u], ~ E[u][k].live
        PROVE  \/ Escalated(E[u][k].about)' \/ Succeeded(E, k)
               \/ rest # <<>> /\ Refers(Head(rest), E[u][k].about)
    <3>1. StandingOutcome(T, E, s, u)
      BY <2>2, <2>9, <2>a, <2>b, StandingKept
    <3>2. k \in DOMAIN T[u] /\ E[u][k].about = T[u][k].about
      BY <2>9, <3>1 DEF StandingOutcome
    <3>3. CASE E[u][k] = T[u][k]
      <4>1. CASE Succeeded(T, k)
        BY <2>7, <3>1, <3>2, <4>1 DEF StandingOutcome, Succeeded
      <4>2. CASE Refers(s, T[u][k].about)
        <5>1. s.key \in DOMAIN E[u] \ DOMAIN T[u] /\ E[u][s.key].about = T[u][k].about
          BY <2>7, <3>1, <4>2 DEF StandingOutcome, Refers
        <5> QED BY <2>7, <3>2, <5>1 DEF Succeeded
      <4> QED BY <2>8, <2>9, <3>2, <3>3, <4>1, <4>2
    <3>4. CASE s.stmt = "retire_referrals" /\ T[u][k].about = s.key
      BY <2>6, <3>2, <3>4
    <3> QED BY <2>7, <3>1, <3>2, <3>3, <3>4 DEF StandingOutcome
  <2> HIDE DEF x
  <2>10. \A y \in tx' : y.tables = E /\ y.todo = rest /\ Accepted(T, s)
    BY <2>3, <2>4
  <2>11. PICK old : old = index
    OBVIOUS
  <2>12. index' = old
    BY <2>3, <2>11
  <2>13. \A k \in DOMAIN old["assignments"] : ~ old["assignments"][k].live =>
           Escalated(old["assignments"][k].about)' \/ Succeeded(old, k)
    BY <1>1, <2>11 DEF Referred
  <2> QED BY <2>7, <2>9, <2>10, <2>12, <2>13 DEF Referred, Succeeded
<1>5. CASE Commit
  <2>1. PICK t \in tx : index' = t.tables /\ t.todo = <<>>
    BY <1>5 DEF Commit
  <2>2. tx' = {}
    BY <1>5 DEF Commit
  <2> QED BY <1>1, <2>1, <2>2 DEF Referred, Succeeded
<1>6. CASE OpenEmptyIndex
  BY <1>6 DEF OpenEmptyIndex, Referred, Empty, Types
<1>7. CASE RebuildScan
  BY <1>1, <1>7 DEF RebuildScan, Referred, Succeeded
<1>8. CASE RebuildTx
  <2>1. PICK new \in Scans : ~ Conflicts(DeleteAllData(index), new) /\ index' = Rebuilt(new)
    BY <1>8 DEF RebuildTx, Rebuilt, Scans
  <2>2. tx' = {} /\ shards' = shards
    BY <1>8 DEF RebuildTx
  <2>3. PICK u \in Standing : u = "assignments"
    BY DEF Standing
  <2>4. PICK R : R = Rebuilt(new)
    OBVIOUS
  <2>5. RebuiltOutcome(R, new, u)
    BY <2>1, <2>4, StandingRebuilt
  <2>6. \A k \in DOMAIN R[u] : ~ R[u][k].live =>
          \E e \in DOMAIN new["escalations"] : new["escalations"][e].about = R[u][k].about
    BY <2>3, <2>5 DEF RebuiltOutcome
  <2>7. \A e \in DOMAIN new["escalations"] : Escalated(new["escalations"][e].about)
    BY DEF AllBacked, Backed, Backing, Escalated, Types
  <2>8. \A k \in DOMAIN R[u] : ~ R[u][k].live => Escalated(R[u][k].about)'
    BY <1>1, <2>6, <2>7
  <2> QED BY <2>1, <2>2, <2>3, <2>4, <2>8 DEF Referred
<1> QED BY <1>2, <1>3, <1>4, <1>5, <1>6, <1>7, <1>8, StepKinds

\* A request number is drawn once.
LEMMA NumberedStep ==
  ASSUME Shapes, Numbered, [Next]_vars
  PROVE  Numbered'
<1>1. /\ requests \in Nat /\ committed \subseteq 1 .. requests
      /\ \A t \in Types : \A i \in Records(t) : shards[t][i].req \in 1 .. requests
      /\ \A t \in tx : t.req \in 1 .. requests
      /\ DOMAIN pending = Clients
      /\ \A c \in Clients : \A p \in pending[c] : p.req \in 1 .. requests
  BY DEF Shapes, Counters, Filed, Running, Asked
<1>2. ASSUME NEW c \in Clients, NEW op \in Ops, Ask(c, op)
      PROVE  Numbered'
  <2>1. PICK plan : pending' = [pending EXCEPT ![c] = {[req |-> requests + 1, plan |-> plan]}]
    BY <1>2 DEF Ask
  <2>2. UNCHANGED <<shards, tx, committed>> /\ tx = {}
    BY <1>2 DEF Ask
  <2>3. /\ \A d \in Clients : d # c => pending'[d] = pending[d]
        /\ \A p \in pending'[c] : p.req = requests + 1
    BY <1>1, <2>1
  <2>4. \A d \in Clients : \A p \in pending'[d] :
          (d = c /\ p.req = requests + 1) \/ (d # c /\ p \in pending[d] /\ p.req \in 1 .. requests)
    BY <1>1, <2>3
  <2>5. \A d \in Clients : \A p \in pending'[d] :
          /\ p.req \notin committed
          /\ \A t \in Types : \A i \in Records(t) : shards[t][i].req # p.req
    BY <1>1, <2>4 DEF Numbered
  <2>6. \A d \in Clients : \A p \in pending'[d] :
          \A e \in Clients \ {d} : \A q \in pending'[e] : q.req # p.req
    BY <1>1, <2>4 DEF Numbered
  <2> QED BY <2>2, <2>5, <2>6 DEF Numbered, Records
<1>3. ASSUME NEW c \in Clients, BeginTx(c)
      PROVE  Numbered'
  <2>1. /\ tx' = {[req |-> p.req, todo |-> p.plan, tables |-> index] : p \in pending[c]}
        /\ pending' = [pending EXCEPT ![c] = {}] /\ UNCHANGED <<shards, committed>>
    BY <1>3 DEF BeginTx
  <2>2. \A x \in tx' : \E p \in pending[c] : x.req = p.req
    BY <2>1
  <2>3. \A d \in Clients : pending'[d] = IF d = c THEN {} ELSE pending[d]
    BY <1>1, <2>1
  <2> QED BY <2>1, <2>2, <2>3 DEF Numbered, Records
<1>4. ASSUME NEW s, NEW t \in tx, NEW torn, Grown(s, t.req, torn),
             UNCHANGED <<pending, committed>>, \A x \in tx' : x.req = t.req
      PROVE  Numbered'
  <2>1. \A u \in Types : \A i \in Records(u)' :
          \/ i \in Records(u) /\ shards'[u][i] = shards[u][i]
          \/ shards'[u][i].req = t.req
    <3>1. \A i \in Records(s.type)' :
            \/ i \in Records(s.type) /\ shards'[s.type][i] = shards[s.type][i]
            \/ shards'[s.type][i].req = t.req
      BY <1>4 DEF Grown
    <3>2. \A u \in Types : u # s.type => shards'[u] = shards[u]
      BY <1>4 DEF Grown
    <3> QED BY <3>1, <3>2 DEF Records
  <2>2. \A u \in Types : \A i \in Records(u)' :
          \A c \in Clients : \A p \in pending[c] : shards'[u][i].req # p.req
    BY <2>1 DEF Numbered
  <2> QED BY <1>4, <2>2 DEF Numbered
<1>5. CASE Execute
  <2>1. PICK t \in tx : \E s \in Statements : Executes(t, s)
    BY <1>5, ExecuteEffect
  <2>2. PICK s \in Statements : Executes(t, s)
    BY <2>1
  <2>3. \A x \in tx' : x.req = t.req
    BY <2>2 DEF Executes
  <2>4. UNCHANGED <<pending, committed>>
    BY <2>2 DEF Executes
  <2>5. CASE Appends(s)
    BY <1>4, <2>2, <2>3, <2>4, <2>5 DEF Executes
  <2>6. CASE ~ Appends(s)
    <3>1. shards' = shards
      BY <2>2, <2>6 DEF Executes
    <3> QED BY <2>3, <2>4, <3>1 DEF Numbered, Records
  <2> QED BY <2>5, <2>6
<1>6. CASE TornWrite
  <2>1. PICK t \in tx : \E s \in Statements : Tears(t, s)
    BY <1>6, TornEffect
  <2> QED BY <1>4, <2>1 DEF Tears
<1>7. CASE Commit
  <2>1. PICK t \in tx : committed' = committed \cup {t.req}
    BY <1>7 DEF Commit
  <2>2. tx' = {} /\ UNCHANGED <<shards, pending>>
    BY <1>7 DEF Commit
  <2> QED BY <2>1, <2>2 DEF Numbered, Records
<1>8. CASE Crash
  <2>1. tx' = {} /\ pending' = [c \in Clients |-> {}] /\ UNCHANGED <<shards, committed>>
    BY <1>8 DEF Crash
  <2> QED BY <2>1 DEF Numbered
<1>9. CASE UNCHANGED <<pending, shards, committed>> /\ (tx' = tx \/ tx' = {})
  BY <1>9 DEF Numbered, Records
<1>10. \/ \E c \in Clients, op \in Ops : Ask(c, op)
       \/ \E c \in Clients : BeginTx(c)
       \/ Execute \/ TornWrite \/ Commit \/ Crash
       \/ UNCHANGED <<pending, shards, committed>> /\ (tx' = tx \/ tx' = {})
  BY DEF Next, vars, Rollback, NewDay, OpenEmptyIndex, RebuildScan, RebuildTx, RebuildConflict,
         RunReconciliation
<1> QED BY <1>2, <1>3, <1>5, <1>6, <1>7, <1>8, <1>9, <1>10

-----------------------------------------------------------------------------
(***************************************************************************)
(* The newest record of a key.                                             *)
(***************************************************************************)
Last(t, k) == LastOf(t, History(t, k))

LEMMA LastOfKey ==
  ASSUME ShardsOK, DaysOK, NEW t \in Types, NEW k, History(t, k) # {}
  PROVE  /\ Last(t, k) \in History(t, k) /\ Last(t, k) \in Records(t) /\ Last(t, k) \in Nat
         /\ Newest(t, k) = shards[t][Last(t, k)]
         /\ \A i \in History(t, k) : ReadBefore(shards[t], i, Last(t, k))
<1> DEFINE h == History(t, k)
<1>1. /\ Len(shards[t]) \in Nat /\ h \in SUBSET (1 .. Len(shards[t]))
      /\ h \in SUBSET Records(t) /\ \A i \in h : shards[t][i].day \in 1 .. MaxDay
  BY DEF ShardsOK, DaysOK, Records, History
<1>2. Last(t, k) = LastIn(shards[t], h) /\ Newest(t, k) = shards[t][Last(t, k)]
  BY DEF Last, LastOf, LastIn, Newest
<1> HIDE DEF h
<1>3. h # {}
  BY DEF h
<1>4. /\ LastIn(shards[t], h) \in h
      /\ \A i \in h : ReadBefore(shards[t], i, LastIn(shards[t], h))
  BY <1>1, <1>3, LastIsLast
<1> QED BY <1>1, <1>2, <1>4 DEF h

\* After an append the newest record of its key is the new one, unless the new
\* one was inserted into the file of an earlier day; the others stand.
Stands(t, k) == Last(t, k)' = Last(t, k) /\ Newest(t, k)' = Newest(t, k)

HistoryOutcome(s, n) ==
  /\ History(s.type, s.key)' # {}
  /\ \/ Newest(s.type, s.key)'.req = n /\ Newest(s.type, s.key)'.row = s.row
     \/ s.stmt = "insert" /\ History(s.type, s.key) # {} /\ Stands(s.type, s.key)
  /\ \A t \in Types : \A k : t # s.type \/ k # s.key =>
       History(t, k)' = History(t, k) /\ (History(t, k) # {} => Stands(t, k))

LEMMA HistoryGrows ==
  ASSUME Shapes, NEW s \in Statements, Appends(s), NEW n, NEW torn, Grown(s, n, torn)
  PROVE  HistoryOutcome(s, n)
<1> DEFINE u    == s.type
           last == Len(shards[s.type]) + 1
           key  == s.key
<1>1. /\ u \in Types /\ Len(shards[u]) \in Nat /\ last = Len(shards[u]) + 1
      /\ Records(u) = 1 .. Len(shards[u]) /\ Records(u)' = 1 .. last
      /\ \A i \in Records(u) : shards'[u][i] = shards[u][i]
      /\ shards'[u][last].key = key /\ shards'[u][last].row = s.row
      /\ shards'[u][last].req = n
      /\ shards'[u][last].day = FilingDay(s) /\ shards'[u][last].day \in 1 .. day
      /\ \A t \in Types : t # u => shards'[t] = shards[t]
  BY DEF Grown
<1>2. /\ ShardsOK /\ DaysOK /\ day \in Nat /\ day <= MaxDay /\ MaxDay \in Nat
      /\ \A i \in Records(u) : shards[u][i].day \in 1 .. day
  BY <1>1, DaysFiled, StoreAssumption DEF Shapes, Filed
<1>a. s.stmt = "update" => shards'[u][last].day = day
  BY <1>1 DEF FilingDay
<1>b. s.stmt = "insert" \/ s.stmt = "update"
  BY DEF Appends
<1> HIDE DEF u, last, key
<1>c. last \in Nat /\ last \notin Records(u)
  BY <1>1
<1>3. PICK new : new = shards'[u]
  OBVIOUS
<1>4. PICK h : h = History(u, key)
  OBVIOUS
<1>5. PICK g : g = History(u, key)'
  OBVIOUS
<1>6. g = h \cup {last} /\ h \subseteq Records(u) /\ last \in g
  BY <1>1, <1>3, <1>4, <1>5, <1>c DEF History
<1>7. /\ g \in SUBSET (1 .. last) /\ g # {}
      /\ \A i \in h : new[i] = shards[u][i]
      /\ \A i \in g : new[i].day \in 1 .. day /\ new[i].day \in 1 .. MaxDay
  <2>1. g \in SUBSET (1 .. last) /\ g # {}
    <3>1. Records(u) \subseteq 1 .. last /\ last \in 1 .. last
      BY <1>1
    <3>2. \A i \in g : i \in Records(u) \/ i = last
      BY <1>6
    <3> QED BY <1>6, <3>1, <3>2
  <2>2. \A i \in h : new[i] = shards[u][i]
    BY <1>1, <1>3, <1>6
  <2>3. \A i \in g : new[i].day \in 1 .. day
    <3>1. \A i \in h : shards[u][i].day \in 1 .. day
      BY <1>2, <1>6
    <3>2. new[last].day \in 1 .. day
      BY <1>1, <1>3
    <3>3. \A i \in g : i \in h \/ i = last
      BY <1>6
    <3> QED BY <2>2, <3>1, <3>2, <3>3
  <2>4. \A x \in 1 .. day : x \in 1 .. MaxDay
    BY <1>2
  <2>5. \A i \in g : new[i].day \in 1 .. MaxDay
    BY <2>3, <2>4
  <2> QED BY <2>1, <2>2, <2>3, <2>5
<1>8. PICK m : m = LastIn(new, g)
  OBVIOUS
<1>9. m \in g /\ m \in Nat /\ \A i \in g : ReadBefore(new, i, m)
  <2>1. /\ LastIn(new, g) \in g
        /\ \A i \in g : ReadBefore(new, i, LastIn(new, g))
    BY <1>7, <1>c, LastIsLast
  <2> QED BY <1>7, <1>8, <1>c, <2>1
<1>10. Last(u, key)' = m /\ Newest(u, key)' = new[m]
  BY <1>3, <1>5, <1>8 DEF Last, LastOf, LastIn, Newest
<1>11. ASSUME NEW t \in Types, NEW k, t # u \/ k # key
       PROVE  History(t, k)' = History(t, k) /\ (History(t, k) # {} => Stands(t, k))
  <2>1. CASE t # u
    <3>1. shards'[t] = shards[t]
      BY <1>1, <2>1
    <3>2. History(t, k)' = History(t, k)
      BY <3>1 DEF History, Records
    <3> QED BY <3>1, <3>2 DEF Stands, Last, LastOf, Newest
  <2>2. CASE t = u /\ k # key
    <3>1. History(u, k)' = History(u, k)
      BY <1>1, <2>2, <1>c DEF History
    <3>2. ASSUME History(u, k) # {}
          PROVE  Stands(u, k)
      <4>1. PICK e : e = History(u, k)
        OBVIOUS
      <4>2. \A i \in e : new[i] = shards[u][i]
        BY <1>1, <1>3, <4>1 DEF History
      <4>3. LastIn(new, e) = LastIn(shards[u], e)
        BY <4>2, LastOfSame
      <4>4. Last(u, k) = LastIn(shards[u], e) /\ Last(u, k)' = LastIn(new, e)
        BY <1>3, <3>1, <4>1 DEF Last, LastOf, LastIn
      <4>5. Last(u, k) \in e /\ Newest(u, k) = shards[u][Last(u, k)]
        BY <1>1, <1>2, <3>2, <4>1, LastOfKey
      <4>6. Newest(u, k)' = new[Last(u, k)']
        BY <1>3 DEF Newest, Last
      <4> QED BY <4>2, <4>3, <4>4, <4>5, <4>6 DEF Stands
    <3> QED BY <2>2, <3>1, <3>2
  <2> QED BY <1>11, <2>1, <2>2
<1>12. CASE m = last
  <2>1. Newest(u, key)'.req = n /\ Newest(u, key)'.row = s.row
    BY <1>1, <1>3, <1>10, <1>12
  <2> QED BY <1>5, <1>7, <2>1, <1>11 DEF HistoryOutcome, u, key
<1>13. CASE m # last
  <2>1. m \in h /\ h # {}
    BY <1>6, <1>9, <1>13
  <2>2. s.stmt = "insert"
    <3> SUFFICES ASSUME s.stmt = "update"
                 PROVE  FALSE
      BY <1>b
    <3>1. /\ new[last].day = day /\ new[m].day \in 1 .. day /\ m <= last
          /\ new[last].day \in 1 .. MaxDay /\ new[m].day \in 1 .. MaxDay
      BY <1>3, <1>6, <1>7, <1>9, <1>a
    <3>2. ReadBefore(new, m, last) /\ ReadBefore(new, last, m)
      BY <1>2, <1>6, <1>9, <1>c, <3>1 DEF ReadBefore
    <3> QED BY <1>9, <1>13, <1>c, <3>1, <3>2, LastIsUnique
  <2>3. PICK l : l = Last(u, key)
    OBVIOUS
  <2>4. /\ l \in h /\ l \in Nat /\ Newest(u, key) = shards[u][l]
        /\ \A i \in h : ReadBefore(shards[u], i, l)
    BY <1>1, <1>2, <1>4, <2>1, <2>3, LastOfKey
  <2>5. ReadBefore(new, m, l) /\ ReadBefore(new, l, m)
    <3>1. new[m] = shards[u][m] /\ new[l] = shards[u][l] /\ l \in g
      BY <1>6, <1>7, <2>1, <2>4
    <3>2. ReadBefore(shards[u], m, l) /\ ReadBefore(new, l, m)
      BY <1>9, <2>1, <2>4, <3>1
    <3> QED BY <3>1, <3>2 DEF ReadBefore
  <2>6. new[m].day \in 1 .. MaxDay /\ new[l].day \in 1 .. MaxDay
    BY <1>6, <1>7, <2>1, <2>4
  <2>7. m = l
    BY <1>9, <2>4, <2>5, <2>6, LastIsUnique
  <2>8. Stands(u, key)
    BY <1>7, <1>10, <2>3, <2>4, <2>7 DEF Stands
  <2> QED BY <1>4, <1>5, <1>7, <2>1, <2>2, <2>8, <1>11 DEF HistoryOutcome, u, key
<1> QED BY <1>12, <1>13

\* What Execute leaves of the values of the open transaction.
ValuesOutcome(T, E, s) ==
  /\ Appends(s) => /\ s.type \in Types /\ s.key \in DOMAIN E[s.type]
                   /\ E[s.type][s.key] = s.row
  /\ \A t \in Types : \A k \in DOMAIN T[t] :
       \/ Appends(s) /\ t = s.type /\ k = s.key
       \/ k \in DOMAIN E[t] /\ E[t][k].val = T[t][k].val

LEMMA ValuesKept ==
  ASSUME NEW T, IsTables(T), NEW s \in Statements
  PROVE  ValuesOutcome(T, Executed(T, s), s)
<1>1. PICK E : E = Executed(T, s)
  OBVIOUS
<1>2. CASE Appends(s)
  <2>1. /\ s.type \in Types /\ s.row \in Row
        /\ \A t2 \in Types : t2 # s.type => E[t2] = T[t2]
        /\ DOMAIN E[s.type] = DOMAIN T[s.type] \cup {s.key}
        /\ E[s.type][s.key] = s.row
        /\ \A k \in DOMAIN T[s.type] : k # s.key => E[s.type][k] = T[s.type][k]
    BY <1>1, <1>2, StoredRows
  <2>2. ValuesOutcome(T, E, s)
    BY <1>2, <2>1 DEF ValuesOutcome
  <2> QED BY <1>1, <2>2
<1>3. CASE ~ Appends(s)
  <2> DEFINE u == IF s.stmt = "retire_referrals" THEN "assignments" ELSE "rules"
  <2>1. /\ \A t2 \in Types : t2 # u => E[t2] = T[t2]
        /\ DOMAIN E[u] = DOMAIN T[u]
        /\ \A k \in DOMAIN T[u] : \/ E[u][k] = [T[u][k] EXCEPT !.live = FALSE]
                                  \/ E[u][k] = T[u][k]
    BY <1>1, <1>3, RetiredRows
  <2>2. \A t2 \in Types : \A k \in DOMAIN T[t2] : T[t2][k] \in Row
    BY DEF IsTables
  <2>3. u \in Types
    BY DEF Types
  <2> HIDE DEF u
  <2>4. ASSUME NEW t2 \in Types, NEW k \in DOMAIN T[t2]
        PROVE  k \in DOMAIN E[t2] /\ E[t2][k].val = T[t2][k].val
    <3>1. T[t2][k] \in Row
      BY <2>2, <2>4
    <3>2. k \in DOMAIN E[t2]
      BY <2>1, <2>4
    <3>3. E[t2][k] = [T[t2][k] EXCEPT !.live = FALSE] \/ E[t2][k] = T[t2][k]
      BY <2>1, <2>4
    <3> QED BY <3>1, <3>2, <3>3, RetiredRow
  <2>5. ValuesOutcome(T, E, s)
    BY <1>3, <2>4 DEF ValuesOutcome
  <2> QED BY <1>1, <2>5
<1> QED BY <1>2, <1>3

\* What a rebuild makes of the values it collected.
RebuiltValues(R, new) ==
  \A t \in Types :
    /\ t # "rules" => DOMAIN R[t] = DOMAIN new[t]
    /\ \A k \in DOMAIN new[t] : k \in DOMAIN R[t] /\ R[t][k].val = new[t][k].val

LEMMA ValuesRebuilt ==
  ASSUME Shapes, NEW new \in Scans, ~ Conflicts(DeleteAllData(index), new)
  PROVE  RebuiltValues(Rebuilt(new), new)
<1>1. PICK R : R = Rebuilt(new)
  OBVIOUS
<1> DEFINE Base(t, k) == IF k \in DOMAIN new[t] THEN new[t][k] ELSE index[t][k]
<1>2. IsTables(index) /\ IsTables(new)
  BY DEF Shapes, Scanned, Within
<1>3. /\ \A t \in Types : DOMAIN R[t] = DOMAIN new[t] \cup (IF t = "rules" THEN DOMAIN index[t] ELSE {})
      /\ \A t \in Types : \A k \in DOMAIN R[t] :
           R[t][k] = [Base(t, k) EXCEPT !.live = FALSE] \/ R[t][k] = Base(t, k)
  BY <1>1, <1>2, RebuiltRows
<1>4. ASSUME NEW t \in Types, NEW k \in DOMAIN new[t]
      PROVE  k \in DOMAIN R[t] /\ R[t][k].val = new[t][k].val
  <2>1. new[t][k] \in Row /\ Base(t, k) = new[t][k] /\ k \in DOMAIN R[t]
    BY <1>2, <1>3, <1>4 DEF IsTables
  <2>2. R[t][k] = [new[t][k] EXCEPT !.live = FALSE] \/ R[t][k] = new[t][k]
    BY <1>3, <1>4, <2>1
  <2> QED BY <2>1, <2>2, RetiredRow
<1>5. \A t \in Types : t # "rules" => DOMAIN R[t] = DOMAIN new[t]
  BY <1>3
<1>6. RebuiltValues(R, new)
  BY <1>4, <1>5 DEF RebuiltValues
<1> QED BY <1>1, <1>6

LEMMA CarriedStep ==
  ASSUME Shapes, Numbered, Carried, [Next]_vars
  PROVE  Carried'
<1>1. CASE tx' = {}
  BY <1>1 DEF Carried
<1>2. CASE UNCHANGED <<tx, index, shards>>
  <2>1. \A t \in Types : \A k : /\ History(t, k)' = History(t, k)
                                /\ Newest(t, k)' = Newest(t, k)
    BY <1>2 DEF Newest, LastOf, History, Records
  <2> QED BY <1>2, <2>1 DEF Carried
<1>3. ASSUME NEW c \in Clients, BeginTx(c)
      PROVE  Carried'
  <2>1. /\ tx' = {[req |-> p.req, todo |-> p.plan, tables |-> index] : p \in pending[c]}
        /\ index' = index /\ shards' = shards
    BY <1>3 DEF BeginTx
  <2>2. \A x \in tx' : x.tables = index /\ \E p \in pending[c] : x.req = p.req
    BY <2>1
  <2>3. ASSUME NEW x \in tx', NEW t \in Types, NEW k, History(t, k) # {}
        PROVE  Newest(t, k).req # x.req
    <3>1. Last(t, k) \in Records(t) /\ Newest(t, k) = shards[t][Last(t, k)]
      BY <2>3, DaysFiled, LastOfKey
    <3> QED BY <2>2, <3>1 DEF Numbered
  <2>4. \A t \in Types : \A k : /\ History(t, k)' = History(t, k)
                                /\ Newest(t, k)' = Newest(t, k)
    BY <2>1 DEF Newest, LastOf, History, Records
  <2> QED BY <2>1, <2>2, <2>3, <2>4 DEF Carried
<1>4. CASE Execute
  <2>1. PICK t \in tx : \E s \in Statements : Executes(t, s)
    BY <1>4, ExecuteEffect
  <2>2. PICK s \in Statements : Executes(t, s)
    BY <2>1
  <2>a. PICK T : T = t.tables
    OBVIOUS
  <2>b. PICK E : E = Executed(t.tables, s)
    OBVIOUS
  <2>3. \A x \in tx' : x.req = t.req /\ x.tables = E /\ Accepted(T, s)
    BY <2>2, <2>a, <2>b DEF Executes
  <2>4. index' = index
    BY <2>2 DEF Executes
  <2>5. IsTables(T)
    BY <2>2, <2>a, OpenTransaction DEF Executes, Within
  <2>6. ValuesOutcome(T, E, s)
    BY <2>5, <2>a, <2>b, ValuesKept
  <2>7. \A t2 \in Types : \A k :
          /\ History(t2, k) # {} /\ Newest(t2, k).req = t.req =>
               k \in DOMAIN T[t2] /\ T[t2][k].val = Newest(t2, k).row.val
          /\ (History(t2, k) = {} \/ Newest(t2, k).req # t.req) /\ k \in DOMAIN index[t2] =>
               k \in DOMAIN T[t2] /\ T[t2][k].val = index[t2][k].val
    BY <2>a DEF Carried
  <2>8. ASSUME Accepted(T, s), NEW t2 \in Types, NEW k
        PROVE  /\ History(t2, k)' # {} /\ Newest(t2, k)'.req = t.req =>
                    k \in DOMAIN E[t2] /\ E[t2][k].val = Newest(t2, k)'.row.val
               /\ (History(t2, k)' = {} \/ Newest(t2, k)'.req # t.req) /\ k \in DOMAIN index[t2] =>
                    k \in DOMAIN E[t2] /\ E[t2][k].val = index[t2][k].val
    <3>1. CASE Appends(s)
      <4>1. HistoryOutcome(s, t.req)
        BY <2>2, <3>1, HistoryGrows DEF Executes
      <4>2. CASE t2 = s.type /\ k = s.key
        <5>1. CASE Newest(t2, k)'.req = t.req /\ Newest(t2, k)'.row = s.row
          BY <2>6, <3>1, <4>1, <4>2, <5>1 DEF HistoryOutcome, ValuesOutcome
        <5>2. CASE s.stmt = "insert" /\ History(t2, k) # {} /\ Stands(t2, k)
          <6>1. k \notin DOMAIN T[t2]
            BY <2>8, <4>2, <5>2 DEF Accepted
          <6>2. Newest(t2, k).req # t.req /\ k \notin DOMAIN index[t2]
            BY <2>7, <5>2, <6>1
          <6>3. History(t2, k)' # {} /\ Newest(t2, k)' = Newest(t2, k)
            BY <4>1, <4>2, <5>2 DEF HistoryOutcome, Stands
          <6> QED BY <6>2, <6>3
        <5> QED BY <4>1, <4>2, <5>1, <5>2 DEF HistoryOutcome
      <4>3. CASE t2 # s.type \/ k # s.key
        <5>1. /\ History(t2, k)' = History(t2, k)
              /\ History(t2, k) # {} => Newest(t2, k)' = Newest(t2, k)
          BY <4>1, <4>3 DEF HistoryOutcome, Stands
        <5>2. k \in DOMAIN T[t2] => k \in DOMAIN E[t2] /\ E[t2][k].val = T[t2][k].val
          BY <2>6, <4>3 DEF ValuesOutcome
        <5> QED BY <2>7, <5>1, <5>2
      <4> QED BY <4>2, <4>3
    <3>2. CASE ~ Appends(s)
      <4>1. shards' = shards
        BY <2>2, <3>2 DEF Executes
      <4>2. History(t2, k)' = History(t2, k) /\ Newest(t2, k)' = Newest(t2, k)
        BY <4>1 DEF Newest, LastOf, History, Records
      <4>3. k \in DOMAIN T[t2] => k \in DOMAIN E[t2] /\ E[t2][k].val = T[t2][k].val
        BY <2>6, <3>2 DEF ValuesOutcome
      <4> QED BY <2>7, <4>2, <4>3
    <3> QED BY <3>1, <3>2
  <2> QED BY <2>3, <2>4, <2>8 DEF Carried
<1>5. \/ tx' = {} \/ UNCHANGED <<tx, index, shards>> \/ Execute
      \/ \E c \in Clients : BeginTx(c)
  BY DEF Next, vars, Ask, Commit, Rollback, TornWrite, Crash, NewDay, OpenEmptyIndex, RebuildScan,
         RebuildTx, RebuildConflict, RunReconciliation
<1> QED BY <1>1, <1>2, <1>3, <1>4, <1>5

\* A key whose newest record is delivered is collected with that record.
LEMMA NewestCollected ==
  ASSUME ShardsOK, DaysOK, NEW missed, NEW t \in Types, NEW k, History(t, k) # {},
         Readable(Newest(t, k)), <<t, Last(t, k)>> \notin missed
  PROVE  /\ k \in DOMAIN Collected(missed)[t]
         /\ Collected(missed)[t][k] = Newest(t, k).row
<1>1. PICK m : m = Last(t, k)
  OBVIOUS
<1>2. /\ m \in History(t, k) /\ m \in Records(t) /\ m \in Nat /\ Newest(t, k) = shards[t][m]
      /\ \A j \in History(t, k) : ReadBefore(shards[t], j, m)
  BY <1>1, LastOfKey
<1>3. shards[t][m].key = k /\ Delivers(t, m, missed)
  BY <1>1, <1>2 DEF History, Delivers
<1>4. k \in DOMAIN Collected(missed)[t]
  BY <1>2, <1>3, CollectedRows
<1>5. PICK i \in Records(t) :
        /\ Delivers(t, i, missed) /\ shards[t][i].key = k
        /\ Collected(missed)[t][k] = shards[t][i].row
        /\ \A j \in Records(t) :
             Delivers(t, j, missed) /\ shards[t][j].key = k => ReadBefore(shards[t], j, i)
  BY <1>4, CollectedRows
<1>6. ReadBefore(shards[t], m, i) /\ ReadBefore(shards[t], i, m)
  BY <1>2, <1>3, <1>5 DEF History
<1>7. /\ i \in Nat /\ shards[t][i].day \in 1 .. MaxDay /\ shards[t][m].day \in 1 .. MaxDay
  BY <1>2, <1>5 DEF DaysOK, ShardsOK, Records
<1>8. i = m
  BY <1>2, <1>6, <1>7, LastIsUnique
<1> QED BY <1>2, <1>4, <1>5, <1>8

LEMMA RestoredStep ==
  ASSUME Shapes, Numbered, Carried, Restored, [Next]_vars
  PROVE  Restored'
<1>1. CASE UNCHANGED <<index, shards, committed, lost, raced, skipped>>
  <2>1. \A t \in Types : \A k : /\ Recoverable(t, k)' = Recoverable(t, k)
                                /\ Newest(t, k)' = Newest(t, k)
    BY <1>1 DEF Recoverable, Readable, Newest, LastOf, History, Records
  <2> QED BY <1>1, <2>1 DEF Restored
<1>2. ASSUME NEW x \in tx, NEW s \in Statements, Appends(s), NEW torn, Grown(s, x.req, torn),
             UNCHANGED <<index, committed, lost, raced, skipped>>
      PROVE  Restored'
  <2>1. HistoryOutcome(s, x.req)
    BY <1>2, HistoryGrows
  <2>2. x.req \notin committed
    BY DEF Numbered
  <2>3. ASSUME NEW t \in Types, NEW k, Recoverable(t, k)'
        PROVE  Recoverable(t, k) /\ Newest(t, k)' = Newest(t, k)
    <3>1. /\ History(t, k)' # {} /\ Newest(t, k)'.req \in committed
          /\ Readable(Newest(t, k)') /\ <<t, Last(t, k)'>> \notin skipped
      BY <1>2, <2>3 DEF Recoverable, Newest, Readable, Last
    <3>2. History(t, k) # {} /\ Stands(t, k)
      <4>1. CASE t # s.type \/ k # s.key
        BY <2>1, <3>1, <4>1 DEF HistoryOutcome
      <4>2. CASE t = s.type /\ k = s.key
        BY <2>1, <2>2, <3>1, <4>2 DEF HistoryOutcome
      <4> QED BY <4>1, <4>2
    <3> QED BY <3>1, <3>2 DEF Recoverable, Stands, Last
  <2> QED BY <1>2, <2>3 DEF Restored
<1>3. CASE Execute
  <2>1. PICK t \in tx : \E s \in Statements : Executes(t, s)
    BY <1>3, ExecuteEffect
  <2>2. PICK s \in Statements : Executes(t, s)
    BY <2>1
  <2>3. CASE Appends(s)
    BY <1>2, <2>2, <2>3 DEF Executes
  <2>4. CASE ~ Appends(s)
    BY <1>1, <2>2, <2>4 DEF Executes
  <2> QED BY <2>3, <2>4
<1>4. CASE TornWrite
  BY <1>2, <1>4, TornEffect DEF Tears
<1>5. CASE Commit
  <2>1. PICK x \in tx : index' = x.tables /\ committed' = committed \cup {x.req}
    BY <1>5 DEF Commit
  <2>2. UNCHANGED <<shards, lost, raced, skipped>>
    BY <1>5 DEF Commit
  <2>3. \A t \in Types : \A k : /\ History(t, k)' = History(t, k)
                                /\ Newest(t, k)' = Newest(t, k)
    BY <2>2 DEF Newest, LastOf, History, Records
  <2>a. \A t \in Types : \A k : Last(t, k)' = Last(t, k)
    BY <2>2 DEF Last, LastOf, History, Records
  <2>4. ASSUME ~ lost, ~ raced, NEW t \in Types, NEW k, Recoverable(t, k)'
        PROVE  k \in DOMAIN x.tables[t] /\ x.tables[t][k].val = Newest(t, k).row.val
    <3>1. /\ History(t, k) # {} /\ Newest(t, k).req \in committed \cup {x.req}
          /\ Readable(Newest(t, k)) /\ <<t, Last(t, k)>> \notin skipped
      BY <2>1, <2>2, <2>3, <2>4, <2>a DEF Recoverable, Readable, Last
    <3>2. CASE Newest(t, k).req = x.req
      BY <3>1, <3>2 DEF Carried
    <3>3. CASE Newest(t, k).req # x.req
      <4>1. Recoverable(t, k)
        BY <3>1, <3>3 DEF Recoverable, Last
      <4>2. k \in DOMAIN index[t] /\ index[t][k].val = Newest(t, k).row.val
        BY <2>4, <4>1 DEF Restored
      <4> QED BY <3>3, <4>2 DEF Carried
    <3> QED BY <3>2, <3>3
  <2> QED BY <2>1, <2>2, <2>3, <2>4 DEF Restored
<1>6. CASE OpenEmptyIndex
  BY <1>6 DEF OpenEmptyIndex, Restored
<1>7. CASE RebuildTx
  <2>1. PICK z \in scan : /\ ~ Conflicts(DeleteAllData(index), z.rows)
                          /\ index' = Rebuilt(z.rows)
                          /\ raced' = (z.rows # Collected(z.missed)) /\ skipped' = z.missed
    BY <1>7 DEF RebuildTx, Rebuilt
  <2>2. UNCHANGED <<shards, committed>>
    BY <1>7 DEF RebuildTx
  <2>a. PICK new \in Scans : new = z.rows
    BY DEF Scans
  <2>b. PICK missed : missed = z.missed
    OBVIOUS
  <2>3. PICK R : R = Rebuilt(new)
    OBVIOUS
  <2>4. RebuiltValues(R, new)
    BY <2>1, <2>3, <2>a, ValuesRebuilt
  <2>5. \A t \in Types : \A k : /\ History(t, k)' = History(t, k) /\ Last(t, k)' = Last(t, k)
                                /\ Newest(t, k)' = Newest(t, k)
    BY <2>2 DEF Newest, Last, LastOf, History, Records
  <2>6. ASSUME new = Collected(missed), NEW t \in Types, NEW k, History(t, k) # {},
               Readable(Newest(t, k)), <<t, Last(t, k)>> \notin missed
        PROVE  k \in DOMAIN R[t] /\ R[t][k].val = Newest(t, k).row.val
    <3>1. k \in DOMAIN new[t] /\ new[t][k] = Newest(t, k).row
      BY <2>6, DaysFiled, NewestCollected
    <3> QED BY <2>4, <3>1 DEF RebuiltValues
  <2>7. index' = R /\ skipped' = missed /\ (~ raced' => new = Collected(missed))
    BY <2>1, <2>3, <2>a, <2>b
  <2>8. ASSUME ~ raced', NEW t \in Types, NEW k, Recoverable(t, k)'
        PROVE  k \in DOMAIN index'[t] /\ index'[t][k].val = Newest(t, k)'.row.val
    <3>1. History(t, k) # {} /\ Readable(Newest(t, k)) /\ <<t, Last(t, k)>> \notin missed
      BY <2>5, <2>7, <2>8 DEF Recoverable, Readable, Last
    <3> QED BY <2>5, <2>6, <2>7, <2>8, <3>1
  <2> QED BY <2>8 DEF Restored
<1>8. \/ UNCHANGED <<index, shards, committed, lost, raced, skipped>>
      \/ Execute \/ TornWrite \/ Commit \/ OpenEmptyIndex \/ RebuildTx
  BY DEF Next, vars, Ask, BeginTx, Rollback, Crash, NewDay, RebuildScan, RebuildConflict,
         RunReconciliation
<1> QED BY <1>1, <1>3, <1>4, <1>5, <1>6, <1>7, <1>8

-----------------------------------------------------------------------------
(***************************************************************************)
(* The manifest.                                                           *)
(***************************************************************************)
LEMMA FilesAreFinite ==
  ASSUME ShardsOK, NEW t \in Types, NEW d
  PROVE  /\ IsFiniteSet(File(t, d)) /\ SizeOf(t, d) \in Nat
         /\ LinesOf(t, d) \in Nat /\ LinesOf(t, d) <= SizeOf(t, d)
<1>1. Len(shards[t]) \in Nat /\ Records(t) = 1 .. Len(shards[t])
  BY DEF ShardsOK, Records
<1>2. IsFiniteSet(1 .. Len(shards[t]))
  BY <1>1, FS_Interval
<1>3. File(t, d) \subseteq 1 .. Len(shards[t])
  BY <1>1 DEF File
<1>4. IsFiniteSet(File(t, d))
  BY <1>2, <1>3, FS_Subset
<1> DEFINE whole == {i \in File(t, d) : ~ shards[t][i].glued}
<1>5. whole \subseteq File(t, d)
  OBVIOUS
<1> HIDE DEF whole
<1>6. IsFiniteSet(whole) /\ Cardinality(whole) <= Cardinality(File(t, d))
  BY <1>4, <1>5, FS_Subset
<1>7. Cardinality(File(t, d)) \in Nat /\ Cardinality(whole) \in Nat
  BY <1>4, <1>6, FS_CardinalityType
<1> QED BY <1>4, <1>6, <1>7 DEF SizeOf, LinesOf, whole

\* An append to a file that is not rotated makes it larger, and no file loses.
LEMMA FilesGrow ==
  ASSUME Shapes, NEW s, NEW n, NEW torn, Grown(s, n, torn)
  PROVE  /\ \A t \in Types : \A d : SizeOf(t, d) <= SizeOf(t, d)'
         /\ \A t \in Types : \A d : File(t, d) \subseteq File(t, d)'
         /\ \/ \E i \in Records(s.type)' : shards'[s.type][i].rotated
            \/ \E d \in 1 .. MaxDay : SizeOf(s.type, d)' = SizeOf(s.type, d) + 1
<1> DEFINE u    == s.type
           last == Len(shards[s.type]) + 1
<1>1. /\ u \in Types /\ Len(shards[u]) \in Nat /\ last = Len(shards[u]) + 1
      /\ Records(u) = 1 .. Len(shards[u]) /\ Records(u)' = 1 .. last
      /\ \A i \in Records(u) : shards'[u][i] = shards[u][i]
      /\ shards'[u][last].day \in 1 .. day
      /\ \A t \in Types : t # u => shards'[t] = shards[t]
  BY DEF Grown
<1> HIDE DEF u, last
<1>2. ASSUME NEW t \in Types, NEW d, t # u
      PROVE  File(t, d)' = File(t, d) /\ SizeOf(t, d)' = SizeOf(t, d)
  BY <1>1, <1>2 DEF SizeOf, File, Records
<1>3. last \in Records(u)' /\ last \notin Records(u)
  BY <1>1
<1>4. ASSUME NEW d
      PROVE  \/ File(u, d)' = File(u, d)
             \/ File(u, d)' = File(u, d) \cup {last}
  BY <1>1 DEF File
<1>5. ASSUME NEW d
      PROVE  /\ IsFiniteSet(File(u, d)) /\ Cardinality(File(u, d)) \in Nat
             /\ Cardinality(File(u, d) \cup {last}) = Cardinality(File(u, d)) + 1
  <2>1. last \notin File(u, d)
    BY <1>3 DEF File
  <2>2. IsFiniteSet(File(u, d)) /\ Cardinality(File(u, d)) \in Nat
    BY <1>1, FilesAreFinite DEF SizeOf, Shapes, Filed
  <2> QED BY <2>1, <2>2, FS_AddElement
<1>6. ASSUME NEW d
      PROVE  File(u, d) \subseteq File(u, d)' /\ SizeOf(u, d) <= SizeOf(u, d)'
  <2>1. File(u, d) \subseteq File(u, d)'
    BY <1>4
  <2>2. /\ Cardinality(File(u, d)) \in Nat
        /\ \/ Cardinality(File(u, d)') = Cardinality(File(u, d))
           \/ Cardinality(File(u, d)') = Cardinality(File(u, d)) + 1
    BY <1>4, <1>5
  <2>3. Cardinality(File(u, d)) <= Cardinality(File(u, d)')
    BY <2>2
  <2> QED BY <2>1, <2>3 DEF SizeOf
<1>7. ASSUME ~ shards'[u][last].rotated
      PROVE  \E d \in 1 .. MaxDay : SizeOf(u, d)' = SizeOf(u, d) + 1
  <2>1. PICK d \in 1 .. MaxDay : d = shards'[u][last].day
    BY <1>1, DaysFiled, StoreAssumption
  <2>2. last \in File(u, d)'
    BY <1>1, <1>3, <1>7, <2>1 DEF File
  <2>3. last \notin File(u, d)
    BY <1>3 DEF File
  <2>4. File(u, d)' = File(u, d) \cup {last}
    BY <1>4, <2>2, <2>3
  <2> QED BY <1>5, <2>4 DEF SizeOf
<1>8. \A t \in Types : \A d : SizeOf(t, d) <= SizeOf(t, d)' /\ File(t, d) \subseteq File(t, d)'
  <2> SUFFICES ASSUME NEW t \in Types, NEW d
               PROVE  SizeOf(t, d) <= SizeOf(t, d)' /\ File(t, d) \subseteq File(t, d)'
    OBVIOUS
  <2>1. CASE t = u
    BY <1>6, <2>1
  <2>2. CASE t # u
    <3>1. File(t, d)' = File(t, d) /\ SizeOf(t, d)' = SizeOf(t, d) /\ SizeOf(t, d) \in Nat
      BY <1>2, <2>2, FilesAreFinite DEF Shapes, Filed
    <3> QED BY <3>1
  <2> QED BY <2>1, <2>2
<1>9. \/ \E i \in Records(u)' : shards'[u][i].rotated
      \/ \E d \in 1 .. MaxDay : SizeOf(u, d)' = SizeOf(u, d) + 1
  BY <1>3, <1>7
<1> QED BY <1>8, <1>9 DEF u

\* The parts of Manifested.
Entries ==
  \A t \in Types, d \in 1 .. MaxDay :
    /\ manifest[t][d].lines \in Nat /\ manifest[t][d].size \in Nat
    /\ manifest[t][d].size <= SizeOf(t, d)
    /\ manifest[t][d].status # "ok" => manifest[t][d].lines = 0

Glued ==
  \A t \in Types : \A i \in Records(t) : shards[t][i].glued =>
    \E j \in File(t, shards[t][i].day) : j < i

LEMMA ManifestedParts ==
  Manifested <=> /\ Entries /\ Glued
                 /\ ~ Outgrown /\ ~ raced => Matches(index, Collected(skipped))
                 /\ \A x \in tx : Outgrown \/ Leaves(x.todo)
BY DEF Manifested, Entries, Glued

\* An append outgrows the manifest.
LEMMA ManifestOutgrown ==
  ASSUME Shapes, Manifested, NEW x \in tx, NEW s, NEW torn, Grown(s, x.req, torn),
         manifest' = manifest
  PROVE  Manifested'
<1>1. /\ \A t \in Types : \A d : SizeOf(t, d) <= SizeOf(t, d)'
      /\ \A t \in Types : \A d : File(t, d) \subseteq File(t, d)'
      /\ \/ \E i \in Records(s.type)' : shards'[s.type][i].rotated
         \/ \E d \in 1 .. MaxDay : SizeOf(s.type, d)' = SizeOf(s.type, d) + 1
  BY FilesGrow
<1>2. Entries /\ Glued
  BY DEF Manifested, Entries, Glued
<1>3. \A t \in Types : \A d : SizeOf(t, d) \in Nat /\ SizeOf(t, d)' \in Nat
  <2>1. \A t \in Types : \A d : SizeOf(t, d) \in Nat
    BY FilesAreFinite DEF Shapes, Filed
  <2>2. ShardsOK'
    BY DEF Grown
  <2>3. \A t \in Types : \A d : SizeOf(t, d)' \in Nat
    <3> SUFFICES ASSUME NEW t \in Types, NEW d
                 PROVE  SizeOf(t, d)' \in Nat
      OBVIOUS
    <3>1. Len(shards'[t]) \in Nat /\ Records(t)' = 1 .. Len(shards'[t])
      BY <2>2 DEF ShardsOK, Records
    <3>2. File(t, d)' \subseteq 1 .. Len(shards'[t])
      BY <3>1 DEF File
    <3>3. IsFiniteSet(1 .. Len(shards'[t]))
      BY <3>1, FS_Interval
    <3>4. IsFiniteSet(File(t, d)')
      BY <3>2, <3>3, FS_Subset
    <3> QED BY <3>4, FS_CardinalityType DEF SizeOf
  <2> QED BY <2>1, <2>3
<1>4. s.type \in Types
  BY DEF Grown
<1>5. Entries'
  <2> SUFFICES ASSUME NEW t \in Types, NEW d \in 1 .. MaxDay
               PROVE  /\ manifest[t][d].lines \in Nat /\ manifest[t][d].size \in Nat
                      /\ manifest[t][d].size <= SizeOf(t, d)'
                      /\ manifest[t][d].status # "ok" => manifest[t][d].lines = 0
    BY DEF Entries
  <2>1. /\ manifest[t][d].lines \in Nat /\ manifest[t][d].size \in Nat
        /\ manifest[t][d].size <= SizeOf(t, d)
        /\ manifest[t][d].status # "ok" => manifest[t][d].lines = 0
    BY <1>2 DEF Entries
  <2>2. SizeOf(t, d) <= SizeOf(t, d)' /\ SizeOf(t, d) \in Nat /\ SizeOf(t, d)' \in Nat
    BY <1>1, <1>3
  <2> QED BY <2>1, <2>2
<1>6. Outgrown'
  <2>1. ASSUME NEW d \in 1 .. MaxDay, SizeOf(s.type, d)' = SizeOf(s.type, d) + 1
        PROVE  SizeOf(s.type, d)' # manifest[s.type][d].size
    <3>1. manifest[s.type][d].size \in Nat /\ manifest[s.type][d].size <= SizeOf(s.type, d)
      BY <1>2, <1>4 DEF Entries
    <3> QED BY <1>3, <1>4, <2>1, <3>1
  <2> QED BY <1>1, <1>4, <2>1 DEF Outgrown
<1>7. Glued'
  <2> SUFFICES ASSUME NEW t \in Types, NEW i \in Records(t)', shards'[t][i].glued
               PROVE  \E j \in File(t, shards[t][i].day)' : j < i
    BY DEF Glued
  <2>1. CASE i \in Records(t) /\ shards'[t][i] = shards[t][i]
    <3>1. PICK d : d = shards[t][i].day
      OBVIOUS
    <3>2. PICK j \in File(t, d) : j < i
      BY <1>2, <2>1, <3>1 DEF Glued
    <3>3. j \in File(t, d)' /\ shards'[t][i].day = d
      BY <1>1, <2>1, <3>1, <3>2
    <3> QED BY <3>2, <3>3 DEF File
  <2>2. CASE t = s.type /\ i = Len(shards[t]) + 1
    <3>1. PICK d : d = shards'[t][i].day
      OBVIOUS
    <3>2. /\ shards'[t][i].day = d /\ AfterTorn(t, d) /\ Len(shards[t]) \in Nat
          /\ Records(t) = 1 .. Len(shards[t])
      BY <2>2, <3>1 DEF Grown
    <3>3. PICK j \in File(t, d) : TRUE
      BY <3>2 DEF AfterTorn
    <3>4. j \in File(t, d)' /\ j \in 1 .. Len(shards[t])
      BY <1>1, <3>2, <3>3 DEF File
    <3>5. j < i
      BY <2>2, <3>2, <3>4
    <3> QED BY <3>2, <3>4, <3>5 DEF File
  <2>3. \/ i \in Records(t) /\ shards'[t][i] = shards[t][i]
        \/ t = s.type /\ i = Len(shards[t]) + 1
    <3>1. CASE t = s.type
      BY <3>1 DEF Grown
    <3>2. CASE t # s.type
      <4>1. shards'[t] = shards[t]
        BY <3>2 DEF Grown
      <4> QED BY <4>1 DEF Records
    <3> QED BY <3>1, <3>2
  <2> QED BY <2>1, <2>2, <2>3
<1> QED BY <1>5, <1>6, <1>7 DEF Manifested, Entries, Glued

\* Nothing collected when nothing was ever appended.
LEMMA NothingCollected ==
  ASSUME ShardsOK, \A t \in Types : Records(t) = {}, NEW missed
  PROVE  Matches(Empty, Collected(missed))
<1>0. DaysOK
  BY DEF DaysOK
<1>1. \A t \in Types : \A k : k \notin DOMAIN Collected(missed)[t]
  BY <1>0, CollectedRows
<1>2. \A t \in Types : \A k : k \notin DOMAIN Empty[t]
  BY DEF Empty
<1>3. \A t \in Types : DOMAIN Empty[t] = DOMAIN Collected(missed)[t]
  BY <1>1, <1>2
<1> QED BY <1>2, <1>3 DEF Matches

\* A manifest without entries is outgrown by the first record.
LEMMA EmptyManifest ==
  ASSUME Shapes, \A t \in Types : \A d \in 1 .. MaxDay : SizeOf(t, d) = 0,
         \A t \in Types : \A i \in Records(t) : ~ shards[t][i].rotated
  PROVE  \A t \in Types : Records(t) = {}
<1> SUFFICES ASSUME NEW t \in Types, NEW i \in Records(t)
             PROVE  FALSE
  OBVIOUS
<1>1. PICK d \in 1 .. MaxDay : d = shards[t][i].day
  BY DaysFiled DEF DaysOK
<1>2. i \in File(t, d)
  BY <1>1 DEF File
<1>3. IsFiniteSet(File(t, d)) /\ Cardinality(File(t, d)) = 0
  BY FilesAreFinite DEF SizeOf, Shapes, Filed
<1>4. File(t, d) = {}
  BY <1>3, FS_EmptySet
<1> QED BY <1>2, <1>4

LEMMA ManifestedStep ==
  ASSUME Shapes, Manifested, [Next]_vars
  PROVE  Manifested'
<1>1. ASSUME shards' = shards
      PROVE  /\ \A t \in Types : \A d : SizeOf(t, d)' = SizeOf(t, d) /\ File(t, d)' = File(t, d)
             /\ \A missed : Collected(missed)' = Collected(missed)
             /\ Glued => Glued'
  <2>1. \A t \in Types : \A d : SizeOf(t, d)' = SizeOf(t, d) /\ File(t, d)' = File(t, d)
    BY <1>1 DEF SizeOf, File, Records
  <2>2. \A missed : Collected(missed)' = Collected(missed)
    BY <1>1 DEF Collected, LastOf, Delivered, DeliveredAt, Readable, Records
  <2>3. Glued => Glued'
    BY <1>1 DEF Glued, File, Records
  <2> QED BY <2>1, <2>2, <2>3
<1>2. ASSUME UNCHANGED <<shards, manifest>>
      PROVE  (Entries => Entries') /\ (Outgrown' = Outgrown)
  <2>1. \A t \in Types : \A d : SizeOf(t, d)' = SizeOf(t, d)
    BY <1>1, <1>2
  <2>2. Entries => Entries'
    BY <1>2, <2>1 DEF Entries
  <2>3. Outgrown' = Outgrown
    BY <1>2, <2>1 DEF Outgrown, Records
  <2> QED BY <2>2, <2>3
<1>3. /\ Entries /\ Glued /\ (~ Outgrown /\ ~ raced => Matches(index, Collected(skipped)))
      /\ \A x \in tx : Outgrown \/ Leaves(x.todo)
  BY DEF Manifested, Entries, Glued
<1>4. ASSUME UNCHANGED <<shards, manifest, raced, skipped>>,
             \A x \in tx' : Outgrown \/ Leaves(x.todo),
             ~ Outgrown => index' = index
      PROVE  Manifested'
  <2>1. Entries' /\ Glued' /\ Outgrown' = Outgrown
    BY <1>1, <1>2, <1>3, <1>4
  <2>a. Collected(skipped)' = Collected(skipped)
    BY <1>4 DEF Collected, LastOf, Delivered, DeliveredAt, Readable, Records
  <2>2. ~ Outgrown' /\ ~ raced' => Matches(index, Collected(skipped))'
    BY <1>3, <1>4, <2>1, <2>a DEF Matches
  <2>3. \A x \in tx' : Outgrown' \/ Leaves(x.todo)'
    BY <1>4, <2>1 DEF Leaves, Appends
  <2> QED BY <2>1, <2>2, <2>3 DEF Manifested, Entries, Glued
<1>5. ASSUME NEW c \in Clients, BeginTx(c)
      PROVE  Manifested'
  <2>1. /\ tx' = {[req |-> p.req, todo |-> p.plan, tables |-> index] : p \in pending[c]}
        /\ UNCHANGED <<index, shards, manifest, raced, skipped>>
    BY <1>5 DEF BeginTx
  <2>2. \A x \in tx' : \E p \in pending[c] : x.todo = p.plan
    BY <2>1
  <2>3. \A x \in tx' : Leaves(x.todo)
    BY <2>2 DEF Shapes, Asked
  <2> QED BY <1>4, <2>1, <2>3
<1>6. CASE Execute
  <2>1. PICK t \in tx : \E s \in Statements : Executes(t, s)
    BY <1>6, ExecuteEffect
  <2>2. PICK s \in Statements : Executes(t, s)
    BY <2>1
  <2>3. CASE Appends(s)
    BY <2>2, <2>3, ManifestOutgrown DEF Executes
  <2>4. CASE ~ Appends(s)
    <3>1. UNCHANGED <<index, shards, manifest, raced, skipped>>
      BY <2>2, <2>4 DEF Executes
    <3>a. PICK E : E = Executed(t.tables, s)
      OBVIOUS
    <3>b. PICK rest : rest = Tail(t.todo)
      OBVIOUS
    <3>c. tx' = {} \/ tx' = {[req |-> t.req, todo |-> rest, tables |-> E]}
      BY <2>2, <3>a, <3>b DEF Executes
    <3>2. \A x \in tx' : x.todo = rest
      BY <3>c
    <3>3. requests \in Nat /\ PlanOK(t.todo, requests, day) /\ t.todo # <<>> /\ s = Head(t.todo)
      BY <2>2 DEF Shapes, Counters, Running, Executes
    <3>4. Leaves(t.todo) => Leaves(rest)
      BY <2>4, <3>3, <3>b, RestOfPlan
    <3>5. \A x \in tx' : Outgrown \/ Leaves(x.todo)
      BY <1>3, <3>2, <3>4
    <3> QED BY <1>4, <3>1, <3>5
  <2> QED BY <2>3, <2>4
<1>7. CASE TornWrite
  BY <1>7, TornEffect, ManifestOutgrown DEF Tears
<1>8. CASE Commit
  <2>1. PICK x \in tx : x.todo = <<>>
    BY <1>8 DEF Commit
  <2>2. UNCHANGED <<shards, manifest, raced, skipped>> /\ tx' = {}
    BY <1>8 DEF Commit
  <2>3. ~ Leaves(x.todo)
    BY <2>1 DEF Leaves
  <2>4. Outgrown
    BY <1>3, <2>3
  <2> QED BY <1>4, <2>2, <2>4
<1>9. CASE OpenEmptyIndex
  <2>1. /\ index' = Empty /\ manifest' = NoRecords /\ shards' = shards /\ tx' = {}
        /\ skipped' = {}
    BY <1>9 DEF OpenEmptyIndex
  <2>2. Glued' /\ Collected(skipped)' = Collected({})
    <3>1. Glued'
      BY <1>1, <1>3, <2>1
    <3>2. Collected(skipped)' = Collected({})
      BY <2>1 DEF Collected, LastOf, Delivered, DeliveredAt, Readable, Records
    <3> QED BY <3>1, <3>2
  <2>3. \A t \in Types : \A d \in 1 .. MaxDay :
          manifest'[t][d].lines = 0 /\ manifest'[t][d].size = 0
    BY <2>1 DEF NoRecords, Absent
  <2>4. \A t \in Types : \A d : SizeOf(t, d)' = SizeOf(t, d) /\ SizeOf(t, d) \in Nat
    BY <1>1, <2>1, FilesAreFinite DEF Shapes, Filed
  <2>5. Entries'
    BY <2>3, <2>4 DEF Entries
  <2>6. ASSUME ~ Outgrown'
        PROVE  Matches(index, Collected(skipped))'
    <3>1. /\ \A t \in Types : \A d \in 1 .. MaxDay : SizeOf(t, d) = 0
          /\ \A t \in Types : \A i \in Records(t) : ~ shards[t][i].rotated
      BY <2>1, <2>3, <2>4, <2>6 DEF Outgrown, Records
    <3>2. \A t \in Types : Records(t) = {}
      BY <3>1, EmptyManifest
    <3>3. Matches(Empty, Collected({}))
      BY <3>2, NothingCollected DEF Shapes, Filed
    <3> QED BY <2>1, <2>2, <3>3 DEF Matches
  <2> QED BY <2>1, <2>2, <2>5, <2>6 DEF Manifested, Entries, Glued
<1>10. CASE RebuildTx
  <2>1. PICK z \in scan : /\ ~ Conflicts(DeleteAllData(index), z.rows)
                          /\ index' = Rebuilt(z.rows)
                          /\ raced' = (z.rows # Collected(z.missed)) /\ skipped' = z.missed
                          /\ \E unread, unsummed :
                               manifest' = rebuildManifests(z.files, unread, unsummed)
    BY <1>10 DEF RebuildTx, Rebuilt
  <2>2. shards' = shards /\ tx' = {}
    BY <1>10 DEF RebuildTx
  <2>a. PICK new \in Scans : new = z.rows
    BY DEF Scans
  <2>d. PICK missed : missed = z.missed
    OBVIOUS
  <2>b. PICK C : C = Collected(missed)
    OBVIOUS
  <2>e. skipped' = missed
    BY <2>1, <2>d
  <2>3. Glued' /\ Collected(skipped)' = C
    <3>1. Glued'
      BY <1>1, <1>3, <2>2
    <3>2. Collected(skipped)' = C
      BY <2>2, <2>b, <2>e DEF Collected, LastOf, Delivered, DeliveredAt, Readable, Records
    <3> QED BY <3>1, <3>2
  <2>c. PICK unread, unsummed : manifest' = rebuildManifests(z.files, unread, unsummed)
    BY <2>1
  <2>4. ASSUME NEW t \in Types, NEW d \in 1 .. MaxDay
        PROVE  \/ manifest'[t][d] = [lines |-> 0, size |-> 0, status |-> "absent"]
               \/ manifest'[t][d] = [lines |-> 0, size |-> 0, status |-> "corrupted"]
               \/ manifest'[t][d] = [lines |-> LinesOf(t, d), size |-> 0, status |-> "ok"]
               \/ manifest'[t][d] = [lines |-> LinesOf(t, d), size |-> SizeOf(t, d),
                                     status |-> "ok"]
    BY <2>c DEF rebuildManifests, Absent
  <2>5. \A t \in Types : \A d :
          /\ SizeOf(t, d)' = SizeOf(t, d) /\ SizeOf(t, d) \in Nat /\ LinesOf(t, d) \in Nat
    BY <1>1, <2>2, FilesAreFinite DEF Shapes, Filed
  <2>6. Entries'
    <3> SUFFICES ASSUME NEW t \in Types, NEW d \in 1 .. MaxDay
                 PROVE  /\ manifest'[t][d].lines \in Nat /\ manifest'[t][d].size \in Nat
                        /\ manifest'[t][d].size <= SizeOf(t, d)
                        /\ manifest'[t][d].status # "ok" => manifest'[t][d].lines = 0
      BY <2>5 DEF Entries
    <3>1. PICK e : e = manifest'[t][d]
      OBVIOUS
    <3>2. PICK l, n : l = LinesOf(t, d) /\ n = SizeOf(t, d)
      OBVIOUS
    <3>3. l \in Nat /\ n \in Nat
      BY <2>5, <3>2
    <3>4. \/ e = [lines |-> 0, size |-> 0, status |-> "absent"]
          \/ e = [lines |-> 0, size |-> 0, status |-> "corrupted"]
          \/ e = [lines |-> l, size |-> 0, status |-> "ok"]
          \/ e = [lines |-> l, size |-> n, status |-> "ok"]
      BY <2>4, <3>1, <3>2
    <3>5. e.lines \in Nat /\ e.size \in Nat /\ e.size <= n /\ (e.status # "ok" => e.lines = 0)
      BY <3>3, <3>4
    <3> QED BY <3>1, <3>2, <3>5
  <2>7. PICK R : R = Rebuilt(new)
    OBVIOUS
  <2>8. RebuiltValues(R, new)
    BY <2>1, <2>7, <2>a, ValuesRebuilt
  <2>9. new = C => Matches(R, C)
    BY <2>8 DEF RebuiltValues, Matches
  <2>10. ~ raced' => Matches(index, Collected(skipped))'
    <3>1. ~ raced' => Matches(R, C) /\ index' = R
      BY <2>1, <2>7, <2>9, <2>a, <2>b, <2>d
    <3> QED BY <2>3, <3>1 DEF Matches
  <2> QED BY <2>2, <2>3, <2>6, <2>10 DEF Manifested, Entries, Glued
<1>11. CASE UNCHANGED <<index, shards, manifest, raced, skipped>> /\ (tx' = tx \/ tx' = {})
  BY <1>3, <1>4, <1>11
<1>12. \/ UNCHANGED <<index, shards, manifest, raced, skipped>> /\ (tx' = tx \/ tx' = {})
       \/ \E c \in Clients : BeginTx(c)
       \/ Execute \/ TornWrite \/ Commit \/ OpenEmptyIndex \/ RebuildTx
  BY DEF Next, vars, Ask, Rollback, Crash, NewDay, RebuildScan, RebuildConflict,
         RunReconciliation
<1> QED BY <1>5, <1>6, <1>7, <1>8, <1>9, <1>10, <1>11, <1>12

-----------------------------------------------------------------------------
(***************************************************************************)
(* The invariant as a whole, and what follows from it.                     *)
(***************************************************************************)
LEMMA InvInit == Init => Inv
<1> SUFFICES ASSUME Init
             PROVE  Inv
  OBVIOUS
<1>1. Shapes
  BY ShapesInit
<1>2. /\ index = Empty /\ shards = [t \in Types |-> <<>>] /\ manifest = NoRecords
      /\ pending = [c \in Clients |-> {}] /\ tx = {} /\ scan = {} /\ Scans = {}
  BY DEF Init, Scans
<1>3. \A t \in Types : DOMAIN index[t] = {}
  BY <1>2 DEF Empty
<1>4. \A t \in Types : Records(t) = {}
  BY <1>2 DEF Records
<1>5. AllBacked /\ RulesCarried /\ Carried
  BY <1>2, <1>3 DEF AllBacked, Backed, RulesCarried, Carried
<1>6. Accounted /\ Referred
  BY <1>2, <1>3 DEF Accounted, Referred, Types
<1>7. Numbered
  BY <1>2 DEF Numbered
<1>8. Restored
  <2>1. \A t \in Types : \A k : History(t, k) = {}
    BY <1>4 DEF History
  <2> QED BY <2>1 DEF Restored, Recoverable
<1>9. Manifested
  <2>1. Glued
    BY <1>4 DEF Glued
  <2>2. \A t \in Types : \A d : File(t, d) = {}
    BY <1>4 DEF File
  <2>3. \A t \in Types : \A d : SizeOf(t, d) = 0
    BY <2>2, FS_EmptySet DEF SizeOf
  <2>4. Entries
    BY <1>2, <2>3 DEF Entries, NoRecords, Absent
  <2>5. Matches(index, Collected(skipped))
    BY <1>1, <1>2, <1>4, NothingCollected DEF Shapes, Filed
  <2> QED BY <1>2, <2>1, <2>4, <2>5 DEF Manifested, Entries, Glued
<1> QED BY <1>1, <1>5, <1>6, <1>7, <1>8, <1>9 DEF Inv

LEMMA InvStep == Inv /\ [Next]_vars => Inv'
BY ShapesStep, BackedStep, AccountedStep, RulesCarriedStep, ReferredStep, NumberedStep,
   CarriedStep, RestoredStep, ManifestedStep DEF Inv

LEMMA InvHolds == Spec => []Inv
BY InvInit, InvStep, PTL DEF Spec

\* Whatever fails, is rolled back or is rebuilt, every row of the index is the
\* content of a whole record of the shards, a superseded rule has its audit
\* record, and a referral that is no longer current has the escalation of its
\* case or another referral of it on record (Save* and Update* of
\* internal/repo, RebuildIndex with postProcessRebuild).
THEOREM IndexIsBacked == Spec => []BackedByShards
<1>1. Inv => BackedByShards
  <2> SUFFICES ASSUME Inv
               PROVE  BackedByShards
    OBVIOUS
  <2>1. Backed(index)
    BY DEF Inv, AllBacked
  <2>2. \A v \in DOMAIN index["rules"] : ~ index["rules"][v].live => Announced(v)
    BY DEF Inv, Accounted
  <2>3. ASSUME NEW k \in DOMAIN index["assignments"], ~ index["assignments"][k].live
        PROVE  \/ Escalated(index["assignments"][k].about)
               \/ \E i \in Records("assignments") :
                    /\ shards["assignments"][i].key # k /\ ~ shards["assignments"][i].torn
                    /\ shards["assignments"][i].row.about = index["assignments"][k].about
    <3>1. Escalated(index["assignments"][k].about) \/ Succeeded(index, k)
      BY <2>3 DEF Inv, Referred
    <3>2. ASSUME Succeeded(index, k)
          PROVE  \E i \in Records("assignments") :
                   /\ shards["assignments"][i].key # k /\ ~ shards["assignments"][i].torn
                   /\ shards["assignments"][i].row.about = index["assignments"][k].about
      <4>1. PICK l \in DOMAIN index["assignments"] \ {k} :
              index["assignments"][l].about = index["assignments"][k].about
        BY <3>2 DEF Succeeded
      <4>2. Backing("assignments", l, index["assignments"][l])
        BY <2>1 DEF Backed, Types
      <4> QED BY <4>1, <4>2 DEF Backing
    <3> QED BY <3>1, <3>2
  <2>4. \A t \in Types : \A k \in DOMAIN index[t] : Backing(t, k, index[t][k])
    BY <2>1 DEF Backed
  <2> QED BY <2>2, <2>3, <2>4 DEF BackedByShards, Backing, Announced, Escalated
<1> QED BY <1>1, InvHolds, PTL

\* A rebuild restores what committed, can be read and lies in no file it
\* failed to read, and later transactions keep it (RebuildIndex,
\* internal/repo/rebuild.go).  No other file suffers from a failed read.
THEOREM RebuildRestores == Spec => []CommittedIsRestored
<1>1. Inv => CommittedIsRestored
  BY DEF Inv, Restored, CommittedIsRestored
<1> QED BY <1>1, InvHolds, PTL

\* A clean reconciliation means that the index holds what the shards rebuild,
\* but for the files the last rebuild failed to read in its scan (Reconcile).
\* An entry without lines and a file with some cannot both be: the first line
\* of a file is glued to nothing.
THEOREM ReconcileIsRight == Spec => []CleanReconcileIsRight
<1>1. Inv => CleanReconcileIsRight
  <2> SUFFICES ASSUME Inv, ~ raced,
                      \A t \in Types : \A i \in Records(t) : ~ shards[t][i].rotated,
                      \A f \in Existing : Entry(f).status = "ok" => Entry(f).size # 0,
                      NEW unread,
                      Reconcile(unread) = [orphaned |-> {}, missing |-> {}, mismatched |-> {},
                                           corrupted |-> {}]
               PROVE  Matches(index, Collected(skipped))
    BY DEF CleanReconcileIsRight, Matches
  <2>1. Entries /\ Glued /\ (~ Outgrown /\ ~ raced => Matches(index, Collected(skipped)))
    BY DEF Inv, Manifested, Entries, Glued
  <2>2. ShardsOK
    BY DEF Inv, Shapes, Filed
  <2>3. \A f \in Existing : /\ ~ (LinesOf(f[1], f[2]) > Entry(f).lines)
                            /\ ~ (Entry(f).size # 0 /\ Entry(f).size # SizeOf(f[1], f[2]))
    <3>1. PICK files : files = Existing \ unread
      OBVIOUS
    <3>2. /\ unread = {}
          /\ {f \in files : LinesOf(f[1], f[2]) > Entry(f).lines} = {}
          /\ {f \in files : Entry(f).size # 0 /\ Entry(f).size # SizeOf(f[1], f[2])} = {}
      BY <3>1 DEF Reconcile
    <3> QED BY <3>1, <3>2
  <2>4. ASSUME NEW t \in Types, NEW d \in 1 .. MaxDay
        PROVE  SizeOf(t, d) = manifest[t][d].size
    <3>1. <<t, d>>[1] = t /\ <<t, d>>[2] = d /\ Entry(<<t, d>>) = manifest[t][d]
      BY DEF Entry
    <3>2. /\ IsFiniteSet(File(t, d)) /\ SizeOf(t, d) \in Nat /\ LinesOf(t, d) \in Nat
      BY <2>2, FilesAreFinite
    <3>3. /\ manifest[t][d].lines \in Nat /\ manifest[t][d].size \in Nat
          /\ manifest[t][d].size <= SizeOf(t, d)
          /\ manifest[t][d].status # "ok" => manifest[t][d].lines = 0
      BY <2>1 DEF Entries
    <3>4. CASE File(t, d) = {}
      <4>1. SizeOf(t, d) = 0
        BY <3>4, FS_EmptySet DEF SizeOf
      <4> QED BY <3>3, <4>1
    <3>5. CASE File(t, d) # {}
      <4>a. <<t, d>> \in Existing
        BY <3>5 DEF Existing
      <4>b. /\ ~ (LinesOf(t, d) > manifest[t][d].lines)
            /\ manifest[t][d].size = 0 \/ manifest[t][d].size = SizeOf(t, d)
            /\ manifest[t][d].status = "ok" => manifest[t][d].size # 0
        BY <2>3, <3>1, <4>a
      <4>c. ASSUME manifest[t][d].size = 0
            PROVE  FALSE
        <5>1. LinesOf(t, d) = 0
          BY <3>2, <3>3, <4>b, <4>c
        <5> DEFINE whole == {i \in File(t, d) : ~ shards[t][i].glued}
        <5>2. IsFiniteSet(whole)
          BY <3>2, FS_Subset
        <5>3. Cardinality(whole) = 0
          BY <5>1 DEF LinesOf
        <5> HIDE DEF whole
        <5>4. whole = {}
          BY <5>2, <5>3, FS_EmptySet
        <5>5. \A i \in File(t, d) : shards[t][i].glued
          BY <5>4 DEF whole
        <5>6. File(t, d) \in SUBSET Nat
          BY <2>2 DEF File, Records, ShardsOK
        <5>7. PICK i \in File(t, d) : \A j \in File(t, d) : i <= j
          BY <3>5, <5>6, LeastExists
        <5>8. i \in Records(t) /\ shards[t][i].day = d /\ shards[t][i].glued
          BY <5>5 DEF File
        <5>9. PICK j \in File(t, d) : j < i
          BY <2>1, <5>8 DEF Glued
        <5>10. i \in Nat /\ j \in Nat
          BY <5>6
        <5> QED BY <5>7, <5>9, <5>10
      <4> QED BY <4>b, <4>c
    <3> QED BY <3>4, <3>5
  <2>5. ~ Outgrown
    BY <2>4 DEF Outgrown
  <2> QED BY <2>1, <2>5
<1> QED BY <1>1, InvHolds, PTL

\* The only referral of a case without an escalation is the current one
\* (postProcessRebuild guesses is_current from the escalations).
THEOREM ReferralsKept == Spec => []PlainCasesKeepTheirReferral
<1>1. Inv => PlainCasesKeepTheirReferral
  <2> SUFFICES ASSUME Inv, NEW id,
                      Cardinality(ReferralsOf(index["assignments"], {id})) = 1,
                      \A i \in Records("escalations") : shards["escalations"][i].row.about # id,
                      NEW k \in ReferralsOf(index["assignments"], {id}),
                      ~ index["assignments"][k].live
               PROVE  FALSE
    BY DEF PlainCasesKeepTheirReferral
  <2> DEFINE own == ReferralsOf(index["assignments"], {id})
  <2>1. own \subseteq 1 .. requests /\ requests \in Nat
    <3>1. Within(index, requests) /\ requests \in Nat
      BY DEF Inv, Shapes, Counters
    <3>2. PICK t \in Types : t = "assignments"
      BY DEF Types
    <3>3. \A q \in DOMAIN index[t] : q \in KeysUpTo(t, requests)
      BY <3>1 DEF Within
    <3>4. KeysUpTo(t, requests) = 1 .. requests
      BY <3>2 DEF KeysUpTo
    <3>5. DOMAIN index["assignments"] \subseteq 1 .. requests
      BY <3>2, <3>3, <3>4
    <3> QED BY <3>1, <3>5 DEF ReferralsOf
  <2>2. IsFiniteSet(own)
    <3>a. requests \in Int /\ 1 \in Int
      BY <2>1
    <3>1. IsFiniteSet(1 .. requests)
      BY <3>a, FS_Interval
    <3> HIDE DEF own
    <3> QED BY <2>1, <3>1, FS_Subset
  <2>3. PICK x : own = {x}
    BY <2>2, FS_Singleton
  <2>4. k \in DOMAIN index["assignments"] /\ index["assignments"][k].about = id
    BY DEF ReferralsOf
  <2>5. ~ Escalated(id)
    BY DEF Escalated
  <2>6. Succeeded(index, k)
    BY <2>4, <2>5 DEF Inv, Referred
  <2>7. PICK l \in DOMAIN index["assignments"] \ {k} : index["assignments"][l].about = id
    BY <2>4, <2>6 DEF Succeeded
  <2>8. l \in own /\ k \in own /\ l # k
    BY <2>7 DEF ReferralsOf
  <2> QED BY <2>3, <2>8
<1> QED BY <1>1, InvHolds, PTL

\* Stored rules outlive transactions, rollbacks and rebuilds (DeleteAllData
\* spares the table; a rebuild that meets a stored rule is rolled back).
THEOREM RulesSurvive == Spec => RulesSurviveRebuilds
<1> DEFINE A == ~ lost' \/ lost => \A v \in DOMAIN index["rules"] :
                  /\ v \in DOMAIN index'["rules"]
                  /\ index'["rules"][v].val = index["rules"][v].val
                  /\ index'["rules"][v].live => index["rules"][v].live
<1>1. Inv /\ [Next]_vars => A
  <2> SUFFICES ASSUME Inv, [Next]_vars
               PROVE  A
    OBVIOUS
  <2>1. CASE index' = index
    BY <2>1
  <2>2. CASE Commit
    <3>1. PICK t \in tx : index' = t.tables
      BY <2>2 DEF Commit
    <3> QED BY <3>1 DEF Inv, RulesCarried
  <2>3. CASE OpenEmptyIndex
    BY <2>3 DEF OpenEmptyIndex
  <2>4. CASE RebuildTx
    <3>1. PICK new \in Scans : ~ Conflicts(DeleteAllData(index), new) /\ index' = Rebuilt(new)
      BY <2>4 DEF RebuildTx, Rebuilt, Scans
    <3>2. PICK u \in Standing : u = "rules"
      BY DEF Standing
    <3>3. PICK R : R = Rebuilt(new)
      OBVIOUS
    <3>4. RebuiltOutcome(R, new, u)
      BY <3>1, <3>3, StandingRebuilt DEF Inv
    <3> QED BY <3>1, <3>2, <3>3, <3>4 DEF RebuiltOutcome
  <2>5. index' = index \/ Commit \/ OpenEmptyIndex \/ RebuildTx
    BY StepKinds DEF Quiet, BeginTx, Execute, RebuildScan
  <2> QED BY <2>1, <2>2, <2>3, <2>4, <2>5
<1>2. Inv /\ [Next]_vars => [A]_vars
  BY <1>1
<1> QED BY <1>2, InvHolds, PTL DEF Spec, RulesSurviveRebuilds

=============================================================================
