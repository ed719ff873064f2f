--------------------------- MODULE LightHubProofs ---------------------------
(***************************************************************************)
(* Proofs about LightHub, for every set of identifiers, capacities, venue  *)
(* kinds and instants.                                                     *)
(***************************************************************************)
EXTENDS LightHub, FiniteSetTheorems, WellFoundedInduction, TLAPS

-----------------------------------------------------------------------------
(***************************************************************************)
(* Facts about the operators the actions are built from.                   *)
(***************************************************************************)
ComplaintRecord == [district : Districts, kind : [word : Allowed, tidy : {TRUE}],
                    status : Statuses, zone : ZoneIDs \cup {None},
                    rule : RuleIDs \cup {None}, attempt : Nat, intake : Intakes]
TeamRecord == [capacity : Capacities, reserved : Int, opening : Openings]
ZoneRecord == [district : Districts, kind : VenueKinds, capacity : Capacities,
               allocated : Int, active : BOOLEAN,
               opening : Openings, holders : SUBSET ComplaintIDs]
RuleRecord == [kinds : RuleKinds, capacity : Capacities, used : Int, from : Times, to : Times,
               opening : Openings, holders : SUBSET ComplaintIDs]
PanelRecord == [capacity : Capacities, assessors : Seq(AssessorIDs), opening : Rosters]

\* The numbers resources are registered with and asked for.
LEMMA Numbers ==
  /\ \A n \in Capacities \cup Counts : n \in Nat /\ n \in Int /\ n >= 1
  /\ \A o \in Openings : o \in Int
<1>1. Capacities \subseteq Nat \ {0} /\ Counts \subseteq Nat \ {0} /\ Openings \subseteq Int
  BY HubAssumption
<1>2. \A n \in Nat \ {0} : n \in Nat /\ n \in Int /\ n >= 1
  OBVIOUS
<1> QED BY <1>1, <1>2

\* Only a pending complaint can be accepted and only an active one closed.
LEMMA Transitions ==
  ASSUME NEW from \in Statuses
  PROVE  /\ validComplaintTransition(from, "accepted") <=> from = "pending"
         /\ validComplaintTransition(from, "closed") <=> from = "active"
BY DEF validComplaintTransition, Statuses

\* The normal form of a valid venue kind, and of a normal form.
LEMMA NormalForm ==
  ASSUME NEW kind \in VenueKinds
  PROVE  /\ normalizeVenueKind(kind) \in VenueKinds
         /\ normalizeVenueKind(kind).word = kind.word
         /\ validateComplaintInput(kind) =>
              normalizeVenueKind(kind) \in [word : Allowed, tidy : {TRUE}]
         /\ kind.tidy = TRUE => normalizeVenueKind(kind) = kind
BY DEF normalizeVenueKind, VenueKinds, validateComplaintInput

\* The positions of x in a list, when e is appended to it.
Positions(s, x) == {i \in DOMAIN s : s[i] = x}

LEMMA AppendPositions ==
  ASSUME NEW S, NEW s \in Seq(S), NEW e \in S, NEW x
  PROVE  /\ IsFiniteSet(Positions(s, x)) /\ Cardinality(Positions(s, x)) \in Nat
         /\ Append(s, e) \in Seq(S)
         /\ e = x => Cardinality(Positions(Append(s, e), x)) = Cardinality(Positions(s, x)) + 1
         /\ e # x => Cardinality(Positions(Append(s, e), x)) = Cardinality(Positions(s, x))
<1> DEFINE n == Len(s)
<1>1. /\ n \in Nat /\ DOMAIN s = 1 .. n /\ DOMAIN Append(s, e) = 1 .. n + 1
      /\ Append(s, e) \in Seq(S) /\ Append(s, e)[n + 1] = e
      /\ \A i \in 1 .. n : Append(s, e)[i] = s[i]
  OBVIOUS
<1>2. IsFiniteSet(1 .. n) /\ Positions(s, x) \in SUBSET (1 .. n)
  BY <1>1, FS_Interval DEF Positions
<1>3. IsFiniteSet(Positions(s, x)) /\ n + 1 \notin Positions(s, x)
  BY <1>1, <1>2, FS_Subset
<1>4. Cardinality(Positions(s, x)) \in Nat
  BY <1>3, FS_CardinalityType
<1>5. CASE e = x
  <2>1. Positions(Append(s, e), x) = Positions(s, x) \cup {n + 1}
    BY <1>1, <1>5 DEF Positions
  <2> QED BY <1>1, <1>3, <1>4, <1>5, <2>1, FS_AddElement
<1>6. CASE e # x
  <2>1. Positions(Append(s, e), x) = Positions(s, x)
    BY <1>1, <1>6 DEF Positions
  <2> QED BY <1>1, <1>3, <1>4, <1>6, <2>1
<1> QED BY <1>5, <1>6

-----------------------------------------------------------------------------
(***************************************************************************)
(* Types.  No operation writes a status other than these two, so nothing   *)
(* is ever closed, returned or resubmitted.                                *)
(***************************************************************************)
Stages == \A id \in DOMAIN complaints : complaints[id].status \in {"pending", "accepted"}

LEMMA TypeInit == Init => TypeOK /\ Stages
BY DEF Init, TypeOK, Stages

LEMMA SubmittedRecord ==
  ASSUME NEW id \in ComplaintIDs, NEW d \in Districts, NEW k \in VenueKinds, NEW i \in Intakes,
         SubmitComplaint(id, d, k, i)
  PROVE  /\ id \notin DOMAIN complaints
         /\ DOMAIN complaints' = DOMAIN complaints \cup {id}
         /\ complaints'[id] \in ComplaintRecord /\ complaints'[id].status = "pending"
         /\ complaints'[id].zone = i.zone /\ complaints'[id].rule = i.rule
         /\ complaints'[id].intake = i
         /\ \A c \in DOMAIN complaints : complaints'[c] = complaints[c]
<1> DEFINE new == [district |-> d, kind |-> normalizeVenueKind(k), status |-> "pending",
                   zone |-> i.zone, rule |-> i.rule, attempt |-> 1, intake |-> i]
<1>1. normalizeVenueKind(k) \in [word : Allowed, tidy : {TRUE}]
  BY NormalForm DEF SubmitComplaint
<1>2. i.zone \in ZoneIDs \cup {None} /\ i.rule \in RuleIDs \cup {None}
  BY HubAssumption
<1>3. /\ new \in ComplaintRecord /\ new.status = "pending"
      /\ new.zone = i.zone /\ new.rule = i.rule /\ new.intake = i
  BY <1>1, <1>2 DEF ComplaintRecord, Statuses
<1>4. complaints' = Put(complaints, id, new) /\ id \notin DOMAIN complaints
  BY DEF SubmitComplaint
<1> HIDE DEF new
<1>5. /\ DOMAIN complaints' = DOMAIN complaints \cup {id}
      /\ complaints'[id] = new
      /\ \A c \in DOMAIN complaints : complaints'[c] = complaints[c]
  BY <1>4 DEF Put
<1> QED BY <1>3, <1>4, <1>5

\* What the operations that rewrite a complaint do to the table.
LEMMA Rewritten ==
  ASSUME NEW c \in DOMAIN complaints, complaints[c] \in ComplaintRecord
  PROVE  /\ \A z \in ZoneIDs : complaints' = [complaints EXCEPT ![c].zone = z] =>
              /\ DOMAIN complaints' = DOMAIN complaints
              /\ complaints'[c] \in ComplaintRecord
              /\ complaints'[c].zone = z /\ complaints'[c].rule = complaints[c].rule
              /\ complaints'[c].status = complaints[c].status
              /\ complaints'[c].district = complaints[c].district
              /\ complaints'[c].kind = complaints[c].kind
              /\ complaints'[c].intake = complaints[c].intake
              /\ \A k \in DOMAIN complaints \ {c} : complaints'[k] = complaints[k]
         /\ \A r \in RuleIDs : complaints' = [complaints EXCEPT ![c].rule = r] =>
              /\ DOMAIN complaints' = DOMAIN complaints
              /\ complaints'[c] \in ComplaintRecord
              /\ complaints'[c].rule = r /\ complaints'[c].zone = complaints[c].zone
              /\ complaints'[c].status = complaints[c].status
              /\ complaints'[c].district = complaints[c].district
              /\ complaints'[c].kind = complaints[c].kind
              /\ complaints'[c].intake = complaints[c].intake
              /\ \A k \in DOMAIN complaints \ {c} : complaints'[k] = complaints[k]
         /\ complaints' = [complaints EXCEPT ![c].status = "accepted"] =>
              /\ DOMAIN complaints' = DOMAIN complaints
              /\ complaints'[c] \in ComplaintRecord
              /\ complaints'[c].status = "accepted"
              /\ complaints'[c].zone = complaints[c].zone
              /\ complaints'[c].rule = complaints[c].rule
              /\ complaints'[c].district = complaints[c].district
              /\ complaints'[c].kind = complaints[c].kind
              /\ complaints'[c].intake = complaints[c].intake
              /\ \A k \in DOMAIN complaints \ {c} : complaints'[k] = complaints[k]
<1> USE DEF ComplaintRecord, Statuses
<1>1. ASSUME NEW z \in ZoneIDs, complaints' = [complaints EXCEPT ![c].zone = z]
      PROVE  /\ DOMAIN complaints' = DOMAIN complaints
             /\ complaints'[c] = [complaints[c] EXCEPT !.zone = z]
             /\ \A k \in DOMAIN complaints \ {c} : complaints'[k] = complaints[k]
  BY <1>1
<1>2. ASSUME NEW r \in RuleIDs, complaints' = [complaints EXCEPT ![c].rule = r]
      PROVE  /\ DOMAIN complaints' = DOMAIN complaints
             /\ complaints'[c] = [complaints[c] EXCEPT !.rule = r]
             /\ \A k \in DOMAIN complaints \ {c} : complaints'[k] = complaints[k]
  BY <1>2
<1>3. ASSUME complaints' = [complaints EXCEPT ![c].status = "accepted"]
      PROVE  /\ DOMAIN complaints' = DOMAIN complaints
             /\ complaints'[c] = [complaints[c] EXCEPT !.status = "accepted"]
             /\ \A k \in DOMAIN complaints \ {c} : complaints'[k] = complaints[k]
  BY <1>3
<1>4. ASSUME NEW z \in ZoneIDs, complaints' = [complaints EXCEPT ![c].zone = z]
      PROVE  /\ complaints'[c] \in ComplaintRecord
             /\ complaints'[c].zone = z /\ complaints'[c].rule = complaints[c].rule
             /\ complaints'[c].status = complaints[c].status
             /\ complaints'[c].district = complaints[c].district
             /\ complaints'[c].kind = complaints[c].kind
             /\ complaints'[c].intake = complaints[c].intake
  BY <1>1, <1>4
<1>5. ASSUME NEW r \in RuleIDs, complaints' = [complaints EXCEPT ![c].rule = r]
      PROVE  /\ complaints'[c] \in ComplaintRecord
             /\ complaints'[c].rule = r /\ complaints'[c].zone = complaints[c].zone
             /\ complaints'[c].status = complaints[c].status
             /\ complaints'[c].district = complaints[c].district
             /\ complaints'[c].kind = complaints[c].kind
             /\ complaints'[c].intake = complaints[c].intake
  BY <1>2, <1>5
<1>6. ASSUME complaints' = [complaints EXCEPT ![c].status = "accepted"]
      PROVE  /\ complaints'[c] \in ComplaintRecord
             /\ complaints'[c].status = "accepted"
             /\ complaints'[c].zone = complaints[c].zone
             /\ complaints'[c].rule = complaints[c].rule
             /\ complaints'[c].district = complaints[c].district
             /\ complaints'[c].kind = complaints[c].kind
             /\ complaints'[c].intake = complaints[c].intake
  BY <1>3, <1>6
<1> HIDE DEF ComplaintRecord, Statuses
<1> QED BY <1>1, <1>2, <1>3, <1>4, <1>5, <1>6

\* Resubmission and closure are refused in every status that occurs.
LEMMA Refused ==
  ASSUME TypeOK, Stages, NEW c, ResubmitComplaint(c) \/ CloseComplaint(c)
  PROVE  UNCHANGED vars
<1>1. c \in DOMAIN complaints /\ complaints[c].status \in {"pending", "accepted"}
  BY DEF Stages, ResubmitComplaint, CloseComplaint
<1>2. ~ validComplaintTransition(complaints[c].status, "closed")
  BY <1>1, Transitions DEF Statuses
<1> QED BY <1>1, <1>2 DEF ResubmitComplaint, CloseComplaint, vars

\* The tables as the invariants see them.
LEMMA Records ==
  ASSUME TypeOK
  PROVE  /\ \A c \in DOMAIN complaints : complaints[c] \in ComplaintRecord
         /\ \A z \in DOMAIN zones : zones[z] \in ZoneRecord
         /\ \A r \in DOMAIN rules : rules[r] \in RuleRecord
         /\ \A p \in DOMAIN panels : panels[p] \in PanelRecord
         /\ \A t \in DOMAIN teams : teams[t] \in TeamRecord
BY DEF TypeOK, ComplaintRecord, ZoneRecord, RuleRecord, PanelRecord, TeamRecord

\* What AssignZone does to the table of zones, and ApplyRule to that of rules.
LEMMA Assigned ==
  ASSUME TypeOK, NEW c \in ComplaintIDs, NEW z \in ZoneIDs, NEW n \in Counts, AssignZone(c, z, n)
  PROVE  /\ z \in DOMAIN zones /\ DOMAIN zones' = DOMAIN zones
         /\ zones'[z].allocated = zones[z].allocated + n
         /\ zones'[z].holders = zones[z].holders \cup {c}
         /\ zones'[z].capacity = zones[z].capacity /\ zones'[z].opening = zones[z].opening
         /\ zones'[z].active = zones[z].active
         /\ zones'[z].district = zones[z].district /\ zones'[z].kind = zones[z].kind
         /\ zones'[z] \in ZoneRecord
         /\ \A y \in DOMAIN zones \ {z} : zones'[y] = zones[y]
<1>1. z \in DOMAIN zones /\ zones[z] \in ZoneRecord
  BY Records DEF AssignZone
<1>2. /\ DOMAIN zones' = DOMAIN zones
      /\ zones'[z] = [zones[z] EXCEPT !.allocated = @ + n, !.holders = @ \cup {c}]
      /\ \A y \in DOMAIN zones \ {z} : zones'[y] = zones[y]
  BY <1>1 DEF AssignZone, ZoneRecord
<1>3. zones[z].allocated + n \in Int /\ zones[z].holders \cup {c} \in SUBSET ComplaintIDs
  BY <1>1, Numbers DEF ZoneRecord
<1>4. PICK a \in Int, h \in SUBSET ComplaintIDs :
        a = zones[z].allocated + n /\ h = zones[z].holders \cup {c}
  BY <1>3
<1>5. zones'[z] = [zones[z] EXCEPT !.allocated = a, !.holders = h]
  BY <1>1, <1>2, <1>4 DEF ZoneRecord
<1>6. zones'[z] \in ZoneRecord
  BY <1>1, <1>5 DEF ZoneRecord
<1>7. /\ zones'[z].allocated = a /\ zones'[z].holders = h
      /\ zones'[z].capacity = zones[z].capacity /\ zones'[z].opening = zones[z].opening
      /\ zones'[z].active = zones[z].active
      /\ zones'[z].district = zones[z].district /\ zones'[z].kind = zones[z].kind
  BY <1>1, <1>5 DEF ZoneRecord
<1> QED BY <1>1, <1>2, <1>4, <1>6, <1>7

LEMMA Applied ==
  ASSUME TypeOK, NEW c \in ComplaintIDs, NEW r \in RuleIDs, NEW at \in Times, ApplyRule(c, r, at)
  PROVE  /\ r \in DOMAIN rules /\ DOMAIN rules' = DOMAIN rules
         /\ rules'[r].used = rules[r].used + 1
         /\ rules'[r].holders = rules[r].holders \cup {c}
         /\ rules'[r].capacity = rules[r].capacity /\ rules'[r].opening = rules[r].opening
         /\ rules'[r] \in RuleRecord
         /\ \A y \in DOMAIN rules \ {r} : rules'[y] = rules[y]
<1>1. r \in DOMAIN rules /\ rules[r] \in RuleRecord
  BY Records DEF ApplyRule
<1>2. /\ DOMAIN rules' = DOMAIN rules
      /\ rules'[r] = [rules[r] EXCEPT !.used = @ + 1, !.holders = @ \cup {c}]
      /\ \A y \in DOMAIN rules \ {r} : rules'[y] = rules[y]
  BY <1>1 DEF ApplyRule, RuleRecord
<1>3. rules[r].used + 1 \in Int /\ rules[r].holders \cup {c} \in SUBSET ComplaintIDs
  BY <1>1 DEF RuleRecord
<1>4. PICK a \in Int, h \in SUBSET ComplaintIDs :
        a = rules[r].used + 1 /\ h = rules[r].holders \cup {c}
  BY <1>3
<1>5. rules'[r] = [rules[r] EXCEPT !.used = a, !.holders = h]
  BY <1>1, <1>2, <1>4 DEF RuleRecord
<1>6. rules'[r] \in RuleRecord
  BY <1>1, <1>5 DEF RuleRecord
<1>7. /\ rules'[r].used = a /\ rules'[r].holders = h
      /\ rules'[r].capacity = rules[r].capacity /\ rules'[r].opening = rules[r].opening
  BY <1>1, <1>5 DEF RuleRecord
<1> QED BY <1>1, <1>2, <1>4, <1>6, <1>7

LEMMA TypeStep ==
  ASSUME TypeOK, Stages, [Next]_vars
  PROVE  TypeOK' /\ Stages'
<1> USE HubAssumption
<1>a. \A c \in DOMAIN complaints : complaints[c] \in ComplaintRecord
  BY DEF TypeOK, ComplaintRecord
<1>b. ASSUME DOMAIN complaints' = DOMAIN complaints,
             \A c \in DOMAIN complaints : /\ complaints'[c] \in ComplaintRecord
                                          /\ complaints'[c].status \in {"pending", "accepted"},
             UNCHANGED <<teams, assessments, rectifications, panels>>,
             \A z \in DOMAIN zones' : zones'[z] \in ZoneRecord,
             \A r \in DOMAIN rules' : rules'[r] \in RuleRecord
      PROVE  TypeOK' /\ Stages'
  BY <1>b DEF TypeOK, Stages, ComplaintRecord, ZoneRecord, RuleRecord
<1>z. \A z \in DOMAIN zones : zones[z] \in ZoneRecord
  BY DEF TypeOK, ZoneRecord
<1>r. \A r \in DOMAIN rules : rules[r] \in RuleRecord
  BY DEF TypeOK, RuleRecord
<1>0. CASE UNCHANGED vars
  BY <1>0 DEF TypeOK, Stages, vars
<1>1. ASSUME NEW id \in TeamIDs, NEW n \in Capacities, NEW o \in Openings,
             AddAssessmentTeam(id, n, o)
      PROVE  TypeOK' /\ Stages'
  BY <1>1 DEF AddAssessmentTeam, Put, TypeOK, Stages
<1>2. ASSUME NEW id \in ZoneIDs, NEW d \in Districts, NEW k \in VenueKinds,
             NEW n \in Capacities, NEW o \in Openings, NEW b \in BOOLEAN,
             AddZone(id, d, k, n, o, b)
      PROVE  TypeOK' /\ Stages'
  <2> DEFINE new == [district |-> d, kind |-> k, capacity |-> n, allocated |-> o, active |-> b,
                     opening |-> o, holders |-> {}]
  <2>1. new \in ZoneRecord
    BY DEF ZoneRecord
  <2>2. zones' = Put(zones, id, new)
    BY <1>2 DEF AddZone
  <2> HIDE DEF new
  <2>3. \A z \in DOMAIN zones' : zones'[z] \in ZoneRecord
    BY <2>1, <2>2, <1>z DEF Put
  <2> QED BY <1>2, <2>3, <1>a, <1>b, <1>r DEF AddZone, Stages
<1>3. ASSUME NEW id \in RuleIDs, NEW ks \in RuleKinds, NEW n \in Capacities,
             NEW o \in Openings, NEW from \in Times, NEW to \in Times,
             AddRule(id, ks, n, o, from, to)
      PROVE  TypeOK' /\ Stages'
  <2> DEFINE new == [kinds |-> ks, capacity |-> n, used |-> o, from |-> from, to |-> to,
                     opening |-> o, holders |-> {}]
  <2>1. new \in RuleRecord
    BY DEF RuleRecord
  <2>2. rules' = Put(rules, id, new)
    BY <1>3 DEF AddRule
  <2> HIDE DEF new
  <2>3. \A r \in DOMAIN rules' : rules'[r] \in RuleRecord
    BY <2>1, <2>2, <1>r DEF Put
  <2> QED BY <1>3, <2>3, <1>a, <1>b, <1>z DEF AddRule, Stages
<1>4. ASSUME NEW id \in PanelIDs, NEW n \in Capacities, NEW o \in Rosters, AddPanel(id, n, o)
      PROVE  TypeOK' /\ Stages'
  <2> DEFINE new == [capacity |-> n, assessors |-> o, opening |-> o]
  <2>1. new \in PanelRecord
    BY DEF PanelRecord
  <2>2. panels' = Put(panels, id, new)
    BY <1>4 DEF AddPanel
  <2> HIDE DEF new
  <2>3. \A p \in DOMAIN panels' : panels'[p] \in PanelRecord
    BY <2>1, <2>2 DEF Put, TypeOK, PanelRecord
  <2> QED BY <1>4, <2>3 DEF AddPanel, TypeOK, Stages, PanelRecord
<1>5. ASSUME NEW id \in ComplaintIDs, NEW d \in Districts, NEW k \in VenueKinds,
             NEW i \in Intakes, SubmitComplaint(id, d, k, i)
      PROVE  TypeOK' /\ Stages'
  <2>1. /\ DOMAIN complaints' = DOMAIN complaints \cup {id}
        /\ complaints'[id] \in ComplaintRecord /\ complaints'[id].status = "pending"
        /\ \A c \in DOMAIN complaints : complaints'[c] = complaints[c]
    BY <1>5, SubmittedRecord
  <2>2. \A c \in DOMAIN complaints' : /\ complaints'[c] \in ComplaintRecord
                                      /\ complaints'[c].status \in {"pending", "accepted"}
    BY <2>1, <1>a DEF Stages
  <2> QED BY <1>5, <2>2 DEF SubmitComplaint, TypeOK, Stages, ComplaintRecord
<1>6. ASSUME NEW id \in ComplaintIDs, NEW t \in TeamIDs, NEW n \in Counts,
             ReserveAssessment(id, t, n)
      PROVE  TypeOK' /\ Stages'
  <2>3. t \in DOMAIN teams /\ n \in Int /\ \A k \in DOMAIN teams : teams[k] \in TeamRecord
    BY <1>6, Records, Numbers DEF ReserveAssessment
  <2>4. /\ DOMAIN teams' = DOMAIN teams /\ teams'[t] = [teams[t] EXCEPT !.reserved = @ + n]
        /\ \A k \in DOMAIN teams \ {t} : teams'[k] = teams[k]
    BY <1>6, <2>3 DEF ReserveAssessment, TeamRecord
  <2>5. teams'[t] \in TeamRecord
    BY <2>3, <2>4 DEF TeamRecord
  <2>1. \A k \in DOMAIN teams' : teams'[k] \in TeamRecord
    BY <2>3, <2>4, <2>5
  <2>2. \A k \in DOMAIN assessments' :
          assessments'[k] \in [team : TeamIDs, count : Counts, released : BOOLEAN]
    BY <1>6 DEF ReserveAssessment, TypeOK, Put
  <2> QED BY <1>6, <2>1, <2>2 DEF ReserveAssessment, TypeOK, Stages, TeamRecord
<1>7. ASSUME NEW id \in ComplaintIDs, ReleaseAssessment(id)
      PROVE  TypeOK' /\ Stages'
  <2>1. assessments[id] \in [team : TeamIDs, count : Counts, released : BOOLEAN]
    BY <1>7 DEF ReleaseAssessment, Live, TypeOK
  <2>4. PICK t, n : t = assessments[id].team /\ n = assessments[id].count
    OBVIOUS
  <2>5. t \in DOMAIN teams /\ n \in Int /\ \A k \in DOMAIN teams : teams[k] \in TeamRecord
    BY <1>7, <2>1, <2>4, Records, Numbers DEF ReleaseAssessment
  <2>6. /\ DOMAIN teams' = DOMAIN teams /\ teams'[t] = [teams[t] EXCEPT !.reserved = @ - n]
        /\ \A k \in DOMAIN teams \ {t} : teams'[k] = teams[k]
    BY <1>7, <2>4, <2>5 DEF ReleaseAssessment, TeamRecord
  <2>7. teams'[t] \in TeamRecord
    BY <2>5, <2>6 DEF TeamRecord
  <2>2. \A k \in DOMAIN teams' : teams'[k] \in TeamRecord
    BY <2>5, <2>6, <2>7
  <2>3. \A k \in DOMAIN assessments' :
          assessments'[k] \in [team : TeamIDs, count : Counts, released : BOOLEAN]
    BY <1>7, <2>1 DEF ReleaseAssessment, TypeOK
  <2> QED BY <1>7, <2>2, <2>3 DEF ReleaseAssessment, TypeOK, Stages, TeamRecord
<1>8. ASSUME NEW id \in ComplaintIDs, AcceptComplaint(id)
      PROVE  TypeOK' /\ Stages'
  BY <1>8, <1>a, <1>b, <1>z, <1>r, Rewritten DEF AcceptComplaint, Stages
<1>9. ASSUME NEW id \in ComplaintIDs, NEW z \in ZoneIDs, NEW n \in Counts, AssignZone(id, z, n)
      PROVE  TypeOK' /\ Stages'
  <2>1. \A k \in DOMAIN zones' : zones'[k] \in ZoneRecord
    BY <1>9, <1>z, Assigned
  <2> QED BY <1>9, <2>1, <1>a, <1>b, <1>r, Rewritten DEF AssignZone, Stages
<1>10. ASSUME NEW id \in ComplaintIDs, NEW r \in RuleIDs, NEW at \in Times, ApplyRule(id, r, at)
       PROVE  TypeOK' /\ Stages'
  <2>1. \A k \in DOMAIN rules' : rules'[k] \in RuleRecord
    BY <1>10, <1>r, Applied
  <2> QED BY <1>10, <2>1, <1>a, <1>b, <1>z, Rewritten DEF ApplyRule, Stages
<1>11. ASSUME NEW id \in RectificationIDs, NEW c \in ComplaintIDs, NEW d \in Districts,
              PublishRectification(id, c, d)
       PROVE  TypeOK' /\ Stages'
  BY <1>11 DEF PublishRectification, Put, TypeOK, Stages
<1>12. ASSUME NEW id \in RectificationIDs, VerifyRectification(id)
       PROVE  TypeOK' /\ Stages'
  <2>1. \A k \in DOMAIN rectifications' :
          rectifications'[k] \in [district : Districts, complaint : ComplaintIDs,
                                  status : {"submitted", "accepted"}]
    BY <1>12 DEF VerifyRectification, TypeOK
  <2> QED BY <1>12, <2>1 DEF VerifyRectification, TypeOK, Stages
<1>13. ASSUME NEW id \in PanelIDs, NEW a \in AssessorIDs, EnrollAssessor(id, a)
       PROVE  TypeOK' /\ Stages'
  <2>1. id \in DOMAIN panels /\ \A p \in DOMAIN panels : panels[p] \in PanelRecord
    BY <1>13 DEF EnrollAssessor, TypeOK, PanelRecord
  <2>2. Append(panels[id].assessors, a) \in Seq(AssessorIDs)
    BY <2>1 DEF PanelRecord
  <2>3. \A p \in DOMAIN panels' : panels'[p] \in PanelRecord
    BY <1>13, <2>1, <2>2 DEF EnrollAssessor, PanelRecord
  <2> QED BY <1>13, <2>3 DEF EnrollAssessor, TypeOK, Stages, PanelRecord
<1>14. ASSUME NEW id \in ComplaintIDs, ResubmitComplaint(id) \/ CloseComplaint(id)
       PROVE  TypeOK' /\ Stages'
  BY <1>14, <1>0, Refused
<1> QED BY <1>0, <1>1, <1>2, <1>3, <1>4, <1>5, <1>6, <1>7, <1>8, <1>9, <1>10, <1>11, <1>12,
           <1>13, <1>14 DEF Next

\* The records of the registry keep their shapes, and a stored venue kind is
\* an allowed one in its normal form: TypeOK, with Stages, is inductive.
THEOREM TypeCorrect == Spec => []TypeOK
<1>1. Init => TypeOK /\ Stages
  BY TypeInit
<1>2. TypeOK /\ Stages /\ [Next]_vars => TypeOK' /\ Stages'
  BY TypeStep
<1> QED BY <1>1, <1>2, PTL DEF Spec

-----------------------------------------------------------------------------
(***************************************************************************)
(* The event log.                                                          *)
(***************************************************************************)
Log == events \in Seq(ComplaintIDs \X {"complaint.submitted", "complaint.accepted"})

Story ==
  \A id \in ComplaintIDs :
    /\ Cardinality(Positions(events, <<id, "complaint.submitted">>))
         = (IF id \in DOMAIN complaints THEN 1 ELSE 0)
    /\ Cardinality(Positions(events, <<id, "complaint.accepted">>))
         = (IF id \in DOMAIN complaints /\ complaints[id].status = "accepted" THEN 1 ELSE 0)

LEMMA StoryIsTold == Story <=> EventsTellTheStory
BY DEF Story, EventsTellTheStory, Positions

\* The complaints and their statuses are touched by submission and
\* acceptance only, and so is the event log.
LEMMA OthersKeepTheStory ==
  ASSUME TypeOK, Stages, [Next]_vars
  PROVE  \/ \E id \in ComplaintIDs, d \in Districts, k \in VenueKinds, i \in Intakes :
               SubmitComplaint(id, d, k, i)
         \/ \E id \in ComplaintIDs : AcceptComplaint(id)
         \/ /\ events' = events
            /\ DOMAIN complaints' = DOMAIN complaints
            /\ \A c \in DOMAIN complaints : complaints'[c].status = complaints[c].status
<1> DEFINE Kept == /\ events' = events
                   /\ DOMAIN complaints' = DOMAIN complaints
                   /\ \A c \in DOMAIN complaints : complaints'[c].status = complaints[c].status
<1>a. \A c \in DOMAIN complaints : complaints[c] \in ComplaintRecord
  BY DEF TypeOK, ComplaintRecord
<1>1. ASSUME events' = events, complaints' = complaints
      PROVE  Kept
  BY <1>1
<1>2. ASSUME NEW id \in ComplaintIDs, NEW z \in ZoneIDs, NEW n \in Counts, AssignZone(id, z, n)
      PROVE  Kept
  BY <1>2, <1>a, Rewritten DEF AssignZone
<1>3. ASSUME NEW id \in ComplaintIDs, NEW r \in RuleIDs, NEW at \in Times, ApplyRule(id, r, at)
      PROVE  Kept
  BY <1>3, <1>a, Rewritten DEF ApplyRule
<1>4. ASSUME NEW id \in ComplaintIDs, ResubmitComplaint(id) \/ CloseComplaint(id)
      PROVE  Kept
  BY <1>4, Refused, <1>1 DEF vars
<1>5. ASSUME \/ \E id \in TeamIDs, n \in Capacities, o \in Openings : AddAssessmentTeam(id, n, o)
             \/ \E id \in ZoneIDs, d \in Districts, k \in VenueKinds, n \in Capacities,
                   o \in Openings, b \in BOOLEAN : AddZone(id, d, k, n, o, b)
             \/ \E id \in RuleIDs, ks \in RuleKinds, n \in Capacities, o \in Openings,
                   from, to \in Times : AddRule(id, ks, n, o, from, to)
             \/ \E id \in PanelIDs, n \in Capacities, o \in Rosters : AddPanel(id, n, o)
             \/ \E id \in ComplaintIDs, t \in TeamIDs, n \in Counts : ReserveAssessment(id, t, n)
             \/ \E id \in ComplaintIDs : ReleaseAssessment(id)
             \/ \E id \in RectificationIDs, c \in ComplaintIDs, d \in Districts :
                   PublishRectification(id, c, d)
             \/ \E id \in RectificationIDs : VerifyRectification(id)
             \/ \E id \in PanelIDs, a \in AssessorIDs : EnrollAssessor(id, a)
      PROVE  Kept
  <2>1. events' = events /\ complaints' = complaints
    BY <1>5 DEF AddAssessmentTeam, AddZone, AddRule, AddPanel, ReserveAssessment,
                ReleaseAssessment, PublishRectification, VerifyRectification, EnrollAssessor
  <2> QED BY <2>1, <1>1
<1>6. ASSUME UNCHANGED vars
      PROVE  Kept
  BY <1>6, <1>1 DEF vars
<1> HIDE DEF Kept
<1>7. \/ \E id \in ComplaintIDs, d \in Districts, k \in VenueKinds, i \in Intakes :
            SubmitComplaint(id, d, k, i)
      \/ \E id \in ComplaintIDs : AcceptComplaint(id)
      \/ Kept
  BY <1>2, <1>3, <1>4, <1>5, <1>6 DEF Next
<1> QED BY <1>7 DEF Kept

LEMMA StoryStep ==
  ASSUME TypeOK, Stages, Log, Story, [Next]_vars
  PROVE  Log' /\ Story'
<1> DEFINE Actions == {"complaint.submitted", "complaint.accepted"}
           N(s, id, a) == Cardinality(Positions(s, <<id, a>>))
<1>1. ASSUME NEW c \in ComplaintIDs, NEW a \in Actions, events' = Append(events, <<c, a>>)
      PROVE  /\ Log'
             /\ N(events', c, a) = N(events, c, a) + 1
             /\ \A id \in ComplaintIDs, b \in Actions :
                  <<id, b>> # <<c, a>> => N(events', id, b) = N(events, id, b)
  <2>1. <<c, a>> \in ComplaintIDs \X Actions /\ events \in Seq(ComplaintIDs \X Actions)
    BY DEF Log
  <2> DEFINE e == <<c, a>>
             S == ComplaintIDs \X Actions
  <2>2. e \in S /\ events \in Seq(S)
    BY <2>1
  <2> HIDE DEF e, S
  <2>3. Append(events, e) \in Seq(S)
    BY <2>2, AppendPositions
  <2>4. Cardinality(Positions(Append(events, e), e)) = Cardinality(Positions(events, e)) + 1
    BY <2>2, AppendPositions
  <2>5. \A x : e # x =>
          Cardinality(Positions(Append(events, e), x)) = Cardinality(Positions(events, x))
    BY <2>2, AppendPositions
  <2> USE DEF e, S
  <2>6. Log'
    BY <1>1, <2>3 DEF Log
  <2>7. N(events', c, a) = N(events, c, a) + 1
    BY <1>1, <2>4
  <2>8. ASSUME NEW id \in ComplaintIDs, NEW b \in Actions, <<id, b>> # <<c, a>>
        PROVE  N(events', id, b) = N(events, id, b)
    BY <1>1, <2>5, <2>8
  <2> QED BY <2>6, <2>7, <2>8
<1>2. ASSUME NEW c \in ComplaintIDs, NEW d \in Districts, NEW k \in VenueKinds,
             NEW i \in Intakes, SubmitComplaint(c, d, k, i)
      PROVE  Log' /\ Story'
  <2>1. /\ c \notin DOMAIN complaints
        /\ DOMAIN complaints' = DOMAIN complaints \cup {c}
        /\ complaints'[c].status = "pending"
        /\ \A x \in DOMAIN complaints : complaints'[x] = complaints[x]
        /\ events' = Append(events, <<c, "complaint.submitted">>)
    BY <1>2, SubmittedRecord DEF SubmitComplaint
  <2> HIDE DEF N
  <2>2. /\ Log' /\ N(events', c, "complaint.submitted") = N(events, c, "complaint.submitted") + 1
        /\ \A id \in ComplaintIDs, b \in Actions :
             <<id, b>> # <<c, "complaint.submitted">> => N(events', id, b) = N(events, id, b)
    BY <2>1, <1>1
  <2>3. /\ N(events', c, "complaint.submitted") = 1
        /\ N(events', c, "complaint.accepted") = 0
    <3>1. N(events, c, "complaint.submitted") = 0 /\ N(events, c, "complaint.accepted") = 0
      BY <2>1 DEF Story, N
    <3> QED BY <3>1, <2>2
  <2>4. \A id \in ComplaintIDs \ {c} : /\ N(events', id, "complaint.submitted")
                                             = N(events, id, "complaint.submitted")
                                        /\ N(events', id, "complaint.accepted")
                                             = N(events, id, "complaint.accepted")
    BY <2>2
  <2>5. Story'
    BY <2>1, <2>3, <2>4 DEF Story, N
  <2> QED BY <2>2, <2>5
<1>3. ASSUME NEW c \in ComplaintIDs, AcceptComplaint(c)
      PROVE  Log' /\ Story'
  <2>0. c \in DOMAIN complaints /\ complaints[c] \in ComplaintRecord
    BY <1>3 DEF AcceptComplaint, TypeOK, ComplaintRecord
  <2>1. /\ complaints[c].status = "pending"
        /\ DOMAIN complaints' = DOMAIN complaints
        /\ complaints'[c].status = "accepted"
        /\ \A i \in DOMAIN complaints \ {c} : complaints'[i] = complaints[i]
        /\ events' = Append(events, <<c, "complaint.accepted">>)
    <3>1. complaints[c].status \in Statuses
      BY <2>0 DEF ComplaintRecord
    <3> QED BY <1>3, <2>0, <3>1, Rewritten, Transitions DEF AcceptComplaint
  <2> HIDE DEF N
  <2>2. /\ Log' /\ N(events', c, "complaint.accepted") = N(events, c, "complaint.accepted") + 1
        /\ \A id \in ComplaintIDs, b \in Actions :
             <<id, b>> # <<c, "complaint.accepted">> => N(events', id, b) = N(events, id, b)
    BY <2>1, <1>1
  <2>3. /\ N(events', c, "complaint.submitted") = 1
        /\ N(events', c, "complaint.accepted") = 1
    <3>1. N(events, c, "complaint.submitted") = 1 /\ N(events, c, "complaint.accepted") = 0
      BY <2>0, <2>1 DEF Story, N
    <3> QED BY <3>1, <2>2
  <2>4. \A id \in ComplaintIDs \ {c} : /\ N(events', id, "complaint.submitted")
                                             = N(events, id, "complaint.submitted")
                                        /\ N(events', id, "complaint.accepted")
                                             = N(events, id, "complaint.accepted")
    BY <2>2
  <2>5. Story'
    BY <2>0, <2>1, <2>3, <2>4 DEF Story, N
  <2> QED BY <2>2, <2>5
<1>4. CASE /\ events' = events
           /\ DOMAIN complaints' = DOMAIN complaints
           /\ \A c \in DOMAIN complaints : complaints'[c].status = complaints[c].status
  <2>1. Story'
    BY <1>4 DEF Story
  <2> QED BY <1>4, <2>1 DEF Log
<1> QED BY <1>2, <1>3, <1>4, OthersKeepTheStory

LEMMA StoryInit == Init => Log /\ Story
<1> SUFFICES ASSUME Init PROVE Log /\ Story
  OBVIOUS
<1>1. events = <<>> /\ complaints = <<>>
  BY DEF Init
<1>2. Log
  BY <1>1 DEF Log
<1>3. \A x : Positions(events, x) = {}
  BY <1>1 DEF Positions
<1>4. \A x : Cardinality(Positions(events, x)) = 0
  BY <1>3, FS_EmptySet
<1> QED BY <1>1, <1>2, <1>4 DEF Story

\* The event log has one submission for every complaint there is and one
\* acceptance exactly for the accepted ones, for any number of complaints:
\* no order of calls makes SubmitComplaint or AcceptComplaint speak twice.
THEOREM StoryToldOnce == Spec => []EventsTellTheStory
<1> DEFINE J == TypeOK /\ Stages /\ Log /\ Story
<1>1. Init => J
  BY TypeInit, StoryInit
<1>2. J /\ [Next]_vars => J'
  BY TypeStep, StoryStep
<1>3. J => EventsTellTheStory
  BY StoryIsTold
<1> QED BY <1>1, <1>2, <1>3, PTL DEF Spec

-----------------------------------------------------------------------------
(***************************************************************************)
(* Shares of zones, rules and panels.  A complaint whose zone (or rule) is *)
(* not the one it was submitted with was given a share of it: so one that  *)
(* is registered later is named only by complaints that brought the name.  *)
(***************************************************************************)
ZoneHeld(zone) ==
  /\ IsFiniteSet(zone.holders)
  /\ Cardinality(zone.holders) <= zone.allocated - zone.opening
  /\ zone.holders # {} => zone.allocated <= zone.capacity

RuleHeld(rule) ==
  /\ IsFiniteSet(rule.holders)
  /\ Cardinality(rule.holders) <= rule.used - rule.opening
  /\ rule.holders # {} => rule.used <= rule.capacity

ZoneGiven(c) ==
  complaints[c].zone # complaints[c].intake.zone =>
    complaints[c].zone \in DOMAIN zones /\ c \in zones[complaints[c].zone].holders

RuleGiven(c) ==
  complaints[c].rule # complaints[c].intake.rule =>
    complaints[c].rule \in DOMAIN rules /\ c \in rules[complaints[c].rule].holders

ZoneShares ==
  /\ \A z \in DOMAIN zones : ZoneHeld(zones[z])
  /\ \A c \in DOMAIN complaints : ZoneGiven(c)

RuleShares ==
  /\ \A r \in DOMAIN rules : RuleHeld(rules[r])
  /\ \A c \in DOMAIN complaints : RuleGiven(c)

Seated(panel) ==
  /\ Len(panel.opening) <= Len(panel.assessors)
  /\ \A i \in 1 .. Len(panel.opening) : panel.assessors[i] = panel.opening[i]
  /\ \A j \in Len(panel.opening) + 1 .. Len(panel.assessors) :
       j <= panel.capacity /\ \A i \in 1 .. j - 1 : panel.assessors[i] # panel.assessors[j]

Seats == \A p \in DOMAIN panels : Seated(panels[p])

\* A holder more, for n more shares.
LEMMA OneHolderMore ==
  ASSUME NEW H, IsFiniteSet(H), NEW c, NEW a \in Int, NEW o \in Int, NEW n \in Nat, n >= 1,
         Cardinality(H) <= a - o
  PROVE  IsFiniteSet(H \cup {c}) /\ Cardinality(H \cup {c}) <= (a + n) - o
<1>1. Cardinality(H) \in Nat
  BY FS_CardinalityType
<1>2. /\ IsFiniteSet(H \cup {c})
      /\ Cardinality(H \cup {c}) = Cardinality(H) \/ Cardinality(H \cup {c}) = Cardinality(H) + 1
  BY FS_AddElement
<1> QED BY <1>1, <1>2

\* Zones, rules and reservations are added and never taken away; a zone's
\* district, venue kind and activity stay as registered, and who was given a
\* share stays on record.
LEMMA TablesGrow ==
  ASSUME TypeOK, [Next]_vars
  PROVE  /\ DOMAIN zones \subseteq DOMAIN zones'
         /\ \A z \in DOMAIN zones : /\ zones'[z].active = zones[z].active
                                    /\ zones'[z].district = zones[z].district
                                    /\ zones'[z].kind = zones[z].kind
                                    /\ zones[z].holders \subseteq zones'[z].holders
         /\ DOMAIN rules \subseteq DOMAIN rules'
         /\ \A r \in DOMAIN rules : rules[r].holders \subseteq rules'[r].holders
         /\ DOMAIN assessments \subseteq DOMAIN assessments'
<1>1. DOMAIN assessments \subseteq DOMAIN assessments'
  BY DEF Next, vars, AddAssessmentTeam, AddZone, AddRule, AddPanel, SubmitComplaint,
         ReserveAssessment, ReleaseAssessment, AcceptComplaint, AssignZone, ApplyRule,
         PublishRectification, VerifyRectification, EnrollAssessor, ResubmitComplaint,
         CloseComplaint, Put
<1>2. \/ zones' = zones
      \/ \E id \in ZoneIDs, d \in Districts, k \in VenueKinds, n \in Capacities,
            o \in Openings, b \in BOOLEAN : AddZone(id, d, k, n, o, b)
      \/ \E id \in ComplaintIDs, z \in ZoneIDs, n \in Counts : AssignZone(id, z, n)
  BY DEF Next, vars, AddAssessmentTeam, AddRule, AddPanel, SubmitComplaint, ReserveAssessment,
         ReleaseAssessment, AcceptComplaint, ApplyRule, PublishRectification,
         VerifyRectification, EnrollAssessor, ResubmitComplaint, CloseComplaint
<1>3. ASSUME NEW id \in ZoneIDs, NEW d \in Districts, NEW k \in VenueKinds, NEW n \in Capacities,
             NEW o \in Openings, NEW b \in BOOLEAN, AddZone(id, d, k, n, o, b)
      PROVE  DOMAIN zones \subseteq DOMAIN zones' /\ \A z \in DOMAIN zones : zones'[z] = zones[z]
  BY <1>3 DEF AddZone, Put
<1>4. /\ DOMAIN zones \subseteq DOMAIN zones'
      /\ \A z \in DOMAIN zones : /\ zones'[z].active = zones[z].active
                                 /\ zones'[z].district = zones[z].district
                                 /\ zones'[z].kind = zones[z].kind
                                 /\ zones[z].holders \subseteq zones'[z].holders
  BY <1>2, <1>3, Assigned
<1>5. \/ rules' = rules
      \/ \E id \in RuleIDs, ks \in RuleKinds, n \in Capacities, o \in Openings,
            from, to \in Times : AddRule(id, ks, n, o, from, to)
      \/ \E id \in ComplaintIDs, r \in RuleIDs, at \in Times : ApplyRule(id, r, at)
  BY DEF Next, vars, AddAssessmentTeam, AddZone, AddPanel, SubmitComplaint, ReserveAssessment,
         ReleaseAssessment, AcceptComplaint, AssignZone, PublishRectification,
         VerifyRectification, EnrollAssessor, ResubmitComplaint, CloseComplaint
<1>6. ASSUME NEW id \in RuleIDs, NEW ks \in RuleKinds, NEW n \in Capacities, NEW o \in Openings,
             NEW from \in Times, NEW to \in Times, AddRule(id, ks, n, o, from, to)
      PROVE  DOMAIN rules \subseteq DOMAIN rules' /\ \A r \in DOMAIN rules : rules'[r] = rules[r]
  BY <1>6 DEF AddRule, Put
<1>7. /\ DOMAIN rules \subseteq DOMAIN rules'
      /\ \A r \in DOMAIN rules : rules[r].holders \subseteq rules'[r].holders
  BY <1>5, <1>6, Applied
<1> QED BY <1>1, <1>4, <1>7

\* The counters of the zones.
LEMMA ZonesHeld ==
  ASSUME TypeOK, \A z \in DOMAIN zones : ZoneHeld(zones[z]), [Next]_vars
  PROVE  \A z \in DOMAIN zones' : ZoneHeld(zones'[z])
<1>1. CASE zones' = zones
  BY <1>1
<1>2. ASSUME NEW id \in ZoneIDs, NEW d \in Districts, NEW k \in VenueKinds, NEW n \in Capacities,
             NEW o \in Openings, NEW b \in BOOLEAN, AddZone(id, d, k, n, o, b)
      PROVE  \A z \in DOMAIN zones' : ZoneHeld(zones'[z])
  <2> DEFINE new == [district |-> d, kind |-> k, capacity |-> n, allocated |-> o, active |-> b,
                     opening |-> o, holders |-> {}]
  <2>1. new.holders = {} /\ new.allocated = o /\ new.opening = o /\ o \in Int
    BY HubAssumption
  <2>2. zones' = Put(zones, id, new)
    BY <1>2 DEF AddZone
  <2> HIDE DEF new
  <2>3. IsFiniteSet({}) /\ Cardinality({}) = 0 /\ o - o = 0
    BY <2>1, FS_EmptySet
  <2>4. ZoneHeld(new)
    BY <2>1, <2>3 DEF ZoneHeld
  <2> HIDE DEF ZoneHeld
  <2> QED BY <2>2, <2>4 DEF Put
<1>3. ASSUME NEW c \in ComplaintIDs, NEW z \in ZoneIDs, NEW n \in Counts, AssignZone(c, z, n)
      PROVE  \A y \in DOMAIN zones' : ZoneHeld(zones'[y])
  <2>1. /\ z \in DOMAIN zones /\ DOMAIN zones' = DOMAIN zones
        /\ zones'[z].allocated = zones[z].allocated + n
        /\ zones'[z].holders = zones[z].holders \cup {c}
        /\ zones'[z].capacity = zones[z].capacity /\ zones'[z].opening = zones[z].opening
        /\ \A y \in DOMAIN zones \ {z} : zones'[y] = zones[y]
    BY <1>3, Assigned
  <2>2. /\ zones[z].allocated \in Int /\ zones[z].opening \in Int /\ zones[z].capacity \in Int
        /\ n \in Nat /\ n >= 1
    <3>1. zones[z] \in ZoneRecord
      BY <2>1, Records
    <3>2. zones[z].allocated \in Int /\ zones[z].opening \in Openings
          /\ zones[z].capacity \in Capacities
      BY <3>1 DEF ZoneRecord
    <3> QED BY <3>2, Numbers
  <2>3. zones[z].capacity - zones[z].allocated >= n
    BY <1>3 DEF AssignZone
  <2>4. zones'[z].allocated <= zones'[z].capacity
    BY <2>1, <2>2, <2>3
  <2>5. IsFiniteSet(zones[z].holders)
        /\ Cardinality(zones[z].holders) <= zones[z].allocated - zones[z].opening
    BY <2>1 DEF ZoneHeld
  <2>6. IsFiniteSet(zones'[z].holders)
        /\ Cardinality(zones'[z].holders) <= zones'[z].allocated - zones'[z].opening
    <3>a. PICK H : H = zones[z].holders
      OBVIOUS
    <3>b. PICK a \in Int : a = zones[z].allocated
      BY <2>2
    <3>c. PICK o \in Int : o = zones[z].opening
      BY <2>2
    <3>1. H = zones[z].holders /\ a = zones[z].allocated /\ o = zones[z].opening
      BY <3>a, <3>b, <3>c
    <3>2. IsFiniteSet(H \cup {c}) /\ Cardinality(H \cup {c}) <= (a + n) - o
      BY <2>2, <2>5, <3>1, OneHolderMore
    <3> QED BY <2>1, <3>1, <3>2
  <2>7. ZoneHeld(zones'[z])
    BY <2>4, <2>6 DEF ZoneHeld
  <2> HIDE DEF ZoneHeld
  <2> QED BY <2>1, <2>7
<1>4. \/ zones' = zones
      \/ \E id \in ZoneIDs, d \in Districts, k \in VenueKinds, n \in Capacities,
            o \in Openings, b \in BOOLEAN : AddZone(id, d, k, n, o, b)
      \/ \E id \in ComplaintIDs, z \in ZoneIDs, n \in Counts : AssignZone(id, z, n)
  BY DEF Next, vars, AddAssessmentTeam, AddRule, AddPanel, SubmitComplaint, ReserveAssessment,
         ReleaseAssessment, AcceptComplaint, ApplyRule, PublishRectification,
         VerifyRectification, EnrollAssessor, ResubmitComplaint, CloseComplaint
<1> QED BY <1>1, <1>2, <1>3, <1>4

\* The counters of the rules.
LEMMA RulesHeld ==
  ASSUME TypeOK, \A r \in DOMAIN rules : RuleHeld(rules[r]), [Next]_vars
  PROVE  \A r \in DOMAIN rules' : RuleHeld(rules'[r])
<1>1. CASE rules' = rules
  BY <1>1
<1>2. ASSUME NEW id \in RuleIDs, NEW ks \in RuleKinds, NEW n \in Capacities, NEW o \in Openings,
             NEW from \in Times, NEW to \in Times, AddRule(id, ks, n, o, from, to)
      PROVE  \A r \in DOMAIN rules' : RuleHeld(rules'[r])
  <2> DEFINE new == [kinds |-> ks, capacity |-> n, used |-> o, from |-> from, to |-> to,
                     opening |-> o, holders |-> {}]
  <2>1. new.holders = {} /\ new.used = o /\ new.opening = o /\ o \in Int
    BY HubAssumption
  <2>2. rules' = Put(rules, id, new)
    BY <1>2 DEF AddRule
  <2> HIDE DEF new
  <2>3. IsFiniteSet({}) /\ Cardinality({}) = 0 /\ o - o = 0
    BY <2>1, FS_EmptySet
  <2>4. RuleHeld(new)
    BY <2>1, <2>3 DEF RuleHeld
  <2> HIDE DEF RuleHeld
  <2> QED BY <2>2, <2>4 DEF Put
<1>3. ASSUME NEW c \in ComplaintIDs, NEW r \in RuleIDs, NEW at \in Times, ApplyRule(c, r, at)
      PROVE  \A y \in DOMAIN rules' : RuleHeld(rules'[y])
  <2>1. /\ r \in DOMAIN rules /\ DOMAIN rules' = DOMAIN rules
        /\ rules'[r].used = rules[r].used + 1
        /\ rules'[r].holders = rules[r].holders \cup {c}
        /\ rules'[r].capacity = rules[r].capacity /\ rules'[r].opening = rules[r].opening
        /\ \A y \in DOMAIN rules \ {r} : rules'[y] = rules[y]
    BY <1>3, Applied
  <2>2. rules[r].used \in Int /\ rules[r].opening \in Int /\ rules[r].capacity \in Int
    <3>1. rules[r] \in RuleRecord
      BY <2>1, Records
    <3>2. rules[r].used \in Int /\ rules[r].opening \in Openings /\ rules[r].capacity \in Capacities
      BY <3>1 DEF RuleRecord
    <3> QED BY <3>2, Numbers
  <2>3. rules[r].used < rules[r].capacity
    BY <1>3 DEF ApplyRule, ruleAvailable
  <2>4. rules'[r].used <= rules'[r].capacity
    BY <2>1, <2>2, <2>3
  <2>5. IsFiniteSet(rules[r].holders)
        /\ Cardinality(rules[r].holders) <= rules[r].used - rules[r].opening
    BY <2>1 DEF RuleHeld
  <2>6. IsFiniteSet(rules'[r].holders)
        /\ Cardinality(rules'[r].holders) <= rules'[r].used - rules'[r].opening
    <3>a. PICK H : H = rules[r].holders
      OBVIOUS
    <3>b. PICK a \in Int : a = rules[r].used
      BY <2>2
    <3>c. PICK o \in Int : o = rules[r].opening
      BY <2>2
    <3>1. H = rules[r].holders /\ a = rules[r].used /\ o = rules[r].opening
      BY <3>a, <3>b, <3>c
    <3>2. PICK n \in Nat : n = 1 /\ n >= 1
      OBVIOUS
    <3>3. IsFiniteSet(H \cup {c}) /\ Cardinality(H \cup {c}) <= (a + n) - o
      BY <2>5, <3>1, <3>2, OneHolderMore
    <3> QED BY <2>1, <3>1, <3>2, <3>3
  <2>7. RuleHeld(rules'[r])
    BY <2>4, <2>6 DEF RuleHeld
  <2> HIDE DEF RuleHeld
  <2> QED BY <2>1, <2>7
<1>4. \/ rules' = rules
      \/ \E id \in RuleIDs, ks \in RuleKinds, n \in Capacities, o \in Openings,
            from, to \in Times : AddRule(id, ks, n, o, from, to)
      \/ \E id \in ComplaintIDs, r \in RuleIDs, at \in Times : ApplyRule(id, r, at)
  BY DEF Next, vars, AddAssessmentTeam, AddZone, AddPanel, SubmitComplaint, ReserveAssessment,
         ReleaseAssessment, AcceptComplaint, AssignZone, PublishRectification,
         VerifyRectification, EnrollAssessor, ResubmitComplaint, CloseComplaint
<1> QED BY <1>1, <1>2, <1>3, <1>4

\* A complaint is written by its submission, its acceptance, AssignZone and
\* ApplyRule, and by nothing else.
LEMMA Written ==
  ASSUME TypeOK, Stages, [Next]_vars
  PROVE  \/ complaints' = complaints
         \/ \E id \in ComplaintIDs, d \in Districts, k \in VenueKinds, i \in Intakes :
               SubmitComplaint(id, d, k, i)
         \/ \E id \in ComplaintIDs : AcceptComplaint(id)
         \/ \E id \in ComplaintIDs, z \in ZoneIDs, n \in Counts : AssignZone(id, z, n)
         \/ \E id \in ComplaintIDs, r \in RuleIDs, at \in Times : ApplyRule(id, r, at)
<1>1. ASSUME NEW id \in ComplaintIDs, ResubmitComplaint(id) \/ CloseComplaint(id)
      PROVE  complaints' = complaints
  BY <1>1, Refused DEF vars
<1> QED BY <1>1 DEF Next, vars, AddAssessmentTeam, AddZone, AddRule, AddPanel, ReserveAssessment,
         ReleaseAssessment, PublishRectification, VerifyRectification, EnrollAssessor

LEMMA SharesStep ==
  ASSUME TypeOK, Stages, ZoneShares, RuleShares, [Next]_vars
  PROVE  ZoneShares' /\ RuleShares'
<1>a. \A c \in DOMAIN complaints : complaints[c] \in ComplaintRecord
  BY Records
<1>b. (\A z \in DOMAIN zones' : ZoneHeld(zones'[z])) /\ (\A r \in DOMAIN rules' : RuleHeld(rules'[r]))
  BY ZonesHeld, RulesHeld DEF ZoneShares, RuleShares
<1>c. ASSUME NEW c \in DOMAIN complaints, complaints'[c].zone = complaints[c].zone,
             complaints'[c].intake = complaints[c].intake
      PROVE  ZoneGiven(c)'
  BY <1>c, TablesGrow DEF ZoneShares, ZoneGiven
<1>d. ASSUME NEW c \in DOMAIN complaints, complaints'[c].rule = complaints[c].rule,
             complaints'[c].intake = complaints[c].intake
      PROVE  RuleGiven(c)'
  BY <1>d, TablesGrow DEF RuleShares, RuleGiven
<1>e. ASSUME \A c \in DOMAIN complaints' : ZoneGiven(c)' /\ RuleGiven(c)'
      PROVE  ZoneShares' /\ RuleShares'
  BY <1>b, <1>e DEF ZoneShares, RuleShares
<1>1. CASE complaints' = complaints
  BY <1>1, <1>c, <1>d, <1>e
<1>2. ASSUME NEW id \in ComplaintIDs, NEW d \in Districts, NEW k \in VenueKinds,
             NEW i \in Intakes, SubmitComplaint(id, d, k, i)
      PROVE  ZoneShares' /\ RuleShares'
  <2>1. /\ DOMAIN complaints' = DOMAIN complaints \cup {id}
        /\ complaints'[id].zone = i.zone /\ complaints'[id].rule = i.rule
        /\ complaints'[id].intake = i
        /\ \A c \in DOMAIN complaints : complaints'[c] = complaints[c]
        /\ id \notin DOMAIN complaints
    BY <1>2, SubmittedRecord
  <2>2. ZoneGiven(id)' /\ RuleGiven(id)'
    BY <2>1 DEF ZoneGiven, RuleGiven
  <2>3. \A c \in DOMAIN complaints : ZoneGiven(c)' /\ RuleGiven(c)'
    BY <2>1, <1>c, <1>d
  <2> QED BY <2>1, <2>2, <2>3, <1>e
<1>3. ASSUME NEW id \in ComplaintIDs, AcceptComplaint(id)
      PROVE  ZoneShares' /\ RuleShares'
  <2>1. /\ DOMAIN complaints' = DOMAIN complaints
        /\ \A c \in DOMAIN complaints : /\ complaints'[c].zone = complaints[c].zone
                                         /\ complaints'[c].rule = complaints[c].rule
                                         /\ complaints'[c].intake = complaints[c].intake
    BY <1>3, <1>a, Rewritten DEF AcceptComplaint
  <2> QED BY <2>1, <1>c, <1>d, <1>e
<1>4. ASSUME NEW id \in ComplaintIDs, NEW z \in ZoneIDs, NEW n \in Counts, AssignZone(id, z, n)
      PROVE  ZoneShares' /\ RuleShares'
  <2>1. /\ DOMAIN complaints' = DOMAIN complaints /\ complaints'[id].zone = z
        /\ id \in DOMAIN complaints
        /\ \A c \in DOMAIN complaints : /\ complaints'[c].rule = complaints[c].rule
                                         /\ complaints'[c].intake = complaints[c].intake
        /\ \A c \in DOMAIN complaints \ {id} : complaints'[c].zone = complaints[c].zone
    BY <1>4, <1>a, Rewritten DEF AssignZone
  <2>2. z \in DOMAIN zones' /\ id \in zones'[z].holders
    BY <1>4, Assigned
  <2>3. ZoneGiven(id)'
    BY <2>1, <2>2 DEF ZoneGiven
  <2> QED BY <2>1, <2>3, <1>c, <1>d, <1>e
<1>5. ASSUME NEW id \in ComplaintIDs, NEW r \in RuleIDs, NEW at \in Times, ApplyRule(id, r, at)
      PROVE  ZoneShares' /\ RuleShares'
  <2>1. /\ DOMAIN complaints' = DOMAIN complaints /\ complaints'[id].rule = r
        /\ id \in DOMAIN complaints
        /\ \A c \in DOMAIN complaints : /\ complaints'[c].zone = complaints[c].zone
                                         /\ complaints'[c].intake = complaints[c].intake
        /\ \A c \in DOMAIN complaints \ {id} : complaints'[c].rule = complaints[c].rule
    BY <1>5, <1>a, Rewritten DEF ApplyRule
  <2>2. r \in DOMAIN rules' /\ id \in rules'[r].holders
    BY <1>5, Applied
  <2>3. RuleGiven(id)'
    BY <2>1, <2>2 DEF RuleGiven
  <2> QED BY <2>1, <2>3, <1>c, <1>d, <1>e
<1> QED BY <1>1, <1>2, <1>3, <1>4, <1>5, Written

\* Panels: who is enrolled is new to the list and finds a seat.
LEMMA SeatsStep ==
  ASSUME TypeOK, Seats, [Next]_vars
  PROVE  Seats'
<1>1. CASE panels' = panels
  BY <1>1 DEF Seats
<1>2. ASSUME NEW id \in PanelIDs, NEW n \in Capacities, NEW o \in Rosters, AddPanel(id, n, o)
      PROVE  Seats'
  <2> DEFINE new == [capacity |-> n, assessors |-> o, opening |-> o]
  <2>1. new.assessors = o /\ new.opening = o /\ o \in Seq(AssessorIDs)
    BY HubAssumption
  <2>2. panels' = Put(panels, id, new)
    BY <1>2 DEF AddPanel
  <2> HIDE DEF new
  <2>3. Len(o) \in Nat
    BY <2>1
  <2>4. Seated(new)
    BY <2>1, <2>3 DEF Seated
  <2> HIDE DEF Seated
  <2> QED BY <2>2, <2>4 DEF Seats, Put
<1>3. ASSUME NEW id \in PanelIDs, NEW a \in AssessorIDs, EnrollAssessor(id, a)
      PROVE  Seats'
  <2>1. id \in DOMAIN panels /\ panels[id] \in PanelRecord /\ Seated(panels[id])
    BY <1>3, Records DEF EnrollAssessor, Seats
  <2>2. PICK s \in Seq(AssessorIDs) : s = panels[id].assessors
    BY <2>1 DEF PanelRecord
  <2>3. PICK o \in Seq(AssessorIDs) : o = panels[id].opening
    BY <2>1, HubAssumption DEF PanelRecord
  <2>4. /\ DOMAIN panels' = DOMAIN panels
        /\ panels'[id].assessors = Append(s, a) /\ panels'[id].opening = o
        /\ panels'[id].capacity = panels[id].capacity
        /\ \A p \in DOMAIN panels \ {id} : panels'[p] = panels[p]
    BY <1>3, <2>1, <2>2, <2>3 DEF EnrollAssessor, PanelRecord
  <2>5. /\ Len(s) \in Nat /\ Len(o) \in Nat /\ DOMAIN s = 1 .. Len(s)
        /\ Len(Append(s, a)) = Len(s) + 1 /\ Append(s, a)[Len(s) + 1] = a
        /\ \A i \in 1 .. Len(s) : Append(s, a)[i] = s[i]
    OBVIOUS
  <2>6. panels[id].capacity \in Nat
    BY <2>1, HubAssumption DEF PanelRecord
  <2>7. Len(s) + 1 <= panels[id].capacity /\ \A i \in 1 .. Len(s) : s[i] # a
    BY <1>3, <2>2, <2>5, <2>6 DEF EnrollAssessor
  <2>8. /\ Len(o) <= Len(s) /\ \A i \in 1 .. Len(o) : s[i] = o[i]
        /\ \A j \in Len(o) + 1 .. Len(s) :
             j <= panels[id].capacity /\ \A i \in 1 .. j - 1 : s[i] # s[j]
    BY <2>1, <2>2, <2>3 DEF Seated
  <2>9. \A i \in 1 .. Len(o) : Append(s, a)[i] = o[i]
    BY <2>5, <2>8
  <2>10. ASSUME NEW j \in Len(o) + 1 .. Len(s) + 1
         PROVE  /\ j <= panels[id].capacity
                /\ \A i \in 1 .. j - 1 : Append(s, a)[i] # Append(s, a)[j]
    <3>1. CASE j = Len(s) + 1
      BY <2>5, <2>7, <3>1
    <3>2. CASE j # Len(s) + 1
      <4>1. j \in Len(o) + 1 .. Len(s) /\ j \in 1 .. Len(s)
        BY <2>5, <3>2
      <4>2. \A i \in 1 .. j - 1 : i \in 1 .. Len(s)
        BY <2>5, <4>1
      <4> QED BY <2>5, <2>8, <4>1, <4>2
    <3> QED BY <3>1, <3>2
  <2>11. Len(o) <= Len(s) + 1
    BY <2>5, <2>8
  <2>12. Seated(panels'[id])
    BY <2>4, <2>5, <2>9, <2>10, <2>11 DEF Seated
  <2> HIDE DEF Seated
  <2> QED BY <2>4, <2>12 DEF Seats
<1>4. \/ panels' = panels
      \/ \E id \in PanelIDs, n \in Capacities, o \in Rosters : AddPanel(id, n, o)
      \/ \E id \in PanelIDs, a \in AssessorIDs : EnrollAssessor(id, a)
  BY DEF Next, vars, AddAssessmentTeam, AddZone, AddRule, SubmitComplaint, ReserveAssessment,
         ReleaseAssessment, AcceptComplaint, AssignZone, ApplyRule, PublishRectification,
         VerifyRectification, ResubmitComplaint, CloseComplaint
<1> QED BY <1>1, <1>2, <1>3, <1>4

\* No zone, rule or panel is oversold, whatever the counters and rosters they
\* were registered with and whatever zone and rule complaints brought along:
\* AssignZone, ApplyRule and EnrollAssessor never hand out more than there
\* is, and every complaint they served weighs on the counter for good.
THEOREM NothingOversold == Spec => []NeverOversold
<1> DEFINE J == TypeOK /\ Stages /\ ZoneShares /\ RuleShares /\ Seats
<1>1. Init => J
  BY TypeInit DEF Init, ZoneShares, RuleShares, Seats
<1>2. J /\ [Next]_vars => J'
  BY TypeStep, SharesStep, SeatsStep
<1>3. J => NeverOversold
  <2> SUFFICES ASSUME J PROVE NeverOversold
    OBVIOUS
  <2>1. ASSUME NEW z \in DOMAIN zones
        PROVE  /\ Cardinality(zones[z].holders) <= zones[z].allocated - zones[z].opening
               /\ zones[z].holders # {} => zones[z].allocated <= zones[z].capacity
               /\ \A id \in DOMAIN complaints : complaints[id].zone = z =>
                    id \in zones[z].holders \/ complaints[id].intake.zone = z
    BY DEF ZoneShares, ZoneHeld, ZoneGiven
  <2>2. ASSUME NEW r \in DOMAIN rules
        PROVE  /\ Cardinality(rules[r].holders) <= rules[r].used - rules[r].opening
               /\ rules[r].holders # {} => rules[r].used <= rules[r].capacity
               /\ \A id \in DOMAIN complaints : complaints[id].rule = r =>
                    id \in rules[r].holders \/ complaints[id].intake.rule = r
    BY DEF RuleShares, RuleHeld, RuleGiven
  <2>3. ASSUME NEW p \in DOMAIN panels PROVE Seated(panels[p])
    BY DEF Seats
  <2> HIDE DEF J
  <2> QED BY <2>1, <2>2, <2>3 DEF NeverOversold, Seated
<1> QED BY <1>1, <1>2, <1>3, PTL DEF Spec

-----------------------------------------------------------------------------
(***************************************************************************)
(* Acceptance.  What AssignZone compared stays true of the zone and of     *)
(* every complaint it gave a share, and a reservation stays on record.     *)
(***************************************************************************)
Fits(z, c) ==
  /\ c \in DOMAIN complaints
  /\ zones[z].district = complaints[c].district
  /\ normalizeVenueKind(zones[z].kind) = complaints[c].kind

Ready(c) ==
  complaints[c].status = "accepted" =>
    /\ c \in DOMAIN assessments /\ complaints[c].zone \in DOMAIN zones
    /\ zones[complaints[c].zone].active

Prepared == /\ \A z \in DOMAIN zones : \A c \in zones[z].holders : Fits(z, c)
            /\ \A c \in DOMAIN complaints : Ready(c)

\* District and venue kind of a complaint never change.
LEMMA ComplaintsStay ==
  ASSUME TypeOK, Stages, [Next]_vars
  PROVE  /\ DOMAIN complaints \subseteq DOMAIN complaints'
         /\ \A c \in DOMAIN complaints : /\ complaints'[c].district = complaints[c].district
                                         /\ complaints'[c].kind = complaints[c].kind
<1>a. \A c \in DOMAIN complaints : complaints[c] \in ComplaintRecord
  BY Records
<1>1. ASSUME NEW id \in ComplaintIDs, NEW d \in Districts, NEW k \in VenueKinds,
             NEW i \in Intakes, SubmitComplaint(id, d, k, i)
      PROVE  /\ DOMAIN complaints \subseteq DOMAIN complaints'
             /\ \A c \in DOMAIN complaints : complaints'[c] = complaints[c]
  BY <1>1, SubmittedRecord
<1>2. ASSUME NEW id \in ComplaintIDs, AcceptComplaint(id)
      PROVE  /\ DOMAIN complaints' = DOMAIN complaints
             /\ \A c \in DOMAIN complaints : /\ complaints'[c].district = complaints[c].district
                                             /\ complaints'[c].kind = complaints[c].kind
  BY <1>2, <1>a, Rewritten DEF AcceptComplaint
<1>3. ASSUME NEW id \in ComplaintIDs, NEW z \in ZoneIDs, NEW n \in Counts, AssignZone(id, z, n)
      PROVE  /\ DOMAIN complaints' = DOMAIN complaints
             /\ \A c \in DOMAIN complaints : /\ complaints'[c].district = complaints[c].district
                                             /\ complaints'[c].kind = complaints[c].kind
  BY <1>3, <1>a, Rewritten DEF AssignZone
<1>4. ASSUME NEW id \in ComplaintIDs, NEW r \in RuleIDs, NEW at \in Times, ApplyRule(id, r, at)
      PROVE  /\ DOMAIN complaints' = DOMAIN complaints
             /\ \A c \in DOMAIN complaints : /\ complaints'[c].district = complaints[c].district
                                             /\ complaints'[c].kind = complaints[c].kind
  BY <1>4, <1>a, Rewritten DEF ApplyRule
<1> QED BY <1>1, <1>2, <1>3, <1>4, Written

\* A complaint fits every zone it was ever given a share of.
LEMMA FitsStep ==
  ASSUME TypeOK, Stages, Prepared, [Next]_vars
  PROVE  \A z \in DOMAIN zones' : \A c \in zones'[z].holders : Fits(z, c)'
<1>1. ASSUME NEW z \in DOMAIN zones, NEW c \in zones[z].holders
      PROVE  z \in DOMAIN zones' /\ Fits(z, c)'
  BY ComplaintsStay, TablesGrow DEF Prepared, Fits
<1>2. ASSUME NEW id \in ZoneIDs, NEW d \in Districts, NEW k \in VenueKinds, NEW n \in Capacities,
             NEW o \in Openings, NEW b \in BOOLEAN, AddZone(id, d, k, n, o, b)
      PROVE  /\ DOMAIN zones' = DOMAIN zones \cup {id} /\ zones'[id].holders = {}
             /\ \A z \in DOMAIN zones : zones'[z] = zones[z]
  BY <1>2 DEF AddZone, Put
<1>3. ASSUME NEW id \in ComplaintIDs, NEW z \in ZoneIDs, NEW n \in Counts, AssignZone(id, z, n)
      PROVE  Fits(z, id)'
  <2>1. id \in DOMAIN complaints /\ complaints[id] \in ComplaintRecord
    BY <1>3, Records DEF AssignZone
  <2>2. complaints[id].kind \in VenueKinds /\ complaints[id].kind.tidy = TRUE
    BY <2>1, HubAssumption DEF ComplaintRecord, VenueKinds
  <2>3. normalizeVenueKind(complaints[id].kind) = complaints[id].kind
    BY <2>2, NormalForm
  <2>4. /\ z \in DOMAIN zones /\ zones[z].district = complaints[id].district
        /\ normalizeVenueKind(zones[z].kind) = complaints[id].kind
    BY <1>3, <2>3 DEF AssignZone
  <2> QED BY <2>1, <2>4, ComplaintsStay, TablesGrow DEF Fits
<1>4. ASSUME NEW id \in ComplaintIDs, NEW z \in ZoneIDs, NEW n \in Counts, AssignZone(id, z, n)
      PROVE  /\ DOMAIN zones' = DOMAIN zones /\ zones'[z].holders = zones[z].holders \cup {id}
             /\ \A y \in DOMAIN zones \ {z} : zones'[y] = zones[y]
  BY <1>4, Assigned
<1>5. \/ zones' = zones
      \/ \E id \in ZoneIDs, d \in Districts, k \in VenueKinds, n \in Capacities,
            o \in Openings, b \in BOOLEAN : AddZone(id, d, k, n, o, b)
      \/ \E id \in ComplaintIDs, z \in ZoneIDs, n \in Counts : AssignZone(id, z, n)
  BY DEF Next, vars, AddAssessmentTeam, AddRule, AddPanel, SubmitComplaint, ReserveAssessment,
         ReleaseAssessment, AcceptComplaint, ApplyRule, PublishRectification,
         VerifyRectification, EnrollAssessor, ResubmitComplaint, CloseComplaint
<1>6. CASE zones' = zones
  BY <1>1, <1>6
<1>7. CASE \E id \in ZoneIDs, d \in Districts, k \in VenueKinds, n \in Capacities,
              o \in Openings, b \in BOOLEAN : AddZone(id, d, k, n, o, b)
  BY <1>1, <1>2, <1>7
<1>8. CASE \E id \in ComplaintIDs, z \in ZoneIDs, n \in Counts : AssignZone(id, z, n)
  BY <1>1, <1>3, <1>4, <1>8
<1> QED BY <1>5, <1>6, <1>7, <1>8

LEMMA PreparedStep ==
  ASSUME TypeOK, Stages, Prepared, [Next]_vars
  PROVE  Prepared'
<1>a. \A c \in DOMAIN complaints : complaints[c] \in ComplaintRecord
  BY Records
<1>b. ASSUME NEW c \in DOMAIN complaints, complaints'[c].zone = complaints[c].zone,
             complaints'[c].status = complaints[c].status
      PROVE  Ready(c)'
  BY <1>b, TablesGrow DEF Prepared, Ready
<1>c. ASSUME \A c \in DOMAIN complaints' : Ready(c)'
      PROVE  Prepared'
  BY <1>c, FitsStep DEF Prepared
<1>1. CASE complaints' = complaints
  BY <1>1, <1>b, <1>c
<1>2. ASSUME NEW id \in ComplaintIDs, NEW d \in Districts, NEW k \in VenueKinds,
             NEW i \in Intakes, SubmitComplaint(id, d, k, i)
      PROVE  Prepared'
  <2>1. /\ DOMAIN complaints' = DOMAIN complaints \cup {id}
        /\ complaints'[id].status = "pending"
        /\ \A c \in DOMAIN complaints : complaints'[c] = complaints[c]
    BY <1>2, SubmittedRecord
  <2>2. Ready(id)'
    BY <2>1 DEF Ready
  <2> QED BY <2>1, <2>2, <1>b, <1>c
<1>3. ASSUME NEW id \in ComplaintIDs, AcceptComplaint(id)
      PROVE  Prepared'
  <2>1. /\ id \in DOMAIN complaints
        /\ DOMAIN complaints' = DOMAIN complaints
        /\ \A c \in DOMAIN complaints : complaints'[c].zone = complaints[c].zone
        /\ \A c \in DOMAIN complaints \ {id} : complaints'[c].status = complaints[c].status
    BY <1>3, <1>a, Rewritten DEF AcceptComplaint
  <2>2. /\ id \in DOMAIN assessments /\ complaints[id].zone \in DOMAIN zones
        /\ zones[complaints[id].zone].active
    BY <1>3 DEF AcceptComplaint
  <2>3. Ready(id)'
    BY <2>1, <2>2, TablesGrow DEF Ready
  <2> QED BY <2>1, <2>3, <1>b, <1>c
<1>4. ASSUME NEW id \in ComplaintIDs, NEW z \in ZoneIDs, NEW n \in Counts, AssignZone(id, z, n)
      PROVE  Prepared'
  <2>1. /\ id \in DOMAIN complaints
        /\ DOMAIN complaints' = DOMAIN complaints
        /\ complaints'[id].zone = z
        /\ complaints'[id].status = complaints[id].status
        /\ \A c \in DOMAIN complaints \ {id} : complaints'[c] = complaints[c]
    BY <1>4, <1>a, Rewritten DEF AssignZone
  <2>2. z \in DOMAIN zones /\ zones[z].active
    BY <1>4 DEF AssignZone
  <2>3. Ready(id)'
    BY <2>1, <2>2, TablesGrow DEF Prepared, Ready
  <2> QED BY <2>1, <2>3, <1>b, <1>c
<1>5. ASSUME NEW id \in ComplaintIDs, NEW r \in RuleIDs, NEW at \in Times, ApplyRule(id, r, at)
      PROVE  Prepared'
  <2>1. /\ DOMAIN complaints' = DOMAIN complaints
        /\ \A c \in DOMAIN complaints : /\ complaints'[c].zone = complaints[c].zone
                                         /\ complaints'[c].status = complaints[c].status
    BY <1>5, <1>a, Rewritten DEF ApplyRule
  <2> QED BY <2>1, <1>b, <1>c
<1> QED BY <1>1, <1>2, <1>3, <1>4, <1>5, Written

\* An accepted complaint has a reservation on record and lies in an active
\* zone, wherever AssignZone moved it before or after AcceptComplaint: one of
\* its own district and venue kind if AssignZone gave it a share there, and
\* otherwise the very zone it was submitted with.
THEOREM AcceptanceIsPrepared == Spec => []AcceptedIsPrepared
<1> DEFINE J == TypeOK /\ Stages /\ ZoneShares /\ RuleShares /\ Prepared
<1>1. Init => J
  BY TypeInit DEF Init, ZoneShares, RuleShares, Prepared
<1>2. J /\ [Next]_vars => J'
  BY TypeStep, SharesStep, PreparedStep
<1>3. J => AcceptedIsPrepared
  BY DEF AcceptedIsPrepared, ZoneShares, ZoneGiven, Prepared, Fits, Ready
<1> QED BY <1>1, <1>2, <1>3, PTL DEF Spec

-----------------------------------------------------------------------------
(***************************************************************************)
(* Sums.  MapThenSumSet takes the elements of a set in an order of its     *)
(* own; the sum does not depend on it.  Each fact is proved by looking at  *)
(* a smallest set without it.                                              *)
(***************************************************************************)
Total(table, S) == MapThenSumSet(LAMBDA id : table[id].count, S)

First(s) == CHOOSE x \in s : TRUE

\* g is the sum of every part of S.
Adds(g, table, S) ==
  g = [s \in SUBSET S |-> IF s = {} THEN 0 ELSE table[First(s)].count + g[s \ {First(s)}]]

Counted(table, S) == IsFiniteSet(S) /\ \A x \in S : table[x].count \in Nat

LEMMA LeastNumber ==
  ASSUME NEW N, N \subseteq Nat, N # {}
  PROVE  \E x \in N : \A y \in N : ~ (y < x)
<1> DEFINE R == {p \in Nat \X Nat : p[1] < p[2]}
<1>1. IsWellFoundedOn(R, Nat)
  <2>1. OpToRel(<, Nat) = R
    BY DEF OpToRel
  <2> QED BY <2>1, NatLessThanWellFounded
<1>2. PICK x \in N : \A y \in N : ~ (<<y, x>> \in R)
  <2> HIDE DEF R
  <2> QED BY <1>1, WFMin
<1>3. \A y \in N : y < x => <<y, x>> \in R
  OBVIOUS
<1> QED BY <1>2, <1>3

\* Among parts of a finite set there is a smallest.
LEMMA Smallest ==
  ASSUME NEW S, IsFiniteSet(S), NEW B, B \subseteq SUBSET S, B # {}
  PROVE  \E s \in B : \A r \in B : ~ (Cardinality(r) < Cardinality(s))
<1> DEFINE N == {Cardinality(s) : s \in B}
<1>2. ASSUME NEW s \in B PROVE Cardinality(s) \in Nat
  <2>1. s \in SUBSET S
    OBVIOUS
  <2>2. IsFiniteSet(s)
    BY <2>1, FS_Subset
  <2> QED BY <2>2, FS_CardinalityType
<1>3. N \subseteq Nat /\ N # {}
  BY <1>2
<1>4. PICK x \in N : \A y \in N : ~ (y < x)
  <2> HIDE DEF N
  <2> QED BY <1>3, LeastNumber
<1>5. PICK s \in B : x = Cardinality(s)
  BY <1>4
<1>6. ASSUME NEW r \in B, Cardinality(r) < Cardinality(s) PROVE FALSE
  <2>1. Cardinality(r) \in N
    OBVIOUS
  <2> QED BY <1>4, <1>5, <1>6, <2>1
<1> QED BY <1>6

LEMMA Removed ==
  ASSUME NEW S, IsFiniteSet(S), NEW s \in SUBSET S, NEW x \in s
  PROVE  /\ IsFiniteSet(s) /\ Cardinality(s) \in Nat /\ s \ {x} \in SUBSET S
         /\ Cardinality(s \ {x}) = Cardinality(s) - 1 /\ Cardinality(s \ {x}) < Cardinality(s)
<1>1. IsFiniteSet(s)
  BY FS_Subset
<1>2. Cardinality(s) \in Nat
  BY <1>1, FS_CardinalityType
<1>3. Cardinality(s \ {x}) = Cardinality(s) - 1
  BY <1>1, FS_RemoveElement
<1> QED BY <1>1, <1>2, <1>3

LEMMA AddsAt ==
  ASSUME NEW g, NEW table, NEW S, Adds(g, table, S), NEW s \in SUBSET S
  PROVE  /\ s = {} => g[s] = 0
         /\ s # {} => First(s) \in s /\ g[s] = table[First(s)].count + g[s \ {First(s)}]
<1>1. s # {} => First(s) \in s
  BY DEF First
<1> HIDE DEF First
<1> QED BY <1>1 DEF Adds

\* Two sums of equal counts are equal, and are numbers.
LEMMA AddsAgree ==
  ASSUME NEW g, NEW f, NEW S, Counted(f, S), Adds(g, f, S),
         NEW h, NEW k, NEW T, Adds(h, k, T),
         NEW r \in SUBSET S, r \subseteq T, \A x \in r : k[x].count = f[x].count
  PROVE  g[r] = h[r] /\ g[r] \in Nat
<1> DEFINE B == {s \in SUBSET r : ~ (g[s] = h[s] /\ g[s] \in Nat)}
<1> SUFFICES ASSUME B # {} PROVE FALSE
  OBVIOUS
<1>0. IsFiniteSet(r)
  BY FS_Subset DEF Counted
<1>1. PICK s \in B : \A q \in B : ~ (Cardinality(q) < Cardinality(s))
  <2>1. B \subseteq SUBSET r
    OBVIOUS
  <2> HIDE DEF B
  <2> QED BY <1>0, <2>1, Smallest
<1>2. s \in SUBSET r /\ s \in SUBSET S /\ s \in SUBSET T
  OBVIOUS
<1>3. CASE s = {}
  <2>1. g[s] = 0 /\ h[s] = 0
    BY <1>2, <1>3, AddsAt
  <2> QED BY <2>1
<1>4. CASE s # {}
  <2>1. PICK x : x = First(s)
    OBVIOUS
  <2>2. x \in s /\ g[s] = f[x].count + g[s \ {x}] /\ h[s] = k[x].count + h[s \ {x}]
    BY <1>2, <1>4, <2>1, AddsAt
  <2>3. s \ {x} \in SUBSET r /\ Cardinality(s \ {x}) < Cardinality(s)
    BY <1>0, <1>2, <2>2, Removed
  <2>4. s \ {x} \notin B
    BY <1>1, <2>3
  <2>5. g[s \ {x}] = h[s \ {x}] /\ g[s \ {x}] \in Nat
    BY <2>3, <2>4
  <2>6. k[x].count = f[x].count /\ f[x].count \in Nat
    BY <1>2, <2>2 DEF Counted
  <2>7. g[s] = h[s] /\ g[s] \in Nat
    BY <2>2, <2>5, <2>6
  <2> QED BY <2>7
<1> QED BY <1>3, <1>4

\* There is such a g: built for the parts of S by their size.
LEMMA AddsExists ==
  ASSUME NEW table, NEW S, Counted(table, S)
  PROVE  \E g : Adds(g, table, S)
<1> DEFINE Rule(g, s) == IF s = {} THEN 0 ELSE table[First(s)].count + g[s \ {First(s)}]
           Good(g, n) == /\ g \in [SUBSET S -> Nat]
                         /\ \A s \in SUBSET S : Cardinality(s) <= n => g[s] = Rule(g, s)
           N == {n \in Nat : ~ \E g : Good(g, n)}
<1>1. ASSUME NEW s \in SUBSET S
      PROVE  /\ Cardinality(s) \in Nat /\ (Cardinality(s) = 0 <=> s = {})
             /\ s # {} => /\ First(s) \in s /\ table[First(s)].count \in Nat
                          /\ s \ {First(s)} \in SUBSET S
                          /\ Cardinality(s \ {First(s)}) = Cardinality(s) - 1
  <2>1. IsFiniteSet(s)
    BY FS_Subset DEF Counted
  <2>2. Cardinality(s) \in Nat /\ (Cardinality(s) = 0 <=> s = {})
    BY <2>1, FS_CardinalityType, FS_EmptySet
  <2>3. s # {} => First(s) \in s
    BY DEF First
  <2>4. ASSUME s # {} PROVE Cardinality(s \ {First(s)}) = Cardinality(s) - 1
    BY <2>1, <2>3, <2>4, FS_RemoveElement
  <2> HIDE DEF First
  <2> QED BY <2>2, <2>3, <2>4 DEF Counted
<1>2. \E g : Good(g, 0)
  <2>1. PICK g : g = [s \in SUBSET S |-> 0]
    OBVIOUS
  <2>2. g \in [SUBSET S -> Nat]
    BY <2>1
  <2>3. ASSUME NEW s \in SUBSET S, Cardinality(s) <= 0 PROVE g[s] = Rule(g, s)
    <3>1. Cardinality(s) \in Nat /\ (Cardinality(s) = 0 <=> s = {})
      BY <1>1
    <3>2. s = {}
      BY <2>3, <3>1
    <3> QED BY <2>1, <3>2
  <2> QED BY <2>2, <2>3
<1>3. ASSUME NEW n \in Nat, NEW g, Good(g, n) PROVE \E h : Good(h, n + 1)
  <2>1. PICK h : h = [s \in SUBSET S |-> IF Cardinality(s) = n + 1 THEN Rule(g, s) ELSE g[s]]
    OBVIOUS
  <2> HIDE DEF First
  <2>2. ASSUME NEW s \in SUBSET S PROVE h[s] \in Nat
    <3>1. g[s] \in Nat
      BY <1>3
    <3>2. Rule(g, s) \in Nat
      <4>1. CASE s = {}
        BY <4>1
      <4>2. CASE s # {}
        <5>1. PICK a \in Nat : a = g[s \ {First(s)}]
          BY <1>1, <1>3, <4>2
        <5>2. PICK b \in Nat : b = table[First(s)].count
          BY <1>1, <4>2
        <5>3. Rule(g, s) = b + a
          BY <4>2, <5>1, <5>2
        <5> QED BY <5>3
      <4> QED BY <4>1, <4>2
    <3> QED BY <2>1, <3>1, <3>2
  <2>3. h \in [SUBSET S -> Nat]
    BY <2>1, <2>2
  <2>4. ASSUME NEW s \in SUBSET S, Cardinality(s) <= n + 1 PROVE h[s] = Rule(h, s)
    <3>1. h[s] = Rule(g, s)
      <4>1. CASE Cardinality(s) = n + 1
        BY <2>1, <4>1
      <4>2. CASE Cardinality(s) # n + 1
        <5>1. Cardinality(s) <= n
          <6>1. Cardinality(s) \in Nat
            BY <1>1
          <6> QED BY <2>4, <4>2, <6>1
        <5> QED BY <1>3, <2>1, <4>2, <5>1
      <4> QED BY <4>1, <4>2
    <3>2. Rule(g, s) = Rule(h, s)
      <4>1. CASE s = {}
        BY <4>1
      <4>2. CASE s # {}
        <5>1. PICK q \in SUBSET S : q = s \ {First(s)} /\ Cardinality(q) = Cardinality(s) - 1
          BY <1>1, <4>2
        <5>2. Cardinality(q) # n + 1
          BY <1>1, <2>4, <5>1
        <5>3. h[q] = g[q]
          BY <2>1, <5>2
        <5> QED BY <4>2, <5>1, <5>3
      <4> QED BY <4>1, <4>2
    <3> QED BY <3>1, <3>2
  <2> QED BY <2>3, <2>4
<1>4. PICK m \in Nat : m = Cardinality(S)
  BY <1>1
<1>5. \E g : Good(g, m)
  <2> SUFFICES ASSUME N # {} PROVE FALSE
    OBVIOUS
  <2>1. PICK n \in N : \A l \in N : ~ (l < n)
    <3>1. N \subseteq Nat
      OBVIOUS
    <3> HIDE DEF N
    <3> QED BY <3>1, LeastNumber
  <2> HIDE DEF Good
  <2>2. n \in Nat /\ n # 0
    BY <1>2
  <2>3. n - 1 \in Nat /\ n - 1 \notin N /\ (n - 1) + 1 = n
    BY <2>1, <2>2
  <2>4. PICK g : Good(g, n - 1)
    BY <2>3
  <2>5. PICK l \in Nat : l = n - 1
    BY <2>3
  <2>6. \E h : Good(h, l + 1)
    BY <1>3, <2>4, <2>5
  <2> QED BY <2>3, <2>5, <2>6
<1>6. PICK g : Good(g, m)
  BY <1>5
<1>7. ASSUME NEW s \in SUBSET S PROVE g[s] = Rule(g, s)
  <2>1. Cardinality(s) <= m
    BY <1>4, FS_Subset DEF Counted
  <2> QED BY <1>6, <2>1
<1>8. Adds(g, table, S)
  <2>1. g = [s \in SUBSET S |-> g[s]]
    BY <1>6
  <2> HIDE DEF First
  <2> QED BY <1>7, <2>1 DEF Adds
<1> QED BY <1>8

LEMMA TotalUnfolded ==
  ASSUME NEW table, NEW S, Counted(table, S)
  PROVE  \E g : Adds(g, table, S) /\ Total(table, S) = g[S]
<1> DEFINE g == CHOOSE f : Adds(f, table, S)
<1>1. Adds(g, table, S)
  <2>1. \E f : Adds(f, table, S)
    BY AddsExists
  <2> QED BY <2>1
<1>2. Total(table, S) = g[S]
  BY DEF Total, MapThenSumSet, MapThenFoldSet, Adds, First
<1> QED BY <1>1, <1>2

\* Sums of equal counts.
LEMMA TotalSame ==
  ASSUME NEW f, NEW k, NEW S, Counted(f, S), \A x \in S : k[x].count = f[x].count
  PROVE  Total(k, S) = Total(f, S) /\ Total(f, S) \in Nat
<1>1. Counted(k, S)
  BY DEF Counted
<1>2. PICK g : Adds(g, f, S) /\ Total(f, S) = g[S]
  BY TotalUnfolded
<1>3. PICK h : Adds(h, k, S) /\ Total(k, S) = h[S]
  BY <1>1, TotalUnfolded
<1>4. S \in SUBSET S /\ S \subseteq S
  OBVIOUS
<1>5. g[S] = h[S] /\ g[S] \in Nat
  BY <1>2, <1>3, <1>4, AddsAgree
<1> QED BY <1>2, <1>3, <1>5

LEMMA TotalEmpty ==
  ASSUME NEW table
  PROVE  Total(table, {}) = 0
<1>1. Counted(table, {})
  BY FS_EmptySet DEF Counted
<1>2. PICK g : Adds(g, table, {}) /\ Total(table, {}) = g[{}]
  BY <1>1, TotalUnfolded
<1>3. {} \in SUBSET {}
  OBVIOUS
<1> QED BY <1>2, <1>3, AddsAt

\* Any one element may be counted first.
LEMMA TotalSplit ==
  ASSUME NEW f, NEW S, Counted(f, S), NEW z \in S
  PROVE  Total(f, S) = f[z].count + Total(f, S \ {z})
<1>1. PICK g : Adds(g, f, S) /\ Total(f, S) = g[S]
  BY TotalUnfolded
<1> DEFINE B == {s \in SUBSET S : \E y \in s : g[s] # f[y].count + g[s \ {y}]}
<1>2. ASSUME B # {} PROVE FALSE
  <2>1. PICK s \in B : \A q \in B : ~ (Cardinality(q) < Cardinality(s))
    <3>1. B \subseteq SUBSET S
      OBVIOUS
    <3> HIDE DEF B
    <3> QED BY <1>2, <3>1, Smallest DEF Counted
  <2>2. s \in SUBSET S /\ s # {}
    OBVIOUS
  <2>3. PICK y \in s : g[s] # f[y].count + g[s \ {y}]
    OBVIOUS
  <2>4. PICK x : x = First(s)
    OBVIOUS
  <2>5. x \in s /\ g[s] = f[x].count + g[s \ {x}]
    BY <1>1, <2>2, <2>4, AddsAt
  <2>6. /\ s \ {x} \in SUBSET S /\ Cardinality(s \ {x}) < Cardinality(s)
        /\ s \ {y} \in SUBSET S /\ Cardinality(s \ {y}) < Cardinality(s)
    BY <2>2, <2>3, <2>5, Removed DEF Counted
  <2>7. s \ {x} \notin B /\ s \ {y} \notin B
    BY <2>1, <2>6
  <2>8. x # y
    BY <2>3, <2>5
  <2>9. /\ g[s \ {x}] = f[y].count + g[(s \ {x}) \ {y}]
        /\ g[s \ {y}] = f[x].count + g[(s \ {y}) \ {x}]
    <3>1. y \in s \ {x} /\ x \in s \ {y}
      BY <2>3, <2>5, <2>8
    <3> QED BY <2>6, <2>7, <3>1
  <2>10. PICK q \in SUBSET S : q = (s \ {x}) \ {y} /\ q = (s \ {y}) \ {x}
    BY <2>6
  <2>11. f[x].count \in Nat /\ f[y].count \in Nat
    BY <2>2, <2>3, <2>5 DEF Counted
  <2>12. g[q] \in Nat
    <3>1. q \subseteq S /\ \A a \in q : f[a].count = f[a].count
      OBVIOUS
    <3> QED BY <1>1, <3>1, AddsAgree
  <2>13. PICK a \in Nat, b \in Nat, c \in Nat : a = f[x].count /\ b = f[y].count /\ c = g[q]
    BY <2>11, <2>12
  <2>14. g[s] = a + (b + c) /\ g[s \ {y}] = a + c
    BY <2>5, <2>9, <2>10, <2>13
  <2>15. g[s] = b + g[s \ {y}]
    BY <2>14
  <2> QED BY <2>3, <2>13, <2>15
<1>3. g[S] = f[z].count + g[S \ {z}]
  <2>1. S \notin B /\ S \in SUBSET S
    BY <1>2
  <2> QED BY <2>1
<1>4. PICK T : T = S \ {z}
  OBVIOUS
<1>5. Counted(f, T)
  BY <1>4, FS_RemoveElement DEF Counted
<1>6. PICK h : Adds(h, f, T) /\ Total(f, T) = h[T]
  BY <1>5, TotalUnfolded
<1>7. g[T] = h[T]
  <2>1. T \in SUBSET S /\ T \subseteq T /\ \A a \in T : f[a].count = f[a].count
    BY <1>4
  <2> QED BY <1>1, <1>6, <2>1, AddsAgree
<1> QED BY <1>1, <1>3, <1>4, <1>6, <1>7

-----------------------------------------------------------------------------
(***************************************************************************)
(* The teams' ledgers.  A reservation names a team that exists, so that a  *)
(* team registered later starts without one.                               *)
(***************************************************************************)
LiveWith(table, t) == {id \in DOMAIN table : ~ table[id].released /\ table[id].team = t}

Balanced(team, table, t) ==
  /\ team.reserved = team.opening + Total(table, LiveWith(table, t))
  /\ LiveWith(table, t) # {} => team.reserved <= team.capacity

Books == /\ IsFiniteSet(DOMAIN assessments)
         /\ \A id \in DOMAIN assessments : assessments[id].team \in DOMAIN teams
         /\ \A t \in DOMAIN teams : Balanced(teams[t], assessments, t)

\* The live reservations of a team can be summed.
LEMMA LiveCounted ==
  ASSUME NEW table, IsFiniteSet(DOMAIN table), \A id \in DOMAIN table : table[id].count \in Nat, NEW t
  PROVE  Counted(table, LiveWith(table, t))
<1>1. LiveWith(table, t) \in SUBSET DOMAIN table
  BY DEF LiveWith
<1>2. IsFiniteSet(LiveWith(table, t))
  BY <1>1, FS_Subset
<1> QED BY <1>1, <1>2 DEF Counted

LEMMA CountsAreNumbers ==
  ASSUME TypeOK
  PROVE  \A id \in DOMAIN assessments : assessments[id].count \in Nat /\ assessments[id].team \in TeamIDs
<1>1. \A a \in [team : TeamIDs, count : Counts, released : BOOLEAN] : a.count \in Nat /\ a.team \in TeamIDs
  BY HubAssumption
<1> QED BY <1>1 DEF TypeOK

LEMMA BooksAreLedger ==
  ASSUME TypeOK, Books
  PROVE  TeamLedger
<1> SUFFICES ASSUME NEW t \in DOMAIN teams
             PROVE  LET live == {id \in DOMAIN assessments : Live(id) /\ assessments[id].team = t}
                    IN  /\ teams[t].reserved
                             = teams[t].opening + MapThenSumSet(LAMBDA id : assessments[id].count, live)
                        /\ live # {} => teams[t].reserved <= teams[t].capacity
                        /\ teams[t].opening >= 0 =>
                             \A id \in live : assessments[id].count <= teams[t].reserved
  BY DEF TeamLedger
<1>1. {id \in DOMAIN assessments : Live(id) /\ assessments[id].team = t} = LiveWith(assessments, t)
  BY DEF Live, LiveWith
<1>2. MapThenSumSet(LAMBDA id : assessments[id].count, LiveWith(assessments, t))
        = Total(assessments, LiveWith(assessments, t))
  BY DEF Total
<1>3. Balanced(teams[t], assessments, t)
  BY DEF Books
<1>4. ASSUME NEW id \in LiveWith(assessments, t), teams[t].opening >= 0
      PROVE  assessments[id].count <= teams[t].reserved
  <2>1. PICK S : S = LiveWith(assessments, t)
    OBVIOUS
  <2>2. Counted(assessments, S)
    BY <2>1, LiveCounted, CountsAreNumbers DEF Books
  <2>3. PICK R : R = S \ {id}
    OBVIOUS
  <2>4. Counted(assessments, R)
    BY <2>2, <2>3, FS_RemoveElement DEF Counted
  <2>5. Total(assessments, R) \in Nat
    BY <2>4, TotalSame
  <2>6. Total(assessments, S) = assessments[id].count + Total(assessments, R)
    BY <2>1, <2>2, <2>3, TotalSplit
  <2>7. PICK m \in Nat : m = Total(assessments, R)
    BY <2>5
  <2>8. PICK n \in Nat : n = assessments[id].count
    BY <2>1, <2>2 DEF Counted
  <2>9. PICK o \in Int : o = teams[t].opening
    BY Records, Numbers DEF TeamRecord
  <2>10. teams[t].reserved = o + (n + m) /\ o >= 0
    BY <1>3, <1>4, <2>1, <2>6, <2>7, <2>8, <2>9 DEF Balanced
  <2> QED BY <2>8, <2>10
<1> QED BY <1>1, <1>2, <1>3, <1>4 DEF Balanced

LEMMA BooksAdded ==
  ASSUME TypeOK, Books, NEW id \in TeamIDs, NEW n \in Capacities, NEW o \in Openings,
         AddAssessmentTeam(id, n, o)
  PROVE  Books'
<1> DEFINE new == [capacity |-> n, reserved |-> o, opening |-> o]
<1>0. new.reserved = o /\ new.opening = o /\ o \in Int
  BY Numbers
<1>1. id \notin DOMAIN teams /\ teams' = Put(teams, id, new) /\ assessments' = assessments
  BY DEF AddAssessmentTeam
<1> HIDE DEF new
<1>2. /\ DOMAIN teams' = DOMAIN teams \cup {id} /\ teams'[id] = new
      /\ \A t \in DOMAIN teams : teams'[t] = teams[t]
  BY <1>1 DEF Put
<1>3. LiveWith(assessments, id) = {}
  BY <1>1 DEF Books, LiveWith
<1>4. Balanced(teams'[id], assessments, id)
  <2>1. Total(assessments, LiveWith(assessments, id)) = 0 /\ o + 0 = o
    BY <1>0, <1>3, TotalEmpty
  <2> QED BY <1>0, <1>2, <1>3, <2>1 DEF Balanced
<1>5. \A t \in DOMAIN teams' : Balanced(teams'[t], assessments', t)
  BY <1>1, <1>2, <1>4 DEF Books
<1> QED BY <1>1, <1>2, <1>5 DEF Books

LEMMA BooksReserved ==
  ASSUME TypeOK, Books, NEW id \in ComplaintIDs, NEW team \in TeamIDs, NEW n \in Counts,
         ReserveAssessment(id, team, n)
  PROVE  Books'
<1>1. /\ team \in DOMAIN teams /\ ~ Live(id) /\ teams[team].capacity - teams[team].reserved >= n
      /\ teams' = [teams EXCEPT ![team].reserved = @ + n]
      /\ assessments' = Put(assessments, id, [team |-> team, count |-> n, released |-> FALSE])
  BY DEF ReserveAssessment, measurementCapacityAvailable
<1>2. PICK old : old = assessments
  OBVIOUS
<1>3. PICK new : new = assessments'
  OBVIOUS
<1>4. /\ DOMAIN new = DOMAIN old \cup {id} /\ \A c \in DOMAIN old : c # id => new[c] = old[c]
      /\ new[id] = [team |-> team, count |-> n, released |-> FALSE]
  BY <1>1, <1>2, <1>3 DEF Put
<1>5. IsFiniteSet(DOMAIN old) /\ IsFiniteSet(DOMAIN new)
  BY <1>2, <1>4, FS_AddElement DEF Books
<1>6. n \in Nat /\ new[id].team = team /\ new[id].count = n /\ new[id].released = FALSE
  BY <1>4, HubAssumption
<1>7. /\ \A c \in DOMAIN old : old[c].count \in Nat
      /\ \A c \in DOMAIN new : new[c].count \in Nat
  BY <1>2, <1>4, <1>6, CountsAreNumbers
<1>8. \A t : id \notin LiveWith(old, t)
  BY <1>1, <1>2 DEF Live, LiveWith
<1>9. ASSUME NEW t
      PROVE  /\ t # team => LiveWith(new, t) = LiveWith(old, t)
             /\ t = team => LiveWith(new, t) = LiveWith(old, t) \cup {id}
  BY <1>4, <1>6, <1>8 DEF LiveWith
<1>10. ASSUME NEW t
       PROVE  Total(new, LiveWith(old, t)) = Total(old, LiveWith(old, t))
              /\ Total(old, LiveWith(old, t)) \in Nat
  <2>1. Counted(old, LiveWith(old, t))
    BY <1>5, <1>7, LiveCounted
  <2>2. \A c \in LiveWith(old, t) : new[c].count = old[c].count
    <3>1. \A c \in LiveWith(old, t) : c \in DOMAIN old /\ c # id
      BY <1>8 DEF LiveWith
    <3> QED BY <1>4, <3>1
  <2> QED BY <2>1, <2>2, TotalSame
<1>11. Total(new, LiveWith(new, team)) = n + Total(old, LiveWith(old, team))
  <2>1. Counted(new, LiveWith(new, team))
    BY <1>5, <1>7, LiveCounted
  <2>2. id \in LiveWith(new, team) /\ LiveWith(new, team) \ {id} = LiveWith(old, team)
    BY <1>8, <1>9
  <2>3. Total(new, LiveWith(new, team)) = new[id].count + Total(new, LiveWith(new, team) \ {id})
    BY <2>1, <2>2, TotalSplit
  <2> QED BY <1>6, <1>10, <2>2, <2>3
<1>12. teams[team] \in TeamRecord
  BY <1>1, Records
<1>13. /\ DOMAIN teams' = DOMAIN teams /\ \A t \in DOMAIN teams : t # team => teams'[t] = teams[t]
       /\ teams'[team].reserved = teams[team].reserved + n
       /\ teams'[team].capacity = teams[team].capacity /\ teams'[team].opening = teams[team].opening
  BY <1>1, <1>12 DEF TeamRecord
<1>14. ASSUME NEW t \in DOMAIN teams PROVE Balanced(teams'[t], new, t)
  <2>1. Balanced(teams[t], old, t)
    BY <1>2 DEF Books
  <2>2. CASE t # team
    BY <1>9, <1>10, <1>13, <2>1, <2>2 DEF Balanced
  <2>3. CASE t = team
    <3>1. PICK r \in Int, k \in Int, o \in Int :
            r = teams[team].reserved /\ k = teams[team].capacity /\ o = teams[team].opening
      BY <1>12, Numbers DEF TeamRecord
    <3>2. PICK m \in Nat : m = Total(old, LiveWith(old, team))
      BY <1>10
    <3>3. r = o + m
      BY <2>1, <2>3, <3>1, <3>2 DEF Balanced
    <3>4. teams'[team].reserved = r + n /\ teams'[team].capacity = k /\ teams'[team].opening = o
      BY <1>13, <3>1
    <3>5. r + n <= k /\ r + n = o + (n + m)
      BY <1>1, <1>6, <3>1, <3>3
    <3>6. Total(new, LiveWith(new, team)) = n + m
      BY <1>11, <3>2
    <3> QED BY <2>3, <3>4, <3>5, <3>6 DEF Balanced
  <2> QED BY <2>2, <2>3
<1>15. \A c \in DOMAIN new : new[c].team \in DOMAIN teams
  BY <1>1, <1>2, <1>4, <1>6 DEF Books
<1> QED BY <1>3, <1>5, <1>13, <1>14, <1>15 DEF Books

LEMMA BooksReleased ==
  ASSUME TypeOK, Books, NEW id \in ComplaintIDs, ReleaseAssessment(id)
  PROVE  Books'
<1>1. PICK team : team = assessments[id].team
  OBVIOUS
<1>2. PICK n : n = assessments[id].count
  OBVIOUS
<1>3. /\ id \in DOMAIN assessments /\ ~ assessments[id].released
      /\ team \in DOMAIN teams /\ teams[team].reserved >= n
      /\ teams' = [teams EXCEPT ![team].reserved = @ - n]
      /\ assessments' = [assessments EXCEPT ![id].released = TRUE]
  BY <1>1, <1>2 DEF ReleaseAssessment, Live
<1>4. PICK old : old = assessments
  OBVIOUS
<1>5. PICK new : new = assessments'
  OBVIOUS
<1>6. /\ DOMAIN new = DOMAIN old /\ \A c \in DOMAIN old : c # id => new[c] = old[c]
      /\ new[id].released = TRUE /\ new[id].count = n /\ new[id].team = team
  <2>1. assessments[id] \in [team : TeamIDs, count : Counts, released : BOOLEAN]
    BY <1>3 DEF TypeOK
  <2> QED BY <1>1, <1>2, <1>3, <1>4, <1>5, <2>1
<1>7. IsFiniteSet(DOMAIN old)
  BY <1>4 DEF Books
<1>8. /\ \A c \in DOMAIN old : old[c].count \in Nat
      /\ \A c \in DOMAIN new : new[c].count = old[c].count
      /\ n \in Nat
  BY <1>2, <1>3, <1>4, <1>6, CountsAreNumbers
<1>9. ASSUME NEW t
      PROVE  /\ t # team => LiveWith(new, t) = LiveWith(old, t)
             /\ t = team => LiveWith(new, t) = LiveWith(old, t) \ {id}
  <2>1. old[id].team = team
    BY <1>1, <1>4
  <2> QED BY <1>6, <2>1 DEF LiveWith
<1>10. ASSUME NEW t
       PROVE  Total(new, LiveWith(new, t)) = Total(old, LiveWith(new, t))
              /\ Total(old, LiveWith(new, t)) \in Nat
  <2>1. Counted(new, LiveWith(new, t))
    BY <1>6, <1>7, <1>8, LiveCounted
  <2>2. \A c \in LiveWith(new, t) : new[c].count = old[c].count
    BY <1>6, <1>8 DEF LiveWith
  <2>3. Counted(old, LiveWith(new, t))
    BY <2>1, <2>2 DEF Counted
  <2> QED BY <2>2, <2>3, TotalSame
<1>11. Total(old, LiveWith(old, team)) = n + Total(old, LiveWith(old, team) \ {id})
  <2>1. Counted(old, LiveWith(old, team))
    BY <1>7, <1>8, LiveCounted
  <2>2. id \in LiveWith(old, team) /\ old[id].count = n
    BY <1>1, <1>2, <1>3, <1>4 DEF LiveWith
  <2> QED BY <2>1, <2>2, TotalSplit
<1>12. teams[team] \in TeamRecord
  BY <1>3, Records
<1>13. /\ DOMAIN teams' = DOMAIN teams /\ \A t \in DOMAIN teams : t # team => teams'[t] = teams[t]
       /\ teams'[team].reserved = teams[team].reserved - n
       /\ teams'[team].capacity = teams[team].capacity /\ teams'[team].opening = teams[team].opening
  BY <1>3, <1>12 DEF TeamRecord
<1>14. ASSUME NEW t \in DOMAIN teams PROVE Balanced(teams'[t], new, t)
  <2>1. Balanced(teams[t], old, t)
    BY <1>4 DEF Books
  <2>2. CASE t # team
    BY <1>9, <1>10, <1>13, <2>1, <2>2 DEF Balanced
  <2>3. CASE t = team
    <3>1. PICK r \in Int, k \in Int, o \in Int :
            r = teams[team].reserved /\ k = teams[team].capacity /\ o = teams[team].opening
      BY <1>12, Numbers DEF TeamRecord
    <3>2. PICK m \in Nat : m = Total(new, LiveWith(new, team))
      BY <1>10
    <3>6. id \in LiveWith(old, team)
      BY <1>1, <1>3, <1>4 DEF LiveWith
    <3>3. r = o + (n + m) /\ r <= k
      BY <1>9, <1>10, <1>11, <2>1, <2>3, <3>1, <3>2, <3>6 DEF Balanced
    <3>4. teams'[team].reserved = r - n /\ teams'[team].capacity = k /\ teams'[team].opening = o
      BY <1>13, <3>1
    <3>5. r - n = o + m /\ r - n <= k
      BY <1>8, <3>3
    <3> QED BY <2>3, <3>2, <3>4, <3>5 DEF Balanced
  <2> QED BY <2>2, <2>3
<1>15. \A c \in DOMAIN new : new[c].team \in DOMAIN teams
  BY <1>3, <1>4, <1>6 DEF Books
<1> QED BY <1>5, <1>6, <1>7, <1>13, <1>14, <1>15 DEF Books

LEMMA BooksStep ==
  ASSUME TypeOK, Books, [Next]_vars
  PROVE  Books'
<1>1. CASE teams' = teams /\ assessments' = assessments
  BY <1>1 DEF Books
<1>2. CASE \E id \in TeamIDs, n \in Capacities, o \in Openings : AddAssessmentTeam(id, n, o)
  BY <1>2, BooksAdded
<1>3. CASE \E id \in ComplaintIDs, t \in TeamIDs, n \in Counts : ReserveAssessment(id, t, n)
  BY <1>3, BooksReserved
<1>4. CASE \E id \in ComplaintIDs : ReleaseAssessment(id)
  BY <1>4, BooksReleased
<1> QED BY <1>1, <1>2, <1>3, <1>4
        DEF Next, vars, AddZone, AddRule, AddPanel, SubmitComplaint, AcceptComplaint, AssignZone,
            ApplyRule, PublishRectification, VerifyRectification, EnrollAssessor, ResubmitComplaint,
            CloseComplaint

\* A team's counter is what it was registered with plus the sum of the live
\* reservations made with it, for any number of teams and complaints and
\* whatever the order of ReserveAssessment and ReleaseAssessment; a team with
\* a live reservation is within its capacity; and unless it was registered
\* with a negative counter, the release never meets its underflow error.
THEOREM LedgersBalance == Spec => []TeamLedger
<1> DEFINE J == TypeOK /\ Stages /\ Books
<1>1. Init => J
  <2>1. Init => Books
    BY FS_EmptySet DEF Init, Books
  <2> QED BY <2>1, TypeInit
<1>2. J /\ [Next]_vars => J'
  BY TypeStep, BooksStep
<1>3. J => TeamLedger
  BY BooksAreLedger
<1> QED BY <1>1, <1>2, <1>3, PTL DEF Spec

=============================================================================
