------------------------------ MODULE LightHub ------------------------------
(***************************************************************************)
(* The light-governance registry (internal/hub): complaints compete for    *)
(* the measurements of assessment teams, the fixtures of lighting zones,   *)
(* the applications of operating rules and the seats of assessor panels.   *)
(*                                                                         *)
(* Every operation holds the registry's write lock from its first read to  *)
(* its last write, so it is one action; the callers come in any order.  A  *)
(* refused call changes nothing and is left out, except for CloseComplaint *)
(* and ResubmitComplaint: no operation writes the status they start from,  *)
(* so they are always refused.                                             *)
(* Version fields and timestamps are written and never read here.          *)
(*                                                                         *)
(* A caller hands in the whole record: what it says of measurements        *)
(* reserved, fixtures allocated, applications used and assessors seated,   *)
(* and of a complaint's zone and rule, is stored unchecked.  The fields    *)
(* opening, intake and holders are history: what the caller handed in, and *)
(* the complaints that were ever given a share.                            *)
(***************************************************************************)
EXTENDS Integers, Sequences, FiniteSets, FiniteSetsExt

CONSTANTS
  ComplaintIDs, TeamIDs, ZoneIDs, RuleIDs, RectificationIDs, PanelIDs,
  Districts, AssessorIDs,
  Capacities,    \* capacities resources are created with
  Counts,        \* measurements or fixtures one call asks for
  Kinds,         \* venue kinds callers write
  Allowed,       \* allowedVenueKinds
  RuleKinds,     \* sets of venue kinds a rule is created for
  Times,         \* instants
  Openings,      \* counters a team, zone or rule is registered with
  Rosters,       \* AssessorIDs a panel is registered with
  Intakes,       \* LightingZoneID and OperatingRuleID a complaint is submitted with
  None           \* the empty string

\* A venue kind as written: the word, and whether it is trimmed upper case.
VenueKinds == [word : Kinds, tidy : BOOLEAN]

ASSUME HubAssumption ==
  /\ Capacities \subseteq Nat \ {0} /\ Counts \subseteq Nat \ {0}
  /\ Times \subseteq Nat
  /\ Allowed \subseteq Kinds
  /\ \A ks \in RuleKinds : ks \subseteq VenueKinds
  /\ Openings \subseteq Int /\ Rosters \subseteq Seq(AssessorIDs)
  /\ Intakes \subseteq [zone : ZoneIDs \cup {None}, rule : RuleIDs \cup {None}]
  /\ None \notin ZoneIDs \cup RuleIDs   \* AddZone and AddRule refuse an empty id

VARIABLES
  complaints,      \* id -> [district, kind, status, zone, rule, attempt, intake]
  teams,           \* id -> [capacity, reserved, opening]
  assessments,     \* complaint id -> [team, count, released]
  zones,           \* id -> [district, kind, capacity, allocated, active, opening, holders]
  rules,           \* id -> [kinds, capacity, used, from, to, opening, holders]
  rectifications,  \* id -> [district, complaint, status]
  panels,          \* id -> [capacity, assessors, opening]
  events           \* <<entity, action>> in order

vars == <<complaints, teams, assessments, zones, rules, rectifications, panels, events>>

Put(table, id, record) ==
  [k \in DOMAIN table \cup {id} |-> IF k = id THEN record ELSE table[k]]

Statuses == {"pending", "accepted", "active", "returned", "closed", "cancelled"}

-----------------------------------------------------------------------------
(***************************************************************************)
(* light_policy.go.                                                        *)
(***************************************************************************)
\* Deliberate fault: kinds are compared and stored as written.
normalizeVenueKindAsWritten(kind) == kind

normalizeVenueKind(kind) == [kind EXCEPT !.tidy = TRUE]

\* Deliberate fault: an accepted complaint can be accepted again.
validComplaintTransitionAgain(from, to) ==
  to \in CASE from = "pending"  -> {"accepted", "returned", "cancelled"}
           [] from = "accepted" -> {"accepted", "active", "cancelled"}
           [] OTHER             -> {}

validComplaintTransition(from, to) ==
  to \in CASE from = "pending"  -> {"accepted", "returned", "cancelled"}
           [] from = "returned" -> {"pending", "cancelled"}
           [] from = "accepted" -> {"active", "cancelled"}
           [] from = "active"   -> {"closed"}
           [] OTHER             -> {}

\* Deliberate fault: the last application is given away twice.
ruleAvailableOnceMore(rule, kind, at) ==
  /\ at >= rule.from /\ at < rule.to
  /\ rule.used <= rule.capacity
  /\ normalizeVenueKind(kind) \in {normalizeVenueKind(k) : k \in rule.kinds}

ruleAvailable(rule, kind, at) ==
  /\ at >= rule.from /\ at < rule.to
  /\ rule.used < rule.capacity
  /\ normalizeVenueKind(kind) \in {normalizeVenueKind(k) : k \in rule.kinds}

measurementCapacityAvailable(team, requested) == team.capacity - team.reserved >= requested

-----------------------------------------------------------------------------
(***************************************************************************)
(* light_registry.go: the counters and rosters are the caller's.           *)
(***************************************************************************)
AddAssessmentTeam(id, capacity, reserved) ==
  /\ id \notin DOMAIN teams
  /\ teams' = Put(teams, id, [capacity |-> capacity, reserved |-> reserved, opening |-> reserved])
  /\ UNCHANGED <<complaints, assessments, zones, rules, rectifications, panels, events>>

AddZone(id, district, kind, capacity, allocated, active) ==
  /\ id \notin DOMAIN zones
  /\ zones' = Put(zones, id, [district |-> district, kind |-> kind, capacity |-> capacity,
                              allocated |-> allocated, active |-> active,
                              opening |-> allocated, holders |-> {}])
  /\ UNCHANGED <<complaints, teams, assessments, rules, rectifications, panels, events>>

AddRule(id, kinds, capacity, used, from, to) ==
  /\ id \notin DOMAIN rules
  /\ from < to
  /\ rules' = Put(rules, id, [kinds |-> kinds, capacity |-> capacity, used |-> used,
                              from |-> from, to |-> to, opening |-> used, holders |-> {}])
  /\ UNCHANGED <<complaints, teams, assessments, zones, rectifications, panels, events>>

AddPanel(id, capacity, assessors) ==
  /\ id \notin DOMAIN panels
  /\ panels' = Put(panels, id, [capacity |-> capacity, assessors |-> assessors,
                                opening |-> assessors])
  /\ UNCHANGED <<complaints, teams, assessments, zones, rules, rectifications, events>>

-----------------------------------------------------------------------------
(***************************************************************************)
(* light_service.go.                                                       *)
(***************************************************************************)
validateComplaintInput(kind) == normalizeVenueKind(kind).word \in Allowed

SubmitComplaint(id, district, kind, intake) ==
  /\ validateComplaintInput(kind)
  /\ id \notin DOMAIN complaints
  /\ complaints' = Put(complaints, id,
       [district |-> district, kind |-> normalizeVenueKind(kind), status |-> "pending",
        zone |-> intake.zone, rule |-> intake.rule, attempt |-> 1, intake |-> intake])
  /\ events' = Append(events, <<id, "complaint.submitted">>)
  /\ UNCHANGED <<teams, assessments, zones, rules, rectifications, panels>>

Live(id) == id \in DOMAIN assessments /\ ~ assessments[id].released

\* Deliberate fault: a new reservation replaces the complaint's live one.
ReserveAssessmentAgain(id, team, count) ==
  /\ id \in DOMAIN complaints /\ team \in DOMAIN teams
  /\ complaints[id].status \in {"pending", "returned"}
  /\ measurementCapacityAvailable(teams[team], count)
  /\ teams' = [teams EXCEPT ![team].reserved = @ + count]
  /\ assessments' = Put(assessments, id, [team |-> team, count |-> count, released |-> FALSE])
  /\ UNCHANGED <<complaints, zones, rules, rectifications, panels, events>>

\* A call that meets the complaint's live reservation is answered from it.
ReserveAssessment(id, team, count) ==
  /\ id \in DOMAIN complaints
  /\ team \in DOMAIN teams
  /\ complaints[id].status \in {"pending", "returned"}
  /\ measurementCapacityAvailable(teams[team], count)
  /\ ~ Live(id)
  /\ teams' = [teams EXCEPT ![team].reserved = @ + count]
  /\ assessments' = Put(assessments, id, [team |-> team, count |-> count, released |-> FALSE])
  /\ UNCHANGED <<complaints, zones, rules, rectifications, panels, events>>

ReleaseAssessment(id) ==
  /\ Live(id)
  /\ LET team == assessments[id].team
     IN  /\ team \in DOMAIN teams
         /\ teams[team].reserved >= assessments[id].count
         /\ teams' = [teams EXCEPT ![team].reserved = @ - assessments[id].count]
  /\ assessments' = [assessments EXCEPT ![id].released = TRUE]
  /\ UNCHANGED <<complaints, zones, rules, rectifications, panels, events>>

\* A reservation has to exist; whether it is released is not asked.
AcceptComplaint(id) ==
  /\ id \in DOMAIN complaints
  /\ validComplaintTransition(complaints[id].status, "accepted")
  /\ id \in DOMAIN assessments
  /\ complaints[id].zone \in DOMAIN zones
  /\ zones[complaints[id].zone].active
  /\ complaints' = [complaints EXCEPT ![id].status = "accepted"]
  /\ events' = Append(events, <<id, "complaint.accepted">>)
  /\ UNCHANGED <<teams, assessments, zones, rules, rectifications, panels>>

\* Deliberate fault: any zone with room will do.
AssignZoneAnywhere(id, zone, count) ==
  /\ id \in DOMAIN complaints /\ zone \in DOMAIN zones
  /\ zones[zone].active
  /\ zones[zone].capacity - zones[zone].allocated >= count
  /\ zones' = [zones EXCEPT ![zone].allocated = @ + count, ![zone].holders = @ \cup {id}]
  /\ complaints' = [complaints EXCEPT ![id].zone = zone]
  /\ UNCHANGED <<teams, assessments, rules, rectifications, panels, events>>

\* Deliberate fault: fixtures are counted for a complaint new to the zone only.
AssignZoneOnce(id, zone, count) ==
  /\ id \in DOMAIN complaints /\ zone \in DOMAIN zones
  /\ zones[zone].district = complaints[id].district
  /\ normalizeVenueKind(zones[zone].kind) = normalizeVenueKind(complaints[id].kind)
  /\ zones[zone].active
  /\ zones[zone].capacity - zones[zone].allocated >= count
  /\ zones' = [zones EXCEPT ![zone].holders = @ \cup {id}, ![zone].allocated =
                 IF complaints[id].zone = zone THEN @ ELSE @ + count]
  /\ complaints' = [complaints EXCEPT ![id].zone = zone]
  /\ UNCHANGED <<teams, assessments, rules, rectifications, panels, events>>

\* In any status, and without giving back what an earlier zone allocated.
AssignZone(id, zone, count) ==
  /\ id \in DOMAIN complaints
  /\ zone \in DOMAIN zones
  /\ zones[zone].district = complaints[id].district
  /\ normalizeVenueKind(zones[zone].kind) = normalizeVenueKind(complaints[id].kind)
  /\ zones[zone].active
  /\ zones[zone].capacity - zones[zone].allocated >= count
  /\ zones' = [zones EXCEPT ![zone].allocated = @ + count, ![zone].holders = @ \cup {id}]
  /\ complaints' = [complaints EXCEPT ![id].zone = zone]
  /\ UNCHANGED <<teams, assessments, rules, rectifications, panels, events>>

ApplyRule(id, rule, at) ==
  /\ id \in DOMAIN complaints
  /\ rule \in DOMAIN rules
  /\ ruleAvailable(rules[rule], complaints[id].kind, at)
  /\ rules' = [rules EXCEPT ![rule].used = @ + 1, ![rule].holders = @ \cup {id}]
  /\ complaints' = [complaints EXCEPT ![id].rule = rule]
  /\ UNCHANGED <<teams, assessments, zones, rectifications, panels, events>>

PublishRectification(id, complaint, district) ==
  /\ id \notin DOMAIN rectifications
  /\ complaint \in DOMAIN complaints
  /\ complaints[complaint].district = district
  /\ rectifications' = Put(rectifications, id,
       [district |-> district, complaint |-> complaint, status |-> "submitted"])
  /\ UNCHANGED <<complaints, teams, assessments, zones, rules, panels, events>>

VerifyRectification(id) ==
  /\ id \in DOMAIN rectifications
  /\ rectifications[id].status = "submitted"
  /\ rectifications' = [rectifications EXCEPT ![id].status = "accepted"]
  /\ UNCHANGED <<complaints, teams, assessments, zones, rules, panels, events>>

\* An assessor who is a member already stays one.
EnrollAssessor(id, assessor) ==
  /\ id \in DOMAIN panels
  /\ \A i \in DOMAIN panels[id].assessors : panels[id].assessors[i] # assessor
  /\ Len(panels[id].assessors) < panels[id].capacity
  /\ panels' = [panels EXCEPT ![id].assessors = Append(@, assessor)]
  /\ UNCHANGED <<complaints, teams, assessments, zones, rules, rectifications, events>>

ResubmitComplaint(id) ==
  /\ id \in DOMAIN complaints
  /\ complaints' = IF complaints[id].status = "returned"
                   THEN [complaints EXCEPT ![id].status = "pending", ![id].attempt = @ + 1]
                   ELSE complaints
  /\ UNCHANGED <<teams, assessments, zones, rules, rectifications, panels, events>>

CloseComplaint(id) ==
  /\ id \in DOMAIN complaints
  /\ complaints' = IF validComplaintTransition(complaints[id].status, "closed")
                   THEN [complaints EXCEPT ![id].status = "closed"]
                   ELSE complaints
  /\ UNCHANGED <<teams, assessments, zones, rules, rectifications, panels, events>>

-----------------------------------------------------------------------------
Init ==
  /\ complaints = <<>> /\ teams = <<>> /\ assessments = <<>> /\ zones = <<>>
  /\ rules = <<>> /\ rectifications = <<>> /\ panels = <<>> /\ events = <<>>

Next ==
  \/ \E id \in TeamIDs, n \in Capacities, o \in Openings : AddAssessmentTeam(id, n, o)
  \/ \E id \in ZoneIDs, d \in Districts, k \in VenueKinds, n \in Capacities,
        o \in Openings, b \in BOOLEAN : AddZone(id, d, k, n, o, b)
  \/ \E id \in RuleIDs, ks \in RuleKinds, n \in Capacities, o \in Openings,
        from, to \in Times : AddRule(id, ks, n, o, from, to)
  \/ \E id \in PanelIDs, n \in Capacities, o \in Rosters : AddPanel(id, n, o)
  \/ \E id \in ComplaintIDs, d \in Districts, k \in VenueKinds, i \in Intakes :
        SubmitComplaint(id, d, k, i)
  \/ \E id \in ComplaintIDs, t \in TeamIDs, n \in Counts : ReserveAssessment(id, t, n)
  \/ \E id \in ComplaintIDs : ReleaseAssessment(id)
  \/ \E id \in ComplaintIDs : AcceptComplaint(id)
  \/ \E id \in ComplaintIDs, z \in ZoneIDs, n \in Counts : AssignZone(id, z, n)
  \/ \E id \in ComplaintIDs, r \in RuleIDs, at \in Times : ApplyRule(id, r, at)
  \/ \E id \in RectificationIDs, c \in ComplaintIDs, d \in Districts :
        PublishRectification(id, c, d)
  \/ \E id \in RectificationIDs : VerifyRectification(id)
  \/ \E id \in PanelIDs, a \in AssessorIDs : EnrollAssessor(id, a)
  \/ \E id \in ComplaintIDs : ResubmitComplaint(id)
  \/ \E id \in ComplaintIDs : CloseComplaint(id)

Spec == Init /\ [][Next]_vars

-----------------------------------------------------------------------------
(***************************************************************************)
(* Properties.                                                             *)
(***************************************************************************)
\* The records have the shapes light_models.go gives them, and a stored
\* complaint's venue kind is an allowed one in its normal form.
TypeOK ==
  /\ \A id \in DOMAIN complaints :
       complaints[id] \in [district : Districts, kind : [word : Allowed, tidy : {TRUE}],
                           status : Statuses, zone : ZoneIDs \cup {None},
                           rule : RuleIDs \cup {None}, attempt : Nat, intake : Intakes]
  /\ \A id \in DOMAIN teams :
       teams[id] \in [capacity : Capacities, reserved : Int, opening : Openings]
  /\ \A id \in DOMAIN assessments :
       assessments[id] \in [team : TeamIDs, count : Counts, released : BOOLEAN]
  /\ \A id \in DOMAIN zones :
       zones[id] \in [district : Districts, kind : VenueKinds, capacity : Capacities,
                      allocated : Int, active : BOOLEAN,
                      opening : Openings, holders : SUBSET ComplaintIDs]
  /\ \A id \in DOMAIN rules :
       rules[id] \in [kinds : RuleKinds, capacity : Capacities, used : Int,
                      from : Times, to : Times,
                      opening : Openings, holders : SUBSET ComplaintIDs]
  /\ \A id \in DOMAIN rectifications :
       rectifications[id] \in [district : Districts, complaint : ComplaintIDs,
                               status : {"submitted", "accepted"}]
  /\ \A id \in DOMAIN panels :
       panels[id] \in [capacity : Capacities, assessors : Seq(AssessorIDs), opening : Rosters]

\* A team's ReservedMeasurements is what it was registered with plus the sum
\* of the live reservations made with it: whatever the order of reserving,
\* releasing and reserving elsewhere, nothing is counted twice or lost.  A
\* team with a live reservation is within its capacity, whatever counter it
\* was registered with; and when that counter was not negative,
\* ReleaseAssessment never meets its underflow error.
TeamLedger ==
  \A t \in DOMAIN teams :
    LET live == {id \in DOMAIN assessments : Live(id) /\ assessments[id].team = t}
    IN  /\ teams[t].reserved
             = teams[t].opening + MapThenSumSet(LAMBDA id : assessments[id].count, live)
        /\ live # {} => teams[t].reserved <= teams[t].capacity
        /\ teams[t].opening >= 0 =>
             \A id \in live : assessments[id].count <= teams[t].reserved

\* No zone, rule or panel is oversold.  The complaints that were ever given a
\* share of a zone weigh on it, also those that AssignZone moved elsewhere
\* since: they are no more than the fixtures handed out since it was
\* registered, and while there is one the zone is within its capacity.  A
\* complaint that names a zone was given a share of it or brought the name
\* with it.  The same holds of rules.  A panel keeps the assessors it was
\* registered with; each one enrolled since is new to it and found a seat.
NeverOversold ==
  /\ \A z \in DOMAIN zones :
       /\ Cardinality(zones[z].holders) <= zones[z].allocated - zones[z].opening
       /\ zones[z].holders # {} => zones[z].allocated <= zones[z].capacity
       /\ \A id \in DOMAIN complaints : complaints[id].zone = z =>
            id \in zones[z].holders \/ complaints[id].intake.zone = z
  /\ \A r \in DOMAIN rules :
       /\ Cardinality(rules[r].holders) <= rules[r].used - rules[r].opening
       /\ rules[r].holders # {} => rules[r].used <= rules[r].capacity
       /\ \A id \in DOMAIN complaints : complaints[id].rule = r =>
            id \in rules[r].holders \/ complaints[id].intake.rule = r
  /\ \A p \in DOMAIN panels :
       LET seated == panels[p].assessors   opening == panels[p].opening
       IN  /\ Len(opening) <= Len(seated)
           /\ \A i \in 1 .. Len(opening) : seated[i] = opening[i]
           /\ \A j \in Len(opening) + 1 .. Len(seated) :
                j <= panels[p].capacity /\ \A i \in 1 .. j - 1 : seated[i] # seated[j]

\* An accepted complaint has a reservation on record and lies in a registered
\* and active zone, also after AssignZone moved it.  The zone is of its own
\* district and venue kind when AssignZone gave the complaint a share of it;
\* otherwise it is the one the complaint was submitted with, which nothing
\* compares with the complaint.
AcceptedIsPrepared ==
  \A id \in DOMAIN complaints :
    complaints[id].status = "accepted" =>
      /\ id \in DOMAIN assessments
      /\ complaints[id].zone \in DOMAIN zones
      /\ LET zone == zones[complaints[id].zone]
         IN  /\ zone.active
             /\ IF id \in zone.holders
                THEN /\ zone.district = complaints[id].district
                     /\ normalizeVenueKind(zone.kind) = complaints[id].kind
                ELSE complaints[id].zone = complaints[id].intake.zone

\* The event log tells each complaint's story once: one submission for every
\* complaint there is, one acceptance exactly for the accepted ones.
EventsTellTheStory ==
  LET Logged(id, action) == Cardinality({i \in DOMAIN events : events[i] = <<id, action>>})
  IN  \A id \in ComplaintIDs :
        /\ Logged(id, "complaint.submitted") = (IF id \in DOMAIN complaints THEN 1 ELSE 0)
        /\ Logged(id, "complaint.accepted")
             = (IF id \in DOMAIN complaints /\ complaints[id].status = "accepted" THEN 1 ELSE 0)
=============================================================================
