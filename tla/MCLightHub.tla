----------------------------- MODULE MCLightHub -----------------------------
(***************************************************************************)
(* Values for the constants of LightHub.                                   *)
(***************************************************************************)
EXTENDS LightHub, TLC

Minutes == 0 .. 1

\* Registered below zero, unused, partly used, and beyond every capacity.
Misstated == {-1, 0, 1, 3}

\* An empty panel, and one registered with the same assessor twice.
Twice == {<<>>} \cup {<<a, a>> : a \in AssessorIDs}

\* A caller leaves the fields of a new complaint empty, or fills them in.
Filled == [zone : ZoneIDs \cup {None}, rule : RuleIDs \cup {None}]

\* A rule for the one venue kind, written untidily.
Untidy == {[word : Kinds, tidy : {FALSE}]}

(***************************************************************************)
(* Teams, zones, and rules with panels, meet in the complaints only.  The  *)
(* states that are looked at have any teams and one zone, or any zones and *)
(* one team, or rules, rectifications and panels; and of teams and zones   *)
(* one kind, and not both zones, was registered with wrong counters.       *)
(***************************************************************************)
Few(table, n) == Cardinality(DOMAIN table) <= n

Unused(table) == \A id \in DOMAIN table : table[id].opening = 0

Submitted(zs, rs) ==
  \A id \in DOMAIN complaints : complaints[id].intake \in [zone : zs, rule : rs]

NoSeats == Few(rules, 0) /\ Few(rectifications, 0) /\ Few(panels, 0)

Explored ==
  \/ NoSeats /\ Few(zones, 1) /\ Unused(zones) /\ Submitted({None}, {None})
  \/ /\ NoSeats /\ Few(teams, 1) /\ Unused(teams) /\ Submitted(ZoneIDs \cup {None}, {None})
     /\ Few(zones, 1) \/ Unused(zones)
  \/ Few(zones, 0) /\ Few(teams, 0) /\ Submitted({None}, RuleIDs \cup {None})

\* No constant names one of these ids.
Interchangeable ==
  Permutations(ComplaintIDs) \cup Permutations(TeamIDs) \cup Permutations(ZoneIDs)
    \cup Permutations(Districts)
=============================================================================
