------------------------------ MODULE Listing -------------------------------
(***************************************************************************)
(* Reading lists while others write: ListItems of internal/index in pages, *)
(* as the worker's sweep and the clients of GET /api/items walk them, and  *)
(* the export in one call.  Rows are sorted and filtered by their times as *)
(* text.  A call is a COUNT and a SELECT without a transaction around the  *)
(* two, and between calls cases are registered and change their status.    *)
(***************************************************************************)
EXTENDS Integers, Sequences, FiniteSets

CONSTANTS
    Cap,         \* the most rows ListItems returns (200)
    DefaultPage, \* the page size when none is asked for (20)
    Asked,       \* page sizes the clients ask for
    Zones,       \* zones of the server's clock and of a client's window: "Z", "+"
    ZoneShift,   \* how many seconds zone "+" is ahead of "Z"
    Windows,     \* the windows <<from, to>> of exports
    MaxRows,     \* bound on the cases registered
    MaxMoves,    \* bound on the changes a walk sees
    Instants     \* the times of registration, in quarters of a second

ASSUME PageAssumption == /\ Cap \in 1 .. 1000   \* an export asks for 1000 rows, to be cut at the cap
                         /\ DefaultPage \in 1 .. Cap /\ Asked \subseteq Int
ASSUME ZoneAssumption == Zones \subseteq {"Z", "+"} /\ ZoneShift \in Nat
ASSUME BoundAssumption == /\ MaxRows \in Nat /\ MaxMoves \in Nat /\ Instants \subseteq Nat
                          /\ Windows \subseteq Nat \X Nat

VARIABLES
    serverZone, \* the zone of the host
    newerFirst, \* the query plan puts the newer of two rows of equal text first
    rows,       \* the items table, newest last: [at, match]
    reader      \* the list being read

host == <<serverZone, newerFirst>>
vars == <<host, rows, reader>>

----------------------------------------------------------------------------
(* Times as text.  An instant is a number of quarters of a second; the     *)
(* fraction has two binary digits where the code has nine decimal ones.    *)

second(t) == t \div 4

\* RFC3339Nano drops the zeros at the end of the fraction.
fraction(t) == IF t % 4 = 0 THEN <<>> ELSE IF t % 2 = 0 THEN <<1>> ELSE <<(t % 4) \div 2, 1>>

\* The characters that decide a comparison, in the order of their codes.
Plus == 0
Dot == 1
Digit(d) == 2 + d
Zed == 4

\* Deliberate fault: whole seconds only.
formatTimeSeconds(t, zone) ==
    <<IF zone = "+" THEN second(t) + ZoneShift ELSE second(t), IF zone = "+" THEN Plus ELSE Zed>>

\* The text of an instant in a zone: the local second, a point and the
\* fraction unless that is zero, and the zone.
formatTime(t, zone) ==
    LET f == fraction(t)
    IN <<IF zone = "+" THEN second(t) + ZoneShift ELSE second(t)>>
       \o (IF f = <<>> THEN <<>> ELSE <<Dot>> \o [i \in DOMAIN f |-> Digit(f[i])])
       \o <<IF zone = "+" THEN Plus ELSE Zed>>

\* The order of texts in SQL.
TextLess(a, b) ==
    \E k \in DOMAIN a \cap DOMAIN b : a[k] < b[k] /\ \A j \in 1 .. k - 1 : a[j] = b[j]

----------------------------------------------------------------------------
(* ListItems.                                                              *)

Ids == DOMAIN rows
Text(i) == formatTime(rows[i].at, serverZone)

\* ORDER BY registered_at DESC.  SQL says nothing of equal texts: a backward
\* walk through idx_items_registered has the newer row first, a sort of the
\* rows found through idx_items_status the older one.
Before(i, j) ==
    TextLess(Text(j), Text(i)) \/ (Text(i) = Text(j) /\ (IF newerFirst THEN i > j ELSE i < j))

\* LIMIT size OFFSET offset over the rows that match.
Page(S, size, offset) ==
    {i \in S : LET rank == Cardinality({j \in S : Before(j, i)}) IN offset <= rank /\ rank < offset + size}

\* The page size ListItems works with.
pageSize(n) == IF n <= 0 THEN DefaultPage ELSE IF n > Cap THEN Cap ELSE n

\* parsePageSize of the HTTP API has the same bounds; the response says which
\* size was used.
parsePageSize(n) == IF n <= 0 THEN DefaultPage ELSE IF n > Cap THEN Cap ELSE n

\* Deliberate fault: the worker asks for more than ListItems gives.
sweepPageSizeLarger == Cap + 1

\* The page size of the worker's sweep is the 200 that ListItems caps at.
sweepPageSize == Cap

Matching == {i \in Ids : rows[i].match}

\* The rows of an export: the window is compared as text too.
InWindow(i, w, zone) ==
    /\ ~TextLess(Text(i), formatTime(w[1], zone))
    /\ ~TextLess(formatTime(w[2], zone), Text(i))
Exportable(w, zone) == {i \in Ids : InWindow(i, w, zone)}

Idle == [pc |-> "idle"]

Init == serverZone \in Zones /\ newerFirst \in BOOLEAN /\ rows = <<>> /\ reader = Idle

----------------------------------------------------------------------------
(* The writers.  A walk keeps, as history, which rows stay in its filter,  *)
(* and how many rows left it and came into it.                             *)

Walking == reader.pc = "walk"

Watch(gone, came) ==
    reader' = IF Walking
              THEN [reader EXCEPT !.stable = @ \ gone, !.left = @ + Cardinality(gone), !.came = @ + came]
              ELSE reader

\* A case is registered at any instant the clock has come to; it has the
\* status the walks ask for.
Register ==
    /\ Len(rows) < MaxRows
    /\ \E t \in Instants :
        /\ \A i \in Ids : rows[i].at <= t
        /\ rows' = Append(rows, [at |-> t, match |-> TRUE])
    /\ Watch({}, 1)
    /\ UNCHANGED host

\* A case changes its status and with it leaves the filter of the walks, or
\* comes back into it (started or returned; resubmitted).
Move(i) ==
    /\ Walking => reader.left + reader.came < MaxMoves
    /\ rows' = [rows EXCEPT ![i].match = ~@]
    /\ IF rows[i].match THEN Watch({i}, 0) ELSE Watch({}, 1)
    /\ UNCHANGED host

----------------------------------------------------------------------------
(* A walk: collectStaleItems, or a client of GET /api/items that reads on  *)
(* until a page is short.                                                  *)

StartWalk ==
    /\ reader = Idle
    /\ \E size \in {sweepPageSize} \cup {parsePageSize(n) : n \in Asked} :
        reader' = [pc |-> "walk", size |-> size, offset |-> 0,
                   seen |-> [i \in 1 .. MaxRows |-> 0],
                   stable |-> Matching, left |-> 0, came |-> 0]
    /\ UNCHANGED <<host, rows>>

\* The next page is read; a short one is the last.  Nobody who walks looks at
\* the total.
ListItems ==
    /\ reader.pc = "walk"
    /\ LET page == Page(Matching, pageSize(reader.size), reader.offset)
       IN reader' = [reader EXCEPT !.seen = [i \in 1 .. MaxRows |-> IF i \in page THEN @[i] + 1 ELSE @[i]],
                                   !.offset = @ + reader.size,
                                   !.pc = IF Cardinality(page) < reader.size THEN "walked" ELSE "walk"]
    /\ UNCHANGED <<host, rows>>

----------------------------------------------------------------------------
(* Export: one call of ListItems that asks for 1000 rows.                  *)

ExportCount ==
    /\ reader = Idle
    /\ \E w \in Windows, zone \in Zones :
        reader' = [pc |-> "export", window |-> w, zone |-> zone,
                   total |-> Cardinality(Exportable(w, zone)), known |-> Ids]
    /\ UNCHANGED <<host, rows>>

ExportSelect ==
    /\ reader.pc = "export"
    /\ reader' = [pc |-> "exported", window |-> reader.window, zone |-> reader.zone,
                  total |-> reader.total, known |-> reader.known,
                  items |-> Page(Exportable(reader.window, reader.zone), pageSize(1000), 0)]
    /\ UNCHANGED <<host, rows>>

\* The answer is written, or the sweep goes on with what it collected.
EndRead ==
    /\ reader.pc \in {"walked", "exported"}
    /\ reader' = Idle
    /\ UNCHANGED <<host, rows>>

Next ==
    \/ Register \/ \E i \in Ids : Move(i)
    \/ StartWalk \/ ListItems
    \/ ExportCount \/ ExportSelect \/ EndRead

Spec == Init /\ [][Next]_vars

----------------------------------------------------------------------------
\* A finished walk misses a case that matched all along only where another
\* case left the filter during the walk, and at most one for each that did;
\* it shows a case twice at most once for each that came into the filter.
\* Registrations alone hide nothing, and a walk nobody disturbs shows every
\* case once (collectStaleItems with its offsets, on a page size ListItems
\* does not cut).
WalkAccountsForMoves ==
    reader.pc = "walked" =>
        /\ Cardinality({i \in reader.stable : reader.seen[i] = 0}) <= reader.left
        /\ Cardinality({p \in (1 .. MaxRows) \X (2 .. MaxRows + 2) : p[2] <= reader.seen[p[1]]})
             <= reader.came

\* Two texts may disagree with their instants only within one second of the
\* zone "Z", where a whole second sorts behind its fractions, or by the
\* distance of the two zones.
Clear(t, u, zone) ==
    LET apart == IF second(t) > second(u) THEN second(t) - second(u) ELSE second(u) - second(t)
    IN IF zone = serverZone THEN serverZone = "+" \/ apart > 0 ELSE apart > ZoneShift

\* An export holds every case of its window and no other, up to the second of
\* a bound written in the server's zone "Z" and up to the zones' distance for
\* another one, unless it was cut at the cap; and fewer rows than the total it
\* reports mean that it was cut, although COUNT and SELECT see two states of
\* the table (formatTime, ListItems and the page size Export asks for).
ExportFollowsTheClock ==
    reader.pc = "exported" =>
        /\ \A i \in reader.known :
              LET w == reader.window
              IN (\A k \in 1 .. 2 : Clear(rows[i].at, w[k], reader.zone)) =>
                   /\ i \in reader.items => w[1] <= rows[i].at /\ rows[i].at <= w[2]
                   /\ w[1] <= rows[i].at /\ rows[i].at <= w[2] =>
                        i \in reader.items \/ Cardinality(reader.items) = Cap
        /\ Cardinality(reader.items) < reader.total => Cardinality(reader.items) = Cap
=============================================================================
