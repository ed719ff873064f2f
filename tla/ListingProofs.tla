--------------------------- MODULE ListingProofs ----------------------------
(***************************************************************************)
(* What a walk through pages of a changing list can miss and repeat, and   *)
(* what an export can hold, for every value of the constants of Listing.   *)
(*                                                                         *)
(* The first half is about ranks: a page is a stretch of ranks in a strict *)
(* order of a finite set, and a row that comes or goes shifts the ranks    *)
(* behind it by one.  The second half finds that order behind ORDER BY     *)
(* registered_at, where times are compared as texts.                       *)
(***************************************************************************)
EXTENDS Listing, FiniteSetTheorems, SequenceTheorems, TLAPS

-----------------------------------------------------------------------------
(***************************************************************************)
(* Ranks in a strict order P on a finite set S.                            *)
(***************************************************************************)
StrictOrder(P, S) ==
  /\ \A i \in S : <<i, i>> \notin P
  /\ \A i, j, k \in S : <<i, j>> \in P /\ <<j, k>> \in P => <<i, k>> \in P
  /\ \A i, j \in S : i # j => <<i, j>> \in P \/ <<j, i>> \in P

Ahead(P, S, i) == {j \in S : <<j, i>> \in P}
Rank(P, S, i)  == Cardinality(Ahead(P, S, i))

\* The rows whose rank lies in a page.
Stretch(P, S, size, offset) ==
  {i \in S : offset <= Rank(P, S, i) /\ Rank(P, S, i) < offset + size}

LEMMA RankType ==
  ASSUME NEW P, NEW S, IsFiniteSet(S), NEW i
  PROVE  IsFiniteSet(Ahead(P, S, i)) /\ Rank(P, S, i) \in Nat
<1>1. Ahead(P, S, i) \in SUBSET S
  BY DEF Ahead
<1>2. IsFiniteSet(Ahead(P, S, i))
  BY <1>1, FS_Subset
<1> QED BY <1>2, FS_CardinalityType DEF Rank

\* Who comes first has the smaller rank.
LEMMA RankGrows ==
  ASSUME NEW P, NEW S, IsFiniteSet(S), StrictOrder(P, S), NEW i \in S, NEW j \in S,
         <<i, j>> \in P
  PROVE  Rank(P, S, i) < Rank(P, S, j)
<1>1. /\ IsFiniteSet(Ahead(P, S, i)) /\ Rank(P, S, i) \in Nat
      /\ IsFiniteSet(Ahead(P, S, j)) /\ Rank(P, S, j) \in Nat
  BY RankType
<1>2. i \notin Ahead(P, S, i)
  BY DEF Ahead, StrictOrder
<1>3. Ahead(P, S, i) \cup {i} \in SUBSET Ahead(P, S, j)
  BY DEF Ahead, StrictOrder
<1>4. Cardinality(Ahead(P, S, i) \cup {i}) = Rank(P, S, i) + 1
  BY <1>1, <1>2, FS_AddElement DEF Rank
<1>5. Cardinality(Ahead(P, S, i) \cup {i}) <= Rank(P, S, j)
  BY <1>1, <1>3, FS_Subset DEF Rank
<1> QED BY <1>1, <1>4, <1>5

LEMMA RankInjective ==
  ASSUME NEW P, NEW S, IsFiniteSet(S), StrictOrder(P, S), NEW i \in S, NEW j \in S,
         Rank(P, S, i) = Rank(P, S, j)
  PROVE  i = j
<1>1. Rank(P, S, i) \in Nat /\ Rank(P, S, j) \in Nat
  BY RankType
<1>2. ASSUME <<i, j>> \in P PROVE FALSE
  <2>1. Rank(P, S, i) < Rank(P, S, j)
    BY <1>2, RankGrows
  <2> QED BY <1>1, <2>1
<1>3. ASSUME <<j, i>> \in P PROVE FALSE
  <2>1. Rank(P, S, j) < Rank(P, S, i)
    BY <1>3, RankGrows
  <2> QED BY <1>1, <2>1
<1> QED BY <1>2, <1>3 DEF StrictOrder

LEMMA RankBelowSize ==
  ASSUME NEW P, NEW S, IsFiniteSet(S), StrictOrder(P, S), NEW i \in S
  PROVE  Rank(P, S, i) < Cardinality(S)
<1>1. Ahead(P, S, i) \in SUBSET (S \ {i})
  BY DEF Ahead, StrictOrder
<1>2. IsFiniteSet(S \ {i}) /\ Cardinality(S \ {i}) = Cardinality(S) - 1
  BY FS_RemoveElement
<1>3. Cardinality(Ahead(P, S, i)) <= Cardinality(S \ {i})
  BY <1>1, <1>2, FS_Subset
<1>4. Cardinality(S) \in Nat /\ Rank(P, S, i) \in Nat
  BY FS_CardinalityType, RankType
<1> QED BY <1>2, <1>3, <1>4 DEF Rank

\* Every number below the size of the set is a rank.
LEMMA RankReached ==
  ASSUME NEW P, NEW S, IsFiniteSet(S), StrictOrder(P, S),
         NEW k \in Nat, k < Cardinality(S)
  PROVE  \E i \in S : Rank(P, S, i) = k
<1> SUFFICES ASSUME \A i \in S : Rank(P, S, i) # k PROVE FALSE
  OBVIOUS
<1>1. PICK n \in Nat : n = Cardinality(S)
  BY FS_CardinalityType
<1> DEFINE T == (0 .. n - 1) \ {k}
           f == [i \in S |-> Rank(P, S, i)]
<1>2. IsFiniteSet(0 .. n - 1) /\ Cardinality(0 .. n - 1) = n
  <2>1. n - 1 \in Int /\ 0 <= n - 1
    BY <1>1
  <2> QED BY <2>1, FS_Interval
<1>3. IsFiniteSet(T) /\ Cardinality(T) = n - 1
  <2>1. k \in 0 .. n - 1
    BY <1>1
  <2> QED BY <1>2, <2>1, FS_RemoveElement
<1>4. ASSUME NEW i \in S PROVE Rank(P, S, i) \in T
  <2>1. Rank(P, S, i) \in Nat /\ Rank(P, S, i) < n
    BY <1>1, RankType, RankBelowSize
  <2> QED BY <2>1
<1>5. f \in [S -> T]
  BY <1>4
<1>6. \A i, j \in S : f[i] = f[j] => i = j
  BY RankInjective
<1> HIDE DEF f, T
<1>7. Cardinality(T) < Cardinality(S)
  BY <1>1, <1>3
<1>8. \E i, j \in S : i # j /\ f[i] = f[j]
  BY <1>3, <1>5, <1>7, FS_PigeonHole
<1> QED BY <1>6, <1>8

\* A page with a row behind it is full, and no page is more than full.
LEMMA StretchSize ==
  ASSUME NEW P, NEW S, IsFiniteSet(S), StrictOrder(P, S), NEW size \in Nat, NEW offset \in Nat
  PROVE  /\ IsFiniteSet(Stretch(P, S, size, offset))
         /\ Cardinality(Stretch(P, S, size, offset)) \in Nat
         /\ offset + size <= Cardinality(S) => Cardinality(Stretch(P, S, size, offset)) = size
<1> DEFINE page == Stretch(P, S, size, offset)
           T == offset .. offset + size - 1
           f == [i \in page |-> Rank(P, S, i)]
<1>1. page \in SUBSET S
  BY DEF Stretch
<1>2. IsFiniteSet(page) /\ Cardinality(page) \in Nat
  <2>1. IsFiniteSet(page)
    BY <1>1, FS_Subset
  <2> QED BY <2>1, FS_CardinalityType
<1>3. ASSUME offset + size <= Cardinality(S)
      PROVE  Cardinality(page) = size
  <2>1. \A i \in page : Rank(P, S, i) \in T
    <3>1. \A i \in page : Rank(P, S, i) \in Nat
      BY RankType
    <3> QED BY <3>1 DEF Stretch
  <2>2. f \in [page -> T]
    BY <2>1
  <2>3. \A i, j \in page : f[i] = f[j] => i = j
    BY <1>1, RankInjective
  <2>4. ASSUME NEW k \in T PROVE \E i \in page : f[i] = k
    <3>1. k \in Nat /\ k < Cardinality(S) /\ offset <= k /\ k < offset + size
      <4>1. Cardinality(S) \in Nat
        BY FS_CardinalityType
      <4> QED BY <1>3, <4>1
    <3>2. PICK i \in S : Rank(P, S, i) = k
      BY <3>1, RankReached
    <3>3. i \in page
      BY <3>1, <3>2 DEF Stretch
    <3> QED BY <3>2, <3>3
  <2> HIDE DEF f, page
  <2>5. f \in Surjection(page, T) /\ f \in Injection(page, T)
    BY <2>2, <2>3, <2>4 DEF Surjection, Injection, IsInjective
  <2>6. Cardinality(T) = Cardinality(page)
    <3> HIDE DEF T
    <3> QED BY <1>2, <2>5, FS_Surjection
  <2>7. Cardinality(T) = size
    <3>1. offset \in Int /\ offset + size - 1 \in Int
      OBVIOUS
    <3>2. Cardinality(T) = IF offset > offset + size - 1 THEN 0 ELSE (offset + size - 1) - offset + 1
      BY <3>1, FS_Interval
    <3> QED BY <3>2
  <2> QED BY <2>6, <2>7
<1> QED BY <1>2, <1>3

\* The first page holds the whole set, or as much as it can.
LEMMA FirstPage ==
  ASSUME NEW P, NEW S, IsFiniteSet(S), StrictOrder(P, S), NEW size \in Nat
  PROVE  \/ Stretch(P, S, size, 0) = S
         \/ Cardinality(Stretch(P, S, size, 0)) = size /\ size < Cardinality(S)
<1>1. Cardinality(S) \in Nat
  BY FS_CardinalityType
<1>2. CASE Cardinality(S) <= size
  <2>1. ASSUME NEW i \in S PROVE 0 <= Rank(P, S, i) /\ Rank(P, S, i) < 0 + size
    <3>1. Rank(P, S, i) \in Nat /\ Rank(P, S, i) < Cardinality(S)
      BY RankType, RankBelowSize
    <3> QED BY <1>1, <1>2, <3>1
  <2> QED BY <2>1 DEF Stretch
<1>3. CASE size < Cardinality(S)
  <2>1. 0 + size <= Cardinality(S) /\ 0 \in Nat
    BY <1>1, <1>3
  <2> QED BY <1>3, <2>1, StretchSize
<1> QED BY <1>1, <1>2, <1>3

\* A new row shifts those behind it, in an order that keeps the old one.
LEMMA RankInsert ==
  ASSUME NEW P, NEW Q, NEW S, IsFiniteSet(S), NEW x, x \notin S, NEW i \in S,
         \A j \in S : <<j, i>> \in Q <=> <<j, i>> \in P
  PROVE  /\ <<x, i>> \in Q => Rank(Q, S \cup {x}, i) = Rank(P, S, i) + 1
         /\ <<x, i>> \notin Q => Rank(Q, S \cup {x}, i) = Rank(P, S, i)
<1>1. IsFiniteSet(Ahead(P, S, i)) /\ Rank(P, S, i) \in Nat /\ x \notin Ahead(P, S, i)
  BY RankType DEF Ahead
<1>2. CASE <<x, i>> \in Q
  <2>1. Ahead(Q, S \cup {x}, i) = Ahead(P, S, i) \cup {x}
    BY <1>2 DEF Ahead
  <2>2. Cardinality(Ahead(P, S, i) \cup {x}) = Cardinality(Ahead(P, S, i)) + 1
    BY <1>1, FS_AddElement
  <2> QED BY <1>2, <2>1, <2>2 DEF Rank
<1>3. CASE <<x, i>> \notin Q
  <2>1. Ahead(Q, S \cup {x}, i) = Ahead(P, S, i)
    BY <1>3 DEF Ahead
  <2> QED BY <1>1, <1>3, <2>1 DEF Rank
<1> QED BY <1>2, <1>3

-----------------------------------------------------------------------------
(***************************************************************************)
(* The account of a walk.  Missed are the rows that matched all along, are *)
(* unseen and lie before the offset: no later page will show them.  Due    *)
(* are the rows that were seen and lie behind the offset: a later page     *)
(* will show them again.  Repeats are the repetitions so far.              *)
(***************************************************************************)
Missed(P, S, stable, seen, offset) ==
  {i \in stable : seen[i] = 0 /\ Rank(P, S, i) < offset}

Due(P, S, seen, offset) == {i \in S : seen[i] > 0 /\ offset <= Rank(P, S, i)}

Repeats(seen) == {p \in (1 .. MaxRows) \X (2 .. MaxRows + 2) : p[2] <= seen[p[1]]}

LEMMA SizeGrowsByOne ==
  ASSUME NEW A, NEW B, IsFiniteSet(B), NEW j, A \subseteq B \cup {j}
  PROVE  /\ IsFiniteSet(A) /\ Cardinality(A) \in Nat /\ Cardinality(B) \in Nat
         /\ Cardinality(A) <= Cardinality(B) + 1
<1>1. IsFiniteSet(B \cup {j}) /\ Cardinality(B \cup {j}) <= Cardinality(B) + 1
  <2>1. Cardinality(B) \in Nat
    BY FS_CardinalityType
  <2> QED BY <2>1, FS_AddElement
<1>2. A \in SUBSET (B \cup {j})
  OBVIOUS
<1>3. IsFiniteSet(A) /\ Cardinality(A) <= Cardinality(B \cup {j})
  BY <1>1, <1>2, FS_Subset
<1>4. Cardinality(A) \in Nat /\ Cardinality(B) \in Nat /\ Cardinality(B \cup {j}) \in Nat
  BY <1>1, <1>3, FS_CardinalityType
<1> QED BY <1>1, <1>3, <1>4

LEMMA SizeOfPart ==
  ASSUME NEW A, NEW B, IsFiniteSet(B), A \subseteq B
  PROVE  /\ IsFiniteSet(A) /\ Cardinality(A) \in Nat /\ Cardinality(B) \in Nat
         /\ Cardinality(A) <= Cardinality(B)
<1>1. A \in SUBSET B
  OBVIOUS
<1>2. IsFiniteSet(A) /\ Cardinality(A) <= Cardinality(B)
  BY <1>1, FS_Subset
<1> QED BY <1>2, FS_CardinalityType

LEMMA AccountIsFinite ==
  ASSUME NEW P, NEW S, IsFiniteSet(S), NEW stable \in SUBSET S, NEW seen, NEW offset
  PROVE  /\ IsFiniteSet(Missed(P, S, stable, seen, offset))
         /\ Cardinality(Missed(P, S, stable, seen, offset)) \in Nat
         /\ IsFiniteSet(Due(P, S, seen, offset)) /\ Cardinality(Due(P, S, seen, offset)) \in Nat
<1>1. Missed(P, S, stable, seen, offset) \subseteq S /\ Due(P, S, seen, offset) \subseteq S
  BY DEF Missed, Due
<1> QED BY <1>1, SizeOfPart

\* A row that leaves the filter makes at most one other be missed, the one
\* that moves up over the offset, and none be repeated.
LEMMA RowLeaves ==
  ASSUME NEW P, NEW S, IsFiniteSet(S), StrictOrder(P, S), NEW x \in S,
         NEW stable \in SUBSET S, NEW seen, NEW offset \in Nat
  PROVE  /\ Cardinality(Missed(P, S \ {x}, stable \ {x}, seen, offset))
              <= Cardinality(Missed(P, S, stable, seen, offset)) + 1
         /\ Cardinality(Due(P, S \ {x}, seen, offset)) <= Cardinality(Due(P, S, seen, offset))
<1>1. IsFiniteSet(S \ {x}) /\ x \notin S \ {x} /\ (S \ {x}) \cup {x} = S
  BY FS_RemoveElement
<1>2. ASSUME NEW i \in S \ {x}
      PROVE  /\ \/ Rank(P, S, i) = Rank(P, S \ {x}, i)
                \/ Rank(P, S, i) = Rank(P, S \ {x}, i) + 1
             /\ Rank(P, S, i) \in Nat /\ Rank(P, S \ {x}, i) \in Nat
  <2>1. PICK T : T = S \ {x}
    OBVIOUS
  <2>2. Rank(P, T \cup {x}, i) = Rank(P, T, i) \/ Rank(P, T \cup {x}, i) = Rank(P, T, i) + 1
    <3>1. IsFiniteSet(T) /\ x \notin T /\ i \in T
      BY <1>1, <2>1
    <3>2. /\ <<x, i>> \in P => Rank(P, T \cup {x}, i) = Rank(P, T, i) + 1
          /\ <<x, i>> \notin P => Rank(P, T \cup {x}, i) = Rank(P, T, i)
      BY <3>1, RankInsert
    <3> QED BY <3>2
  <2>3. Rank(P, S, i) \in Nat /\ Rank(P, T, i) \in Nat
    BY <1>1, <2>1, RankType
  <2> QED BY <1>1, <2>1, <2>2, <2>3
<1>3. \E j : Missed(P, S \ {x}, stable \ {x}, seen, offset)
               \subseteq Missed(P, S, stable, seen, offset) \cup {j}
  <2>1. ASSUME NEW i \in Missed(P, S \ {x}, stable \ {x}, seen, offset),
               i \notin Missed(P, S, stable, seen, offset)
        PROVE  i \in S /\ Rank(P, S, i) = offset
    <3>1. /\ i \in S \ {x} /\ i \in stable /\ seen[i] = 0 /\ Rank(P, S \ {x}, i) < offset
          /\ ~ (Rank(P, S, i) < offset)
      BY <2>1 DEF Missed
    <3> QED BY <1>2, <3>1
  <2>2. CASE \E j \in S : Rank(P, S, j) = offset
    <3>1. PICK j \in S : Rank(P, S, j) = offset
      BY <2>2
    <3>2. \A i \in S : Rank(P, S, i) = offset => i = j
      BY <3>1, RankInjective
    <3> QED BY <2>1, <3>2
  <2>3. CASE ~ \E j \in S : Rank(P, S, j) = offset
    BY <2>1, <2>3
  <2> QED BY <2>2, <2>3
<1>4. Due(P, S \ {x}, seen, offset) \subseteq Due(P, S, seen, offset)
  <2> SUFFICES ASSUME NEW i \in S \ {x}, seen[i] > 0, offset <= Rank(P, S \ {x}, i)
               PROVE  offset <= Rank(P, S, i)
    BY DEF Due
  <2> QED BY <1>2
<1>5. /\ IsFiniteSet(Missed(P, S, stable, seen, offset))
      /\ IsFiniteSet(Due(P, S, seen, offset))
  BY AccountIsFinite
<1> QED BY <1>3, <1>4, <1>5, SizeGrowsByOne, SizeOfPart

\* A row that comes into the filter makes at most one be repeated, itself or
\* the one it moves down over the offset, and none be missed.
LEMMA RowComes ==
  ASSUME NEW P, NEW Q, NEW S, IsFiniteSet(S), NEW x, x \notin S,
         StrictOrder(P, S), StrictOrder(Q, S \cup {x}),
         \A i, j \in S : <<j, i>> \in Q <=> <<j, i>> \in P,
         NEW stable \in SUBSET S, NEW seen, NEW offset \in Nat
  PROVE  /\ Cardinality(Missed(Q, S \cup {x}, stable, seen, offset))
              <= Cardinality(Missed(P, S, stable, seen, offset))
         /\ Cardinality(Due(Q, S \cup {x}, seen, offset)) <= Cardinality(Due(P, S, seen, offset)) + 1
<1> DEFINE T == S \cup {x}
<1>1. IsFiniteSet(T) /\ x \in T
  BY FS_AddElement
<1>2. ASSUME NEW i \in S
      PROVE  /\ <<x, i>> \in Q => Rank(Q, T, i) = Rank(P, S, i) + 1
             /\ <<x, i>> \notin Q => Rank(Q, T, i) = Rank(P, S, i)
             /\ Rank(P, S, i) \in Nat /\ Rank(Q, T, i) \in Nat
  BY <1>1, RankInsert, RankType
<1>3. Rank(Q, T, x) \in Nat
  BY <1>1, RankType
<1>4. \A i \in S : <<x, i>> \in Q => Rank(Q, T, x) < Rank(Q, T, i)
  BY <1>1, RankGrows
<1>5. T = S \cup {x}
  OBVIOUS
<1> HIDE DEF T
<1>6. Missed(Q, T, stable, seen, offset) \subseteq Missed(P, S, stable, seen, offset)
  <2> SUFFICES ASSUME NEW i \in stable, Rank(Q, T, i) < offset
               PROVE  Rank(P, S, i) < offset
    BY DEF Missed
  <2>1. Rank(P, S, i) \in Nat /\ Rank(Q, T, i) \in Nat
    BY <1>2
  <2>2. Rank(Q, T, i) = Rank(P, S, i) \/ Rank(Q, T, i) = Rank(P, S, i) + 1
    BY <1>2
  <2> QED BY <2>1, <2>2
<1>7. \E j : Due(Q, T, seen, offset) \subseteq Due(P, S, seen, offset) \cup {j}
  <2>1. ASSUME NEW i \in Due(Q, T, seen, offset), i \notin Due(P, S, seen, offset), i # x
        PROVE  i \in S /\ <<x, i>> \in Q /\ Rank(P, S, i) + 1 = offset /\ Rank(Q, T, i) = offset
    <3>1. i \in S /\ seen[i] > 0 /\ offset <= Rank(Q, T, i) /\ ~ (offset <= Rank(P, S, i))
      BY <1>5, <2>1 DEF Due
    <3> QED BY <1>2, <3>1
  <2>2. CASE offset <= Rank(Q, T, x)
    <3>1. ASSUME NEW i \in Due(Q, T, seen, offset), i \notin Due(P, S, seen, offset), i # x
          PROVE  FALSE
      <4>1. i \in S /\ <<x, i>> \in Q /\ Rank(Q, T, i) = offset
        BY <2>1, <3>1
      <4>2. Rank(Q, T, x) < Rank(Q, T, i)
        BY <1>4, <4>1
      <4> QED BY <1>3, <2>2, <4>1, <4>2
    <3> QED BY <3>1
  <2>3. CASE ~ (offset <= Rank(Q, T, x))
    <3>1. x \notin Due(Q, T, seen, offset)
      BY <2>3 DEF Due
    <3>2. CASE \E j \in S : Rank(P, S, j) + 1 = offset
      <4>1. PICK j \in S : Rank(P, S, j) + 1 = offset
        BY <3>2
      <4>2. ASSUME NEW i \in S, Rank(P, S, i) + 1 = offset PROVE i = j
        <5>1. Rank(P, S, i) = Rank(P, S, j)
          <6>1. Rank(P, S, i) \in Nat /\ Rank(P, S, j) \in Nat
            BY RankType
          <6> QED BY <4>1, <4>2, <6>1
        <5> QED BY <5>1, RankInjective
      <4> QED BY <2>1, <3>1, <4>2
    <3>3. CASE ~ \E j \in S : Rank(P, S, j) + 1 = offset
      BY <2>1, <3>1, <3>3
    <3> QED BY <3>2, <3>3
  <2> QED BY <2>2, <2>3
<1>8. /\ IsFiniteSet(Missed(P, S, stable, seen, offset))
      /\ IsFiniteSet(Due(P, S, seen, offset))
  BY AccountIsFinite
<1> QED BY <1>5, <1>6, <1>7, <1>8, SizeGrowsByOne, SizeOfPart

LEMMA RepeatsFinite ==
  ASSUME NEW seen
  PROVE  IsFiniteSet(Repeats(seen)) /\ Cardinality(Repeats(seen)) \in Nat
<1>1. MaxRows \in Nat
  BY BoundAssumption
<1>2. IsFiniteSet(1 .. MaxRows) /\ IsFiniteSet(2 .. MaxRows + 2)
  BY <1>1, FS_Interval
<1>3. IsFiniteSet((1 .. MaxRows) \X (2 .. MaxRows + 2))
  BY <1>2, FS_Product
<1>4. Repeats(seen) \in SUBSET ((1 .. MaxRows) \X (2 .. MaxRows + 2))
  BY DEF Repeats
<1>5. IsFiniteSet(Repeats(seen))
  BY <1>3, <1>4, FS_Subset
<1> QED BY <1>5, FS_CardinalityType

\* Reading a page settles what was due on it and misses nothing.
SeenAfter(seen, page) == [i \in 1 .. MaxRows |-> IF i \in page THEN seen[i] + 1 ELSE seen[i]]

LEMMA PageRead ==
  ASSUME NEW P, NEW S \in SUBSET (1 .. MaxRows), IsFiniteSet(S),
         NEW stable \in SUBSET S, NEW seen \in [1 .. MaxRows -> Nat],
         NEW offset \in Nat, NEW size \in Nat
  PROVE  LET new == SeenAfter(seen, Stretch(P, S, size, offset))
         IN  /\ new \in [1 .. MaxRows -> Nat]
             /\ Cardinality(Missed(P, S, stable, new, offset + size))
                  <= Cardinality(Missed(P, S, stable, seen, offset))
             /\ Cardinality(Repeats(new)) + Cardinality(Due(P, S, new, offset + size))
                  <= Cardinality(Repeats(seen)) + Cardinality(Due(P, S, seen, offset))
<1> DEFINE page == Stretch(P, S, size, offset)
           new == SeenAfter(seen, page)
           A == {i \in page : seen[i] > 0}
           again == [i \in A |-> <<i, seen[i] + 1>>]
           B == {again[i] : i \in A}
           due == Due(P, S, seen, offset)
           later == Due(P, S, new, offset + size)
<1>1. \A i \in S : Rank(P, S, i) \in Nat
  BY RankType
<1>2. /\ \A i \in 1 .. MaxRows : new[i] = IF i \in page THEN seen[i] + 1 ELSE seen[i]
      /\ new \in [1 .. MaxRows -> Nat]
  BY DEF SeenAfter
<1>3. /\ page \subseteq S
      /\ \A i \in S : i \in page <=> offset <= Rank(P, S, i) /\ Rank(P, S, i) < offset + size
  BY DEF Stretch
<1> HIDE DEF page, new
<1>4. Missed(P, S, stable, new, offset + size) \subseteq Missed(P, S, stable, seen, offset)
  <2> SUFFICES ASSUME NEW i \in stable, new[i] = 0, Rank(P, S, i) < offset + size
               PROVE  seen[i] = 0 /\ Rank(P, S, i) < offset
    BY DEF Missed
  <2>1. i \in S /\ i \in 1 .. MaxRows /\ Rank(P, S, i) \in Nat /\ seen[i] \in Nat
    BY <1>1
  <2>2. i \notin page /\ new[i] = seen[i]
    BY <1>2, <2>1
  <2> QED BY <1>3, <2>1, <2>2
<1>5. later \subseteq due /\ A \subseteq due /\ later \cap A = {}
  <2>1. ASSUME NEW i \in later PROVE i \in due /\ i \notin A
    <3>1. i \in S /\ i \in 1 .. MaxRows /\ new[i] > 0 /\ offset + size <= Rank(P, S, i)
      BY DEF Due
    <3>2. Rank(P, S, i) \in Nat
      BY <1>1, <3>1
    <3>3. i \notin page
      BY <1>3, <3>1, <3>2
    <3>4. offset <= Rank(P, S, i)
      BY <3>1, <3>2
    <3> QED BY <1>2, <3>1, <3>3, <3>4 DEF Due
  <2>2. A \subseteq due
    BY <1>3 DEF Due
  <2> QED BY <2>1, <2>2
<1>6. Repeats(new) \subseteq Repeats(seen) \cup B
  <2> SUFFICES ASSUME NEW p \in (1 .. MaxRows) \X (2 .. MaxRows + 2), p[2] <= new[p[1]],
                      ~ (p[2] <= seen[p[1]])
               PROVE  p \in B
    BY DEF Repeats
  <2>1. PICK i \in 1 .. MaxRows, k \in 2 .. MaxRows + 2 : p = <<i, k>>
    OBVIOUS
  <2>2. k \in Nat /\ k >= 2 /\ seen[i] \in Nat /\ k <= new[i] /\ ~ (k <= seen[i])
    BY <2>1, BoundAssumption
  <2>3. i \in page /\ k = seen[i] + 1 /\ seen[i] > 0
    BY <1>2, <2>2
  <2>4. i \in A /\ again[i] = <<i, k>>
    BY <2>3
  <2> QED BY <2>1, <2>4
<1>7. IsFiniteSet(due) /\ Cardinality(due) \in Nat
  BY AccountIsFinite
<1>8. /\ IsFiniteSet(A) /\ Cardinality(A) \in Nat /\ IsFiniteSet(later) /\ Cardinality(later) \in Nat
  <2> HIDE DEF A, due, later
  <2> QED BY <1>5, <1>7, SizeOfPart
<1>9. IsFiniteSet(B) /\ Cardinality(B) <= Cardinality(A)
  <2>1. again \in Surjection(A, B)
    BY DEF Surjection
  <2> HIDE DEF again, A, B
  <2> QED BY <1>8, <2>1, FS_Surjection
<1> HIDE DEF A, B, due, later, again
<1>10. Cardinality(later) + Cardinality(A) <= Cardinality(due)
  <2>1. /\ IsFiniteSet(later \cup A)
        /\ Cardinality(later \cup A) = Cardinality(later) + Cardinality(A) - Cardinality(later \cap A)
    BY <1>8, FS_Union
  <2>2. Cardinality(later \cap A) = 0
    BY <1>5, FS_EmptySet
  <2>3. Cardinality(later \cup A) <= Cardinality(due)
    <3>1. later \cup A \subseteq due
      BY <1>5
    <3> QED BY <1>7, <3>1, SizeOfPart
  <2> QED BY <1>7, <1>8, <2>1, <2>2, <2>3
<1>11. Cardinality(Repeats(new)) <= Cardinality(Repeats(seen)) + Cardinality(A)
  <2>1. IsFiniteSet(Repeats(seen)) /\ Cardinality(Repeats(seen)) \in Nat
    BY RepeatsFinite
  <2>2. /\ IsFiniteSet(Repeats(seen) \cup B)
        /\ Cardinality(Repeats(seen) \cup B)
             = Cardinality(Repeats(seen)) + Cardinality(B) - Cardinality(Repeats(seen) \cap B)
    BY <1>9, <2>1, FS_Union
  <2>3. Cardinality(B) \in Nat
    BY <1>9, FS_CardinalityType
  <2>4. Cardinality(Repeats(seen) \cap B) \in Nat
    <3>1. IsFiniteSet(Repeats(seen) \cap B)
      BY <2>1, FS_Intersection
    <3> QED BY <3>1, FS_CardinalityType
  <2>5. /\ Cardinality(Repeats(new)) <= Cardinality(Repeats(seen) \cup B)
        /\ Cardinality(Repeats(new)) \in Nat
    BY <1>6, <2>2, SizeOfPart
  <2> QED BY <1>8, <1>9, <2>1, <2>2, <2>3, <2>4, <2>5
<1>12. Cardinality(Repeats(new)) + Cardinality(later) <= Cardinality(Repeats(seen)) + Cardinality(due)
  <2>1. Cardinality(Repeats(new)) \in Nat /\ Cardinality(Repeats(seen)) \in Nat
    BY RepeatsFinite
  <2> QED BY <1>7, <1>8, <1>10, <1>11, <2>1
<1>13. Cardinality(Missed(P, S, stable, new, offset + size))
         <= Cardinality(Missed(P, S, stable, seen, offset))
  <2>1. IsFiniteSet(Missed(P, S, stable, seen, offset))
    BY AccountIsFinite
  <2> QED BY <1>4, <2>1, SizeOfPart
<1> QED BY <1>2, <1>12, <1>13 DEF new, page, due, later

-----------------------------------------------------------------------------
(***************************************************************************)
(* Times as text.                                                          *)
(***************************************************************************)
Local(t, zone) == IF zone = "+" THEN second(t) + ZoneShift ELSE second(t)
Mark(zone)     == IF zone = "+" THEN 0 ELSE 4

\* One character in front of a sequence of characters, and one behind it.
LEMMA InFront ==
  ASSUME NEW c \in Int, NEW m \in Seq(Int), NEW s, s = <<c>> \o m
  PROVE  /\ s \in Seq(Int) /\ Len(s) = Len(m) + 1 /\ s[1] = c
         /\ \A i \in 1 .. Len(m) : s[i + 1] = m[i]
<1>1. <<c>> \in Seq(Int)
  OBVIOUS
<1>2. Len(<<c>>) = 1 /\ <<c>>[1] = c
  OBVIOUS
<1>3. PICK x \in Seq(Int) : x = <<c>>
  BY <1>1
<1>4. Len(x) = 1 /\ x[1] = c
  BY <1>2, <1>3
<1>5. /\ x \o m \in Seq(Int) /\ Len(x \o m) = Len(x) + Len(m)
      /\ \A i \in 1 .. Len(x) + Len(m) : (x \o m)[i] = IF i <= Len(x) THEN x[i] ELSE m[i - Len(x)]
  BY ConcatProperties
<1>6. PICK n \in Nat : n = Len(m)
  OBVIOUS
<1>7. s = x \o m
  BY <1>3
<1>8. \A i \in 1 .. n + 1 : s[i] = IF i <= 1 THEN x[i] ELSE m[i - 1]
  BY <1>4, <1>5, <1>6, <1>7
<1>9. s[1] = c
  BY <1>4, <1>8
<1>10. ASSUME NEW i \in 1 .. n PROVE s[i + 1] = m[i]
  <2>1. i + 1 \in 1 .. n + 1 /\ ~ (i + 1 <= 1) /\ (i + 1) - 1 = i
    OBVIOUS
  <2> QED BY <1>8, <2>1
<1> QED BY <1>4, <1>5, <1>6, <1>7, <1>9, <1>10

LEMMA Behind ==
  ASSUME NEW c \in Int, NEW m \in Seq(Int), NEW s, s = m \o <<c>>
  PROVE  /\ s \in Seq(Int) /\ Len(s) = Len(m) + 1 /\ s[Len(m) + 1] = c
         /\ \A i \in 1 .. Len(m) : s[i] = m[i]
<1>1. <<c>> \in Seq(Int)
  OBVIOUS
<1>2. Len(<<c>>) = 1 /\ <<c>>[1] = c
  OBVIOUS
<1>3. PICK x \in Seq(Int) : x = <<c>>
  BY <1>1
<1>4. Len(x) = 1 /\ x[1] = c
  BY <1>2, <1>3
<1>5. /\ m \o x \in Seq(Int) /\ Len(m \o x) = Len(m) + Len(x)
      /\ \A i \in 1 .. Len(m) + Len(x) : (m \o x)[i] = IF i <= Len(m) THEN m[i] ELSE x[i - Len(m)]
  BY ConcatProperties
<1>6. PICK n \in Nat : n = Len(m)
  OBVIOUS
<1>7. s = m \o x
  BY <1>3
<1>8. \A i \in 1 .. n + 1 : s[i] = IF i <= n THEN m[i] ELSE x[i - n]
  BY <1>4, <1>5, <1>6, <1>7
<1>9. s[n + 1] = c
  <2>1. n + 1 \in 1 .. n + 1 /\ ~ (n + 1 <= n) /\ (n + 1) - n = 1
    OBVIOUS
  <2> QED BY <1>4, <1>8, <2>1
<1>10. ASSUME NEW i \in 1 .. n PROVE s[i] = m[i]
  <2>1. i \in 1 .. n + 1 /\ i <= n
    OBVIOUS
  <2> QED BY <1>8, <2>1
<1> QED BY <1>4, <1>5, <1>6, <1>7, <1>9, <1>10

\* The four shapes of a text.
Spelled(s, a, z, f) ==
  /\ s \in Seq(Int) /\ a \in Int /\ z \in Int /\ s[1] = a
  /\ f = 0 => Len(s) = 2 /\ s[2] = z
  /\ f = 1 => Len(s) = 5 /\ s[2] = 1 /\ s[3] = 2 /\ s[4] = 3 /\ s[5] = z
  /\ f = 2 => Len(s) = 4 /\ s[2] = 1 /\ s[3] = 3 /\ s[4] = z
  /\ f = 3 => Len(s) = 5 /\ s[2] = 1 /\ s[3] = 3 /\ s[4] = 3 /\ s[5] = z

LEMMA Spelling ==
  ASSUME NEW t \in Nat, NEW zone
  PROVE  Spelled(formatTime(t, zone), Local(t, zone), Mark(zone), t % 4)
<1>1. PICK a \in Int : a = Local(t, zone)
  BY ZoneAssumption DEF Local, second
<1>2. PICK z \in Int : z = Mark(zone)
  BY DEF Mark
<1>3. PICK f : f = fraction(t)
  OBVIOUS
<1>4. PICK m : m = (IF f = <<>> THEN <<>> ELSE <<Dot>> \o [i \in DOMAIN f |-> Digit(f[i])])
  OBVIOUS
<1>5. PICK s : s = <<a>> \o m \o <<z>>
  OBVIOUS
<1>6. formatTime(t, zone) = s
  BY <1>1, <1>2, <1>3, <1>4, <1>5 DEF formatTime, Local, Mark, Plus, Zed
<1>7. ASSUME m \in Seq(Int)
      PROVE  /\ s \in Seq(Int) /\ Len(s) = Len(m) + 2 /\ s[1] = a /\ s[Len(m) + 2] = z
             /\ \A i \in 1 .. Len(m) : s[i + 1] = m[i]
  <2>1. PICK u : u = <<a>> \o m
    OBVIOUS
  <2>2. /\ u \in Seq(Int) /\ Len(u) = Len(m) + 1 /\ u[1] = a
        /\ \A i \in 1 .. Len(m) : u[i + 1] = m[i]
    BY <1>7, <2>1, InFront
  <2>3. s = u \o <<z>>
    BY <1>5, <2>1
  <2>4. /\ s \in Seq(Int) /\ Len(s) = Len(u) + 1 /\ s[Len(u) + 1] = z
        /\ \A i \in 1 .. Len(u) : s[i] = u[i]
    BY <2>2, <2>3, Behind
  <2>5. Len(m) \in Nat
    BY <1>7
  <2>6. \A i \in 1 .. Len(m) : i + 1 \in 1 .. Len(u)
    BY <2>2, <2>5
  <2> QED BY <2>2, <2>4, <2>5, <2>6
<1>8. ASSUME f # <<>>, f \in Seq(Int)
      PROVE  /\ m \in Seq(Int) /\ Len(m) = Len(f) + 1 /\ m[1] = 1
             /\ \A i \in 1 .. Len(f) : m[i + 1] = 2 + f[i]
  <2>1. PICK d : d = [i \in DOMAIN f |-> Digit(f[i])]
    OBVIOUS
  <2>2. PICK n \in Nat : n = Len(f) /\ DOMAIN f = 1 .. n
    BY <1>8
  <2>3. d \in [1 .. n -> Int] /\ \A i \in 1 .. n : d[i] = 2 + f[i]
    BY <1>8, <2>1, <2>2 DEF Digit
  <2>4. d \in Seq(Int) /\ Len(d) = n
    BY <2>3
  <2>5. m = <<1>> \o d
    BY <1>4, <1>8, <2>1 DEF Dot
  <2>6. /\ m \in Seq(Int) /\ Len(m) = Len(d) + 1 /\ m[1] = 1
        /\ \A i \in 1 .. Len(d) : m[i + 1] = d[i]
    BY <2>4, <2>5, InFront
  <2> QED BY <2>2, <2>3, <2>4, <2>6
<1>9. CASE t % 4 = 0
  <2>1. f = <<>>
    BY <1>3, <1>9 DEF fraction
  <2>2. m = <<>> /\ m \in Seq(Int) /\ Len(m) = 0
    BY <1>4, <2>1
  <2>3. s \in Seq(Int) /\ Len(s) = 2 /\ s[1] = a /\ s[2] = z
    BY <1>7, <2>2
  <2> QED BY <1>1, <1>2, <1>6, <1>9, <2>3 DEF Spelled
<1>10. CASE t % 4 = 1
  <2>1. f = <<0, 1>>
    BY <1>3, <1>10 DEF fraction
  <2>2. f \in Seq(Int) /\ f # <<>> /\ Len(f) = 2 /\ f[1] = 0 /\ f[2] = 1
    BY <2>1
  <2>3. m \in Seq(Int) /\ Len(m) = 3 /\ m[1] = 1 /\ m[2] = 2 /\ m[3] = 3
    <3>1. 1 \in 1 .. 2 /\ 2 \in 1 .. 2
      OBVIOUS
    <3> QED BY <1>8, <2>2, <3>1
  <2>4. s \in Seq(Int) /\ Len(s) = 5 /\ s[1] = a /\ s[5] = z
    BY <1>7, <2>3
  <2>5. s[2] = 1 /\ s[3] = 2 /\ s[4] = 3
    <3>1. 1 \in 1 .. 3 /\ 2 \in 1 .. 3 /\ 3 \in 1 .. 3
      OBVIOUS
    <3> QED BY <1>7, <2>3, <3>1
  <2> QED BY <1>1, <1>2, <1>6, <1>10, <2>4, <2>5 DEF Spelled
<1>11. CASE t % 4 = 2
  <2>1. f = <<1>>
    BY <1>3, <1>11 DEF fraction
  <2>2. f \in Seq(Int) /\ f # <<>> /\ Len(f) = 1 /\ f[1] = 1
    BY <2>1
  <2>3. m \in Seq(Int) /\ Len(m) = 2 /\ m[1] = 1 /\ m[2] = 3
    <3>1. 1 \in 1 .. 1
      OBVIOUS
    <3> QED BY <1>8, <2>2, <3>1
  <2>4. s \in Seq(Int) /\ Len(s) = 4 /\ s[1] = a /\ s[4] = z
    BY <1>7, <2>3
  <2>5. s[2] = 1 /\ s[3] = 3
    <3>1. 1 \in 1 .. 2 /\ 2 \in 1 .. 2
      OBVIOUS
    <3> QED BY <1>7, <2>3, <3>1
  <2> QED BY <1>1, <1>2, <1>6, <1>11, <2>4, <2>5 DEF Spelled
<1>12. CASE t % 4 = 3
  <2>1. f = <<1, 1>>
    BY <1>3, <1>12 DEF fraction
  <2>2. f \in Seq(Int) /\ f # <<>> /\ Len(f) = 2 /\ f[1] = 1 /\ f[2] = 1
    BY <2>1
  <2>3. m \in Seq(Int) /\ Len(m) = 3 /\ m[1] = 1 /\ m[2] = 3 /\ m[3] = 3
    <3>1. 1 \in 1 .. 2 /\ 2 \in 1 .. 2
      OBVIOUS
    <3> QED BY <1>8, <2>2, <3>1
  <2>4. s \in Seq(Int) /\ Len(s) = 5 /\ s[1] = a /\ s[5] = z
    BY <1>7, <2>3
  <2>5. s[2] = 1 /\ s[3] = 3 /\ s[4] = 3
    <3>1. 1 \in 1 .. 3 /\ 2 \in 1 .. 3 /\ 3 \in 1 .. 3
      OBVIOUS
    <3> QED BY <1>7, <2>3, <3>1
  <2> QED BY <1>1, <1>2, <1>6, <1>12, <2>4, <2>5 DEF Spelled
<1>13. t % 4 \in 0 .. 3
  OBVIOUS
<1> QED BY <1>9, <1>10, <1>11, <1>12, <1>13

\* A text before another is not behind it, and none is before itself.
LEMMA TextLessStrict ==
  ASSUME NEW a \in Seq(Int), NEW b \in Seq(Int), TextLess(a, b)
  PROVE  ~ TextLess(b, a) /\ a # b
<1>1. PICK k \in DOMAIN a \cap DOMAIN b : a[k] < b[k] /\ \A j \in 1 .. k - 1 : a[j] = b[j]
  BY DEF TextLess
<1>2. /\ DOMAIN a = 1 .. Len(a) /\ DOMAIN b = 1 .. Len(b) /\ Len(a) \in Nat /\ Len(b) \in Nat
      /\ \A i \in DOMAIN a : a[i] \in Int
      /\ \A i \in DOMAIN b : b[i] \in Int
  OBVIOUS
<1>3. a # b
  BY <1>1, <1>2
<1>4. ASSUME NEW l \in DOMAIN b \cap DOMAIN a, b[l] < a[l], \A j \in 1 .. l - 1 : b[j] = a[j]
      PROVE  FALSE
  <2>1. k \in Nat /\ l \in Nat /\ k >= 1 /\ l >= 1
    BY <1>2
  <2>2. a[k] \in Int /\ b[k] \in Int /\ a[l] \in Int /\ b[l] \in Int
    BY <1>2
  <2>3. CASE k < l
    BY <1>1, <1>4, <2>1, <2>2, <2>3
  <2>4. CASE l < k
    BY <1>1, <1>4, <2>1, <2>2, <2>4
  <2>5. CASE k = l
    BY <1>1, <1>4, <2>2, <2>5
  <2> QED BY <2>1, <2>3, <2>4, <2>5
<1> QED BY <1>3, <1>4 DEF TextLess

\* Texts that first differ in an early character.
LEMMA DifferAt ==
  ASSUME NEW s \in Seq(Int), NEW r \in Seq(Int)
  PROVE  /\ Len(s) >= 1 /\ Len(r) >= 1 /\ s[1] < r[1] => TextLess(s, r)
         /\ Len(s) >= 2 /\ Len(r) >= 2 /\ s[1] = r[1] /\ s[2] < r[2] => TextLess(s, r)
         /\ Len(s) >= 3 /\ Len(r) >= 3 /\ s[1] = r[1] /\ s[2] = r[2] /\ s[3] < r[3] => TextLess(s, r)
         /\ Len(s) >= 4 /\ Len(r) >= 4 /\ s[1] = r[1] /\ s[2] = r[2] /\ s[3] = r[3] /\ s[4] < r[4]
              => TextLess(s, r)
<1>1. DOMAIN s = 1 .. Len(s) /\ DOMAIN r = 1 .. Len(r) /\ Len(s) \in Nat /\ Len(r) \in Nat
  OBVIOUS
<1>2. ASSUME NEW k \in 1 .. 4, Len(s) >= k, Len(r) >= k, s[k] < r[k],
             \A j \in 1 .. k - 1 : s[j] = r[j]
      PROVE  TextLess(s, r)
  <2>1. k \in DOMAIN s \cap DOMAIN r
    BY <1>1, <1>2
  <2> QED BY <1>2, <2>1 DEF TextLess
<1>3. /\ 1 .. 1 - 1 = {} /\ 1 .. 2 - 1 = {1} /\ 1 .. 3 - 1 = {1, 2} /\ 1 .. 4 - 1 = {1, 2, 3}
      /\ {1, 2, 3, 4} \subseteq 1 .. 4
  OBVIOUS
<1>4. Len(s) >= 1 /\ Len(r) >= 1 /\ s[1] < r[1] => TextLess(s, r)
  BY <1>2, <1>3
<1>5. Len(s) >= 2 /\ Len(r) >= 2 /\ s[1] = r[1] /\ s[2] < r[2] => TextLess(s, r)
  BY <1>2, <1>3
<1>6. Len(s) >= 3 /\ Len(r) >= 3 /\ s[1] = r[1] /\ s[2] = r[2] /\ s[3] < r[3] => TextLess(s, r)
  BY <1>2, <1>3
<1>7. Len(s) >= 4 /\ Len(r) >= 4 /\ s[1] = r[1] /\ s[2] = r[2] /\ s[3] = r[3] /\ s[4] < r[4]
        => TextLess(s, r)
  BY <1>2, <1>3
<1> QED BY <1>4, <1>5, <1>6, <1>7

\* The place of a fraction within its second.  In the zone "+" the zone sign
\* sorts before the point, in "Z" the letter sorts behind the digits.
Place(f, zone) == IF zone = "+" THEN f
                  ELSE IF f = 0 THEN 3 ELSE IF f = 1 THEN 0 ELSE IF f = 2 THEN 2 ELSE 1

LEMMA SameSecond ==
  ASSUME NEW zone, NEW f \in 0 .. 3, NEW g \in 0 .. 3, Place(f, zone) < Place(g, zone),
         NEW a, NEW s, NEW r, Spelled(s, a, Mark(zone), f), Spelled(r, a, Mark(zone), g)
  PROVE  TextLess(s, r)
<1>1. s \in Seq(Int) /\ r \in Seq(Int) /\ s[1] = r[1]
  BY DEF Spelled
<1>2. f \in {0, 1, 2, 3} /\ g \in {0, 1, 2, 3}
  OBVIOUS
<1>3. ASSUME NEW z \in {0, 4}, Spelled(s, a, z, f), Spelled(r, a, z, g)
      PROVE  /\ f = 0 => Len(s) = 2 /\ s[2] = z
             /\ f = 1 => Len(s) = 5 /\ s[2] = 1 /\ s[3] = 2 /\ s[4] = 3
             /\ f = 2 => Len(s) = 4 /\ s[2] = 1 /\ s[3] = 3 /\ s[4] = z
             /\ f = 3 => Len(s) = 5 /\ s[2] = 1 /\ s[3] = 3 /\ s[4] = 3
             /\ g = 0 => Len(r) = 2 /\ r[2] = z
             /\ g = 1 => Len(r) = 5 /\ r[2] = 1 /\ r[3] = 2 /\ r[4] = 3
             /\ g = 2 => Len(r) = 4 /\ r[2] = 1 /\ r[3] = 3 /\ r[4] = z
             /\ g = 3 => Len(r) = 5 /\ r[2] = 1 /\ r[3] = 3 /\ r[4] = 3
  BY <1>3 DEF Spelled
<1>4. CASE zone = "+"
  <2>1. /\ f = 0 => Len(s) = 2 /\ s[2] = 0
        /\ f = 1 => Len(s) = 5 /\ s[2] = 1 /\ s[3] = 2 /\ s[4] = 3
        /\ f = 2 => Len(s) = 4 /\ s[2] = 1 /\ s[3] = 3 /\ s[4] = 0
        /\ f = 3 => Len(s) = 5 /\ s[2] = 1 /\ s[3] = 3 /\ s[4] = 3
        /\ g = 0 => Len(r) = 2 /\ r[2] = 0
        /\ g = 1 => Len(r) = 5 /\ r[2] = 1 /\ r[3] = 2 /\ r[4] = 3
        /\ g = 2 => Len(r) = 4 /\ r[2] = 1 /\ r[3] = 3 /\ r[4] = 0
        /\ g = 3 => Len(r) = 5 /\ r[2] = 1 /\ r[3] = 3 /\ r[4] = 3
    <3>1. Mark(zone) = 0
      BY <1>4 DEF Mark
    <3> QED BY <1>3, <3>1
  <2>2. \/ f = 0 /\ g = 1
        \/ f = 0 /\ g = 2
        \/ f = 0 /\ g = 3
        \/ f = 1 /\ g = 2
        \/ f = 1 /\ g = 3
        \/ f = 2 /\ g = 3
    BY <1>2, <1>4 DEF Place
  <2>3. CASE f = 0 /\ g = 1
    <3>1. Len(s) = 2 /\ s[2] = 0
      BY <2>1, <2>3
    <3>2. Len(r) = 5 /\ r[2] = 1
      BY <2>1, <2>3
    <3>3. Len(s) >= 2 /\ Len(r) >= 2 /\ s[2] < r[2]
      BY <3>1, <3>2
    <3> QED BY <1>1, <3>3, DifferAt
  <2>4. CASE f = 0 /\ g = 2
    <3>1. Len(s) = 2 /\ s[2] = 0
      BY <2>1, <2>4
    <3>2. Len(r) = 4 /\ r[2] = 1
      BY <2>1, <2>4
    <3>3. Len(s) >= 2 /\ Len(r) >= 2 /\ s[2] < r[2]
      BY <3>1, <3>2
    <3> QED BY <1>1, <3>3, DifferAt
  <2>5. CASE f = 0 /\ g = 3
    <3>1. Len(s) = 2 /\ s[2] = 0
      BY <2>1, <2>5
    <3>2. Len(r) = 5 /\ r[2] = 1
      BY <2>1, <2>5
    <3>3. Len(s) >= 2 /\ Len(r) >= 2 /\ s[2] < r[2]
      BY <3>1, <3>2
    <3> QED BY <1>1, <3>3, DifferAt
  <2>6. CASE f = 1 /\ g = 2
    <3>1. Len(s) = 5 /\ s[2] = 1 /\ s[3] = 2
      BY <2>1, <2>6
    <3>2. Len(r) = 4 /\ r[2] = 1 /\ r[3] = 3
      BY <2>1, <2>6
    <3>3. Len(s) >= 3 /\ Len(r) >= 3 /\ s[2] = r[2] /\ s[3] < r[3]
      BY <3>1, <3>2
    <3> QED BY <1>1, <3>3, DifferAt
  <2>7. CASE f = 1 /\ g = 3
    <3>1. Len(s) = 5 /\ s[2] = 1 /\ s[3] = 2
      BY <2>1, <2>7
    <3>2. Len(r) = 5 /\ r[2] = 1 /\ r[3] = 3
      BY <2>1, <2>7
    <3>3. Len(s) >= 3 /\ Len(r) >= 3 /\ s[2] = r[2] /\ s[3] < r[3]
      BY <3>1, <3>2
    <3> QED BY <1>1, <3>3, DifferAt
  <2>8. CASE f = 2 /\ g = 3
    <3>1. Len(s) = 4 /\ s[2] = 1 /\ s[3] = 3 /\ s[4] = 0
      BY <2>1, <2>8
    <3>2. Len(r) = 5 /\ r[2] = 1 /\ r[3] = 3 /\ r[4] = 3
      BY <2>1, <2>8
    <3>3. Len(s) >= 4 /\ Len(r) >= 4 /\ s[2] = r[2] /\ s[3] = r[3] /\ s[4] < r[4]
      BY <3>1, <3>2
    <3> QED BY <1>1, <3>3, DifferAt
  <2> QED BY <2>2, <2>3, <2>4, <2>5, <2>6, <2>7, <2>8
<1>5. CASE zone # "+"
  <2>1. /\ f = 0 => Len(s) = 2 /\ s[2] = 4
        /\ f = 1 => Len(s) = 5 /\ s[2] = 1 /\ s[3] = 2 /\ s[4] = 3
        /\ f = 2 => Len(s) = 4 /\ s[2] = 1 /\ s[3] = 3 /\ s[4] = 4
        /\ f = 3 => Len(s) = 5 /\ s[2] = 1 /\ s[3] = 3 /\ s[4] = 3
        /\ g = 0 => Len(r) = 2 /\ r[2] = 4
        /\ g = 1 => Len(r) = 5 /\ r[2] = 1 /\ r[3] = 2 /\ r[4] = 3
        /\ g = 2 => Len(r) = 4 /\ r[2] = 1 /\ r[3] = 3 /\ r[4] = 4
        /\ g = 3 => Len(r) = 5 /\ r[2] = 1 /\ r[3] = 3 /\ r[4] = 3
    <3>1. Mark(zone) = 4
      BY <1>5 DEF Mark
    <3> QED BY <1>3, <3>1
  <2>2. \/ f = 1 /\ g = 3
        \/ f = 1 /\ g = 2
        \/ f = 1 /\ g = 0
        \/ f = 3 /\ g = 2
        \/ f = 3 /\ g = 0
        \/ f = 2 /\ g = 0
    BY <1>2, <1>5 DEF Place
  <2>3. CASE f = 1 /\ g = 3
    <3>1. Len(s) = 5 /\ s[2] = 1 /\ s[3] = 2
      BY <2>1, <2>3
    <3>2. Len(r) = 5 /\ r[2] = 1 /\ r[3] = 3
      BY <2>1, <2>3
    <3>3. Len(s) >= 3 /\ Len(r) >= 3 /\ s[2] = r[2] /\ s[3] < r[3]
      BY <3>1, <3>2
    <3> QED BY <1>1, <3>3, DifferAt
  <2>4. CASE f = 1 /\ g = 2
    <3>1. Len(s) = 5 /\ s[2] = 1 /\ s[3] = 2
      BY <2>1, <2>4
    <3>2. Len(r) = 4 /\ r[2] = 1 /\ r[3] = 3
      BY <2>1, <2>4
    <3>3. Len(s) >= 3 /\ Len(r) >= 3 /\ s[2] = r[2] /\ s[3] < r[3]
      BY <3>1, <3>2
    <3> QED BY <1>1, <3>3, DifferAt
  <2>5. CASE f = 1 /\ g = 0
    <3>1. Len(s) = 5 /\ s[2] = 1
      BY <2>1, <2>5
    <3>2. Len(r) = 2 /\ r[2] = 4
      BY <2>1, <2>5
    <3>3. Len(s) >= 2 /\ Len(r) >= 2 /\ s[2] < r[2]
      BY <3>1, <3>2
    <3> QED BY <1>1, <3>3, DifferAt
  <2>6. CASE f = 3 /\ g = 2
    <3>1. Len(s) = 5 /\ s[2] = 1 /\ s[3] = 3 /\ s[4] = 3
      BY <2>1, <2>6
    <3>2. Len(r) = 4 /\ r[2] = 1 /\ r[3] = 3 /\ r[4] = 4
      BY <2>1, <2>6
    <3>3. Len(s) >= 4 /\ Len(r) >= 4 /\ s[2] = r[2] /\ s[3] = r[3] /\ s[4] < r[4]
      BY <3>1, <3>2
    <3> QED BY <1>1, <3>3, DifferAt
  <2>7. CASE f = 3 /\ g = 0
    <3>1. Len(s) = 5 /\ s[2] = 1
      BY <2>1, <2>7
    <3>2. Len(r) = 2 /\ r[2] = 4
      BY <2>1, <2>7
    <3>3. Len(s) >= 2 /\ Len(r) >= 2 /\ s[2] < r[2]
      BY <3>1, <3>2
    <3> QED BY <1>1, <3>3, DifferAt
  <2>8. CASE f = 2 /\ g = 0
    <3>1. Len(s) = 4 /\ s[2] = 1
      BY <2>1, <2>8
    <3>2. Len(r) = 2 /\ r[2] = 4
      BY <2>1, <2>8
    <3>3. Len(s) >= 2 /\ Len(r) >= 2 /\ s[2] < r[2]
      BY <3>1, <3>2
    <3> QED BY <1>1, <3>3, DifferAt
  <2> QED BY <2>2, <2>3, <2>4, <2>5, <2>6, <2>7, <2>8
<1> QED BY <1>4, <1>5

\* The number that orders the texts of one zone.
Key(t, zone) == 4 * second(t) + Place(t % 4, zone)

LEMMA KeyFacts ==
  ASSUME NEW t \in Nat, NEW zone
  PROVE  /\ second(t) \in Nat /\ t % 4 \in 0 .. 3 /\ t = 4 * second(t) + (t % 4)
         /\ Place(t % 4, zone) \in 0 .. 3 /\ Key(t, zone) \in Nat
         /\ zone = "+" => Key(t, zone) = t
<1>1. second(t) \in Nat /\ t % 4 \in 0 .. 3 /\ t = 4 * second(t) + (t % 4)
  BY DEF second
<1>2. Place(t % 4, zone) \in 0 .. 3
  BY <1>1 DEF Place
<1> QED BY <1>1, <1>2 DEF Key, Place

LEMMA TextOrder ==
  ASSUME NEW t \in Nat, NEW u \in Nat, NEW zone
  PROVE  /\ formatTime(t, zone) \in Seq(Int)
         /\ TextLess(formatTime(t, zone), formatTime(u, zone)) <=> Key(t, zone) < Key(u, zone)
         /\ formatTime(t, zone) = formatTime(u, zone) <=> Key(t, zone) = Key(u, zone)
<1>1. ASSUME NEW x \in Nat, NEW y \in Nat, Key(x, zone) < Key(y, zone)
      PROVE  TextLess(formatTime(x, zone), formatTime(y, zone))
  <2>1. PICK s : s = formatTime(x, zone)
    OBVIOUS
  <2>2. PICK r : r = formatTime(y, zone)
    OBVIOUS
  <2>3. /\ Spelled(s, Local(x, zone), Mark(zone), x % 4)
        /\ Spelled(r, Local(y, zone), Mark(zone), y % 4)
    BY <2>1, <2>2, Spelling
  <2>4. /\ second(x) \in Nat /\ x % 4 \in 0 .. 3 /\ Place(x % 4, zone) \in 0 .. 3
        /\ second(y) \in Nat /\ y % 4 \in 0 .. 3 /\ Place(y % 4, zone) \in 0 .. 3
    BY KeyFacts
  <2>5. CASE second(x) < second(y)
    <3>1. Local(x, zone) < Local(y, zone)
      BY <2>4, <2>5, ZoneAssumption DEF Local
    <3>2. s \in Seq(Int) /\ r \in Seq(Int) /\ Len(s) >= 1 /\ Len(r) >= 1 /\ s[1] < r[1]
      <4>1. x % 4 \in {0, 1, 2, 3} /\ y % 4 \in {0, 1, 2, 3}
        BY <2>4
      <4> QED BY <2>3, <3>1, <4>1 DEF Spelled
    <3> QED BY <2>1, <2>2, <3>2, DifferAt
  <2>6. CASE second(x) = second(y)
    <3>1. Local(x, zone) = Local(y, zone)
      BY <2>6 DEF Local
    <3>2. Place(x % 4, zone) < Place(y % 4, zone)
      BY <1>1, <2>4, <2>6 DEF Key
    <3> QED BY <2>1, <2>2, <2>3, <2>4, <3>1, <3>2, SameSecond
  <2>7. CASE second(x) > second(y)
    BY <1>1, <2>4, <2>7 DEF Key
  <2> QED BY <2>4, <2>5, <2>6, <2>7
<1>2. \A x \in Nat : formatTime(x, zone) \in Seq(Int) /\ Key(x, zone) \in Nat
  BY Spelling, KeyFacts DEF Spelled
<1>3. ASSUME NEW x \in Nat, NEW y \in Nat, Key(x, zone) = Key(y, zone)
      PROVE  x = y
  <2>1. PICK f \in 0 .. 3 : f = x % 4
    BY KeyFacts
  <2>2. PICK g \in 0 .. 3 : g = y % 4
    BY KeyFacts
  <2>3. PICK m \in Nat : m = second(x)
    BY KeyFacts
  <2>4. PICK n \in Nat : n = second(y)
    BY KeyFacts
  <2>5. Place(f, zone) \in 0 .. 3 /\ Place(g, zone) \in 0 .. 3
    BY DEF Place
  <2>6. m = n /\ Place(f, zone) = Place(g, zone)
    BY <1>3, <2>1, <2>2, <2>3, <2>4, <2>5 DEF Key
  <2>7. f = g
    BY <2>6 DEF Place
  <2>8. x = 4 * second(x) + (x % 4) /\ y = 4 * second(y) + (y % 4)
    BY KeyFacts
  <2> QED BY <2>1, <2>2, <2>3, <2>4, <2>6, <2>7, <2>8
<1>4. Key(t, zone) < Key(u, zone) \/ Key(u, zone) < Key(t, zone) \/ Key(t, zone) = Key(u, zone)
  BY <1>2
<1>5. CASE Key(t, zone) < Key(u, zone)
  <2>1. /\ TextLess(formatTime(t, zone), formatTime(u, zone))
        /\ formatTime(t, zone) # formatTime(u, zone)
    BY <1>1, <1>2, <1>5, TextLessStrict
  <2> QED BY <1>2, <1>5, <2>1
<1>6. CASE Key(u, zone) < Key(t, zone)
  <2>1. /\ ~ TextLess(formatTime(t, zone), formatTime(u, zone))
        /\ formatTime(t, zone) # formatTime(u, zone)
    BY <1>1, <1>2, <1>6, TextLessStrict
  <2>2. ~ (Key(t, zone) < Key(u, zone)) /\ Key(t, zone) # Key(u, zone)
    <3>1. Key(t, zone) \in Nat /\ Key(u, zone) \in Nat
      BY <1>2
    <3> QED BY <1>6, <3>1
  <2> QED BY <1>2, <2>1, <2>2
<1>7. CASE Key(t, zone) = Key(u, zone)
  <2>1. t = u
    BY <1>3, <1>7
  <2>2. ~ TextLess(formatTime(t, zone), formatTime(t, zone))
    BY <1>2, TextLessStrict
  <2>3. ~ (Key(t, zone) < Key(t, zone))
    BY <1>2
  <2> QED BY <1>2, <2>1, <2>2, <2>3
<1> QED BY <1>4, <1>5, <1>6, <1>7

-----------------------------------------------------------------------------
(***************************************************************************)
(* ORDER BY registered_at DESC as a strict order on the rows of a table.   *)
(***************************************************************************)
Table == Seq([at : Nat, match : BOOLEAN])

Earlier(table, zone, newer, i, j) ==
  LET a == formatTime(table[i].at, zone)
      b == formatTime(table[j].at, zone)
  IN  TextLess(b, a) \/ (a = b /\ IF newer THEN i > j ELSE i < j)

Order(table, zone, newer) ==
  {p \in (DOMAIN table) \X (DOMAIN table) : Earlier(table, zone, newer, p[1], p[2])}

LEMMA InOrder ==
  ASSUME NEW table, NEW zone, NEW newer, NEW i \in DOMAIN table, NEW j \in DOMAIN table
  PROVE  <<i, j>> \in Order(table, zone, newer) <=> Earlier(table, zone, newer, i, j)
BY DEF Order

LEMMA OrderStrict ==
  ASSUME NEW table \in Table, NEW zone, NEW newer \in BOOLEAN, NEW S \in SUBSET DOMAIN table
  PROVE  StrictOrder(Order(table, zone, newer), S)
<1> DEFINE k == [i \in DOMAIN table |-> Key(table[i].at, zone)]
<1>1. /\ DOMAIN table \subseteq Nat
      /\ \A i \in DOMAIN table : table[i].at \in Nat
  <2>1. PICK R : R = [at : Nat, match : BOOLEAN]
    OBVIOUS
  <2>2. table \in Seq(R)
    BY <2>1 DEF Table
  <2>3. DOMAIN table = 1 .. Len(table) /\ Len(table) \in Nat /\ \A i \in DOMAIN table : table[i] \in R
    BY <2>2
  <2>4. \A q \in R : q.at \in Nat
    BY <2>1
  <2> QED BY <2>3, <2>4
<1>2. \A i \in DOMAIN table : k[i] \in Nat /\ i \in Nat
  BY <1>1, KeyFacts
<1>3. ASSUME NEW i \in DOMAIN table, NEW j \in DOMAIN table
      PROVE  <<i, j>> \in Order(table, zone, newer)
               <=> k[j] < k[i] \/ (k[i] = k[j] /\ IF newer THEN i > j ELSE i < j)
  <2>1. PICK t \in Nat : t = table[i].at
    BY <1>1
  <2>2. PICK u \in Nat : u = table[j].at
    BY <1>1
  <2>3. /\ TextLess(formatTime(u, zone), formatTime(t, zone)) <=> Key(u, zone) < Key(t, zone)
        /\ formatTime(t, zone) = formatTime(u, zone) <=> Key(t, zone) = Key(u, zone)
    BY TextOrder
  <2>4. k[i] = Key(t, zone) /\ k[j] = Key(u, zone)
    BY <2>1, <2>2
  <2> HIDE DEF k
  <2>5. Earlier(table, zone, newer, i, j)
          <=> k[j] < k[i] \/ (k[i] = k[j] /\ IF newer THEN i > j ELSE i < j)
    BY <2>1, <2>2, <2>3, <2>4 DEF Earlier
  <2> QED BY <2>5, InOrder
<1> HIDE DEF k
<1>4. \A i \in S : <<i, i>> \notin Order(table, zone, newer)
  BY <1>2, <1>3
<1>5. \A i, j \in S : i # j => \/ <<i, j>> \in Order(table, zone, newer)
                               \/ <<j, i>> \in Order(table, zone, newer)
  BY <1>2, <1>3
<1>6. ASSUME NEW i \in S, NEW j \in S, NEW l \in S,
             <<i, j>> \in Order(table, zone, newer), <<j, l>> \in Order(table, zone, newer)
      PROVE  <<i, l>> \in Order(table, zone, newer)
  <2>1. /\ i \in DOMAIN table /\ j \in DOMAIN table /\ l \in DOMAIN table
        /\ i \in Nat /\ j \in Nat /\ l \in Nat /\ k[i] \in Nat /\ k[j] \in Nat /\ k[l] \in Nat
    BY <1>2
  <2>2. /\ k[j] < k[i] \/ (k[i] = k[j] /\ IF newer THEN i > j ELSE i < j)
        /\ k[l] < k[j] \/ (k[j] = k[l] /\ IF newer THEN j > l ELSE j < l)
    BY <1>3, <1>6, <2>1
  <2>3. k[l] < k[i] \/ (k[i] = k[l] /\ IF newer THEN i > l ELSE i < l)
    BY <2>1, <2>2
  <2> QED BY <1>3, <2>1, <2>3
<1> QED BY <1>4, <1>5, <1>6 DEF StrictOrder

\* The order of two rows depends on their times alone.
LEMMA OrderKept ==
  ASSUME NEW table, NEW new, NEW zone, NEW newer, DOMAIN table \subseteq DOMAIN new,
         \A i \in DOMAIN table : new[i].at = table[i].at
  PROVE  /\ \A i, j \in DOMAIN table :
              <<j, i>> \in Order(new, zone, newer) <=> <<j, i>> \in Order(table, zone, newer)
         /\ DOMAIN new = DOMAIN table => Order(new, zone, newer) = Order(table, zone, newer)
<1>1. ASSUME NEW i \in DOMAIN table, NEW j \in DOMAIN table
      PROVE  Earlier(new, zone, newer, j, i) <=> Earlier(table, zone, newer, j, i)
  BY DEF Earlier
<1>2. ASSUME NEW i \in DOMAIN table, NEW j \in DOMAIN table
      PROVE  <<j, i>> \in Order(new, zone, newer) <=> <<j, i>> \in Order(table, zone, newer)
  BY <1>1, InOrder
<1>3. ASSUME DOMAIN new = DOMAIN table
      PROVE  Order(new, zone, newer) = Order(table, zone, newer)
  BY <1>1, <1>3 DEF Order
<1> QED BY <1>2, <1>3

-----------------------------------------------------------------------------
(***************************************************************************)
(* The inductive invariant.  While a walk goes on, what it has missed and  *)
(* repeated, together with what it is bound to repeat, is paid for by the  *)
(* rows that left its filter and came into it.  While an export waits for  *)
(* its SELECT, the total it counted is at most what the SELECT will find.  *)
(***************************************************************************)
Prec == Order(rows, serverZone, newerFirst)

WalkState == [pc : {"walk"}, size : 1 .. Cap, offset : Nat, seen : [1 .. MaxRows -> Nat],
              stable : SUBSET (1 .. MaxRows), left : Nat, came : Nat]

Stored == /\ serverZone \in Zones /\ newerFirst \in BOOLEAN
          /\ rows \in Table /\ Len(rows) <= MaxRows

WalkPaid ==
  reader.pc = "walk" =>
    /\ reader \in WalkState /\ reader.stable \subseteq Matching
    /\ Cardinality(Missed(Prec, Matching, reader.stable, reader.seen, reader.offset)) <= reader.left
    /\ Cardinality(Repeats(reader.seen)) + Cardinality(Due(Prec, Matching, reader.seen, reader.offset))
         <= reader.came

ExportOpen ==
  reader.pc = "export" =>
    /\ reader.window \in Nat \X Nat /\ reader.zone \in Zones /\ reader.known \subseteq Ids
    /\ reader.total \in Nat
    /\ reader.total <= Cardinality(Exportable(reader.window, reader.zone))

ExportKnown == reader.pc = "exported" => reader.known \subseteq Ids

Inv == /\ Stored /\ WalkPaid /\ ExportOpen /\ ExportKnown
       /\ WalkAccountsForMoves /\ ExportFollowsTheClock

\* The rows are numbered and few.
LEMMA RowsFinite ==
  ASSUME Stored, NEW S \in SUBSET Ids
  PROVE  /\ Ids = 1 .. Len(rows) /\ Ids \subseteq 1 .. MaxRows /\ Ids \subseteq Nat
         /\ IsFiniteSet(S) /\ Cardinality(S) \in Nat
<1>1. Len(rows) \in Nat /\ Ids = 1 .. Len(rows) /\ MaxRows \in Nat
  BY BoundAssumption DEF Stored, Ids, Table
<1>2. IsFiniteSet(1 .. Len(rows))
  BY <1>1, FS_Interval
<1>3. S \in SUBSET (1 .. Len(rows))
  BY <1>1
<1>4. IsFiniteSet(S)
  BY <1>2, <1>3, FS_Subset
<1>5. Cardinality(S) \in Nat
  BY <1>4, FS_CardinalityType
<1>6. Ids \subseteq 1 .. MaxRows
  BY <1>1 DEF Stored
<1> QED BY <1>1, <1>4, <1>5, <1>6

\* A page of ListItems is a stretch of ranks.
LEMMA PageIsStretch ==
  ASSUME Stored, NEW S \in SUBSET Ids, NEW size, NEW offset
  PROVE  /\ Page(S, size, offset) = Stretch(Prec, S, size, offset)
         /\ StrictOrder(Prec, S)
<1>1. ASSUME NEW i \in S, NEW j \in S
      PROVE  Before(j, i) <=> <<j, i>> \in Prec
  <2>1. i \in DOMAIN rows /\ j \in DOMAIN rows
    BY DEF Ids
  <2>2. <<j, i>> \in Prec <=> Earlier(rows, serverZone, newerFirst, j, i)
    BY <2>1, InOrder DEF Prec
  <2>3. Before(j, i) <=> Earlier(rows, serverZone, newerFirst, j, i)
    BY DEF Before, Earlier, Text
  <2> QED BY <2>2, <2>3
<1>2. ASSUME NEW i \in S PROVE {j \in S : Before(j, i)} = Ahead(Prec, S, i)
  BY <1>1 DEF Ahead
<1>3. Page(S, size, offset) = Stretch(Prec, S, size, offset)
  BY <1>2 DEF Page, Stretch, Rank
<1>4. StrictOrder(Prec, S)
  BY OrderStrict DEF Prec, Stored, Ids
<1> QED BY <1>3, <1>4

\* Page sizes: what a walk asks for is what ListItems gives.
LEMMA PageSizes ==
  /\ \A n \in Int : parsePageSize(n) \in 1 .. Cap
  /\ \A n \in 1 .. Cap : pageSize(n) = n
  /\ sweepPageSize \in 1 .. Cap /\ pageSize(1000) = Cap /\ Cap \in Nat
BY PageAssumption DEF parsePageSize, pageSize, sweepPageSize

-----------------------------------------------------------------------------
(***************************************************************************)
(* Where texts agree with the clock.                                       *)
(***************************************************************************)
Apart(t, u, here, zone) ==
  LET apart == IF second(t) > second(u) THEN second(t) - second(u) ELSE second(u) - second(t)
  IN  IF zone = here THEN here = "+" \/ apart > 0 ELSE apart > ZoneShift

LEMMA FirstCharacter ==
  ASSUME NEW t \in Nat, NEW u \in Nat, NEW here, NEW zone, Local(t, here) < Local(u, zone)
  PROVE  /\ TextLess(formatTime(t, here), formatTime(u, zone))
         /\ ~ TextLess(formatTime(u, zone), formatTime(t, here))
<1>1. PICK s : s = formatTime(t, here)
  OBVIOUS
<1>2. PICK r : r = formatTime(u, zone)
  OBVIOUS
<1>3. Spelled(s, Local(t, here), Mark(here), t % 4) /\ Spelled(r, Local(u, zone), Mark(zone), u % 4)
  BY <1>1, <1>2, Spelling
<1>4. t % 4 \in {0, 1, 2, 3} /\ u % 4 \in {0, 1, 2, 3}
  OBVIOUS
<1>5. s \in Seq(Int) /\ r \in Seq(Int) /\ Len(s) >= 1 /\ Len(r) >= 1 /\ s[1] < r[1]
  <2>1. PICK a : a = Local(t, here)
    OBVIOUS
  <2>2. PICK b : b = Local(u, zone)
    OBVIOUS
  <2>3. s[1] = a /\ r[1] = b /\ s \in Seq(Int) /\ r \in Seq(Int)
    BY <1>3, <2>1, <2>2 DEF Spelled
  <2>4. Len(s) >= 1
    BY <1>3, <1>4 DEF Spelled
  <2>5. Len(r) >= 1
    BY <1>3, <1>4 DEF Spelled
  <2> QED BY <2>1, <2>2, <2>3, <2>4, <2>5
<1>6. TextLess(s, r)
  BY <1>5, DifferAt
<1>7. ~ TextLess(r, s)
  BY <1>5, <1>6, TextLessStrict
<1> QED BY <1>1, <1>2, <1>6, <1>7

LEMMA TextFollowsClock ==
  ASSUME NEW t \in Nat, NEW u \in Nat, NEW here \in {"Z", "+"}, NEW zone \in {"Z", "+"},
         Apart(t, u, here, zone)
  PROVE  /\ TextLess(formatTime(t, here), formatTime(u, zone)) <=> t < u
         /\ TextLess(formatTime(u, zone), formatTime(t, here)) <=> u < t
<1>1. /\ second(t) \in Nat /\ t % 4 \in 0 .. 3 /\ t = 4 * second(t) + (t % 4)
      /\ second(u) \in Nat /\ u % 4 \in 0 .. 3 /\ u = 4 * second(u) + (u % 4)
      /\ ZoneShift \in Nat
  BY KeyFacts, ZoneAssumption
<1>2. CASE zone = here /\ here = "+"
  <2>1. Key(t, zone) = t /\ Key(u, zone) = u
    BY <1>2, KeyFacts
  <2>2. /\ TextLess(formatTime(t, zone), formatTime(u, zone)) <=> Key(t, zone) < Key(u, zone)
        /\ TextLess(formatTime(u, zone), formatTime(t, zone)) <=> Key(u, zone) < Key(t, zone)
    BY TextOrder
  <2> QED BY <1>2, <2>1, <2>2
<1>3. CASE ~ (zone = here /\ here = "+")
  <2>1. /\ second(t) < second(u) \/ second(u) < second(t)
        /\ second(t) < second(u) => Local(t, here) < Local(u, zone)
        /\ second(u) < second(t) => Local(u, zone) < Local(t, here)
    <3>1. CASE zone = here
      BY <1>1, <1>3, <3>1 DEF Apart, Local
    <3>2. CASE zone # here /\ here = "+"
      <4>1. /\ second(u) < second(t) => second(t) - second(u) > ZoneShift
            /\ ~ (second(u) < second(t)) => second(u) - second(t) > ZoneShift
        BY <1>1, <3>2 DEF Apart
      <4>2. Local(t, here) = second(t) + ZoneShift /\ Local(u, zone) = second(u)
        BY <3>2 DEF Local
      <4> QED BY <1>1, <4>1, <4>2
    <3>3. CASE zone # here /\ zone = "+"
      <4>1. /\ second(u) < second(t) => second(t) - second(u) > ZoneShift
            /\ ~ (second(u) < second(t)) => second(u) - second(t) > ZoneShift
        BY <1>1, <3>3 DEF Apart
      <4>2. Local(t, here) = second(t) /\ Local(u, zone) = second(u) + ZoneShift
        BY <3>3 DEF Local
      <4> QED BY <1>1, <4>1, <4>2
    <3> QED BY <3>1, <3>2, <3>3
  <2>2. CASE second(t) < second(u)
    <3>1. t < u /\ ~ (u < t)
      BY <1>1, <2>2
    <3>2. /\ TextLess(formatTime(t, here), formatTime(u, zone))
          /\ ~ TextLess(formatTime(u, zone), formatTime(t, here))
      BY <2>1, <2>2, FirstCharacter
    <3> QED BY <3>1, <3>2
  <2>3. CASE second(u) < second(t)
    <3>1. u < t /\ ~ (t < u)
      BY <1>1, <2>3
    <3>2. /\ TextLess(formatTime(u, zone), formatTime(t, here))
          /\ ~ TextLess(formatTime(t, here), formatTime(u, zone))
      BY <2>1, <2>3, FirstCharacter
    <3> QED BY <3>1, <3>2
  <2> QED BY <2>1, <2>2, <2>3
<1> QED BY <1>2, <1>3

-----------------------------------------------------------------------------
(***************************************************************************)
(* The invariant holds initially, and the writers keep it.                 *)
(***************************************************************************)
Exports(table, here, w, zone) ==
  {i \in DOMAIN table : /\ ~ TextLess(formatTime(table[i].at, here), formatTime(w[1], zone))
                        /\ ~ TextLess(formatTime(w[2], zone), formatTime(table[i].at, here))}

LEMMA InitInv == Init => Inv
<1> SUFFICES ASSUME Init PROVE Inv
  OBVIOUS
<1>1. reader.pc = "idle" /\ rows = <<>> /\ serverZone \in Zones /\ newerFirst \in BOOLEAN
  BY DEF Init, Idle
<1>2. rows \in Table /\ Len(rows) <= MaxRows
  BY <1>1, BoundAssumption DEF Table
<1> QED BY <1>1, <1>2 DEF Inv, Stored, WalkPaid, ExportOpen, ExportKnown, WalkAccountsForMoves,
                           ExportFollowsTheClock

\* What a change of the table leaves alone: finished walks, exports, and the
\* times of the rows they know.
LEMMA WritersLeave ==
  ASSUME Inv, UNCHANGED host, rows' \in Table, Len(rows') <= MaxRows,
         DOMAIN rows \subseteq DOMAIN rows', \A i \in DOMAIN rows : rows'[i].at = rows[i].at,
         reader.pc # "walk" => reader' = reader, reader.pc = "walk" => reader'.pc = "walk"
  PROVE  Stored' /\ ExportOpen' /\ ExportKnown' /\ WalkAccountsForMoves' /\ ExportFollowsTheClock'
<1>1. serverZone' = serverZone /\ newerFirst' = newerFirst
  BY DEF host
<1>2. Stored'
  BY <1>1 DEF Inv, Stored
<1>3. ExportKnown'
  BY DEF Inv, ExportKnown, Ids
<1>4. WalkAccountsForMoves'
  BY DEF Inv, WalkAccountsForMoves
<1>5. ExportOpen'
  <2> SUFFICES ASSUME reader'.pc = "export" PROVE ExportOpen'
    BY DEF ExportOpen
  <2>1. reader.pc = "export" /\ reader' = reader
    OBVIOUS
  <2>2. PICK w \in Nat \X Nat, zone \in Zones, n \in Nat :
            w = reader.window /\ zone = reader.zone /\ n = reader.total
    BY <2>1 DEF Inv, ExportOpen
  <2>3. n <= Cardinality(Exports(rows, serverZone, w, zone))
    <3>1. Exportable(w, zone) = Exports(rows, serverZone, w, zone)
      BY DEF Exportable, Exports, InWindow, Text, Ids
    <3> QED BY <2>1, <2>2, <3>1 DEF Inv, ExportOpen
  <2>4. Exports(rows, serverZone, w, zone) \subseteq Exports(rows', serverZone, w, zone)
    BY DEF Exports
  <2>5. IsFiniteSet(Exports(rows', serverZone, w, zone))
    <3>1. DOMAIN rows' = 1 .. Len(rows') /\ Len(rows') \in Nat
      BY DEF Table
    <3>2. IsFiniteSet(1 .. Len(rows'))
      BY <3>1, FS_Interval
    <3>3. Exports(rows', serverZone, w, zone) \in SUBSET (1 .. Len(rows'))
      BY <3>1 DEF Exports
    <3> QED BY <3>2, <3>3, FS_Subset
  <2>6. n <= Cardinality(Exports(rows', serverZone, w, zone))
    <3>1. /\ Cardinality(Exports(rows, serverZone, w, zone)) \in Nat
          /\ Cardinality(Exports(rows', serverZone, w, zone)) \in Nat
          /\ Cardinality(Exports(rows, serverZone, w, zone))
               <= Cardinality(Exports(rows', serverZone, w, zone))
      BY <2>4, <2>5, SizeOfPart
    <3> QED BY <2>3, <3>1
  <2>7. Exportable(reader.window, reader.zone)' = Exports(rows', serverZone, w, zone)
    BY <1>1, <2>1, <2>2 DEF Exportable, Exports, InWindow, Text, Ids
  <2>8. /\ reader.window \in Nat \X Nat /\ reader.zone \in Zones /\ reader.known \subseteq DOMAIN rows
        /\ reader.total \in Nat
    BY <2>1 DEF Inv, ExportOpen, Ids
  <2> QED BY <2>1, <2>2, <2>6, <2>7, <2>8 DEF ExportOpen, Ids
<1>6. ExportFollowsTheClock'
  <2> SUFFICES ASSUME reader'.pc = "exported" PROVE ExportFollowsTheClock'
    BY DEF ExportFollowsTheClock
  <2>1. reader.pc = "exported" /\ reader' = reader
    OBVIOUS
  <2>2. ExportFollowsTheClock
    BY DEF Inv
  <2>3. \A i \in reader.known : rows'[i].at = rows[i].at
    BY <2>1 DEF Inv, ExportKnown, Ids
  <2> QED BY <1>1, <2>1, <2>2, <2>3 DEF ExportFollowsTheClock, Clear
<1> QED BY <1>2, <1>3, <1>4, <1>5, <1>6

Noted(r, stable, left, came) == [r EXCEPT !.stable = stable, !.left = left, !.came = came]

LEMMA Watched ==
  ASSUME NEW r \in WalkState, NEW stable, stable \subseteq 1 .. MaxRows, NEW left \in Nat, NEW came \in Nat
  PROVE  LET q == Noted(r, stable, left, came)
         IN  /\ q \in WalkState /\ q.stable = stable /\ q.seen = r.seen /\ q.offset = r.offset
             /\ q.left = left /\ q.came = came
<1>1. PICK R : R = SUBSET (1 .. MaxRows)
  OBVIOUS
<1>2. PICK F : F = [1 .. MaxRows -> Nat]
  OBVIOUS
<1>3. PICK Sizes : Sizes = 1 .. Cap
  OBVIOUS
<1>4. WalkState = [pc : {"walk"}, size : Sizes, offset : Nat, seen : F, stable : R, left : Nat, came : Nat]
  BY <1>1, <1>2, <1>3 DEF WalkState
<1>5. stable \in R
  BY <1>1
<1> QED BY <1>4, <1>5 DEF Noted

\* A row comes into the filter of a walk.
LEMMA WalkGains ==
  ASSUME Inv, UNCHANGED host, rows' \in Table, DOMAIN rows \subseteq DOMAIN rows',
         \A i \in DOMAIN rows : rows'[i].at = rows[i].at,
         NEW x \in DOMAIN rows', x \notin Matching, Matching' = Matching \cup {x},
         Watch({}, 1)
  PROVE  WalkPaid' /\ (reader.pc = "walk" => reader'.pc = "walk")
<1> SUFFICES ASSUME reader.pc = "walk" PROVE WalkPaid' /\ reader'.pc = "walk"
  BY DEF WalkPaid, Watch, Walking
<1>1. /\ Stored /\ reader \in WalkState /\ reader.stable \subseteq Matching
      /\ Cardinality(Missed(Prec, Matching, reader.stable, reader.seen, reader.offset)) <= reader.left
      /\ Cardinality(Repeats(reader.seen)) + Cardinality(Due(Prec, Matching, reader.seen, reader.offset))
           <= reader.came
  BY DEF Inv, WalkPaid
<1>2. reader' = [reader EXCEPT !.stable = @ \ {}, !.left = @ + Cardinality({}), !.came = @ + 1]
  BY DEF Watch, Walking
<1>3. Cardinality({}) = 0
  BY FS_EmptySet
<1>4. /\ reader' \in WalkState /\ reader'.stable = reader.stable /\ reader'.seen = reader.seen
      /\ reader'.offset = reader.offset /\ reader'.left = reader.left /\ reader'.came = reader.came + 1
  <2>1. reader.stable \subseteq 1 .. MaxRows /\ reader.left \in Nat /\ reader.came \in Nat
    BY <1>1 DEF WalkState
  <2>2. PICK stable : stable = reader.stable
    OBVIOUS
  <2>3. PICK left \in Nat : left = reader.left
    BY <2>1
  <2>4. PICK came \in Nat : came = reader.came + 1
    BY <2>1
  <2>5. reader' = Noted(reader, stable, left, came)
    <3>1. stable = reader.stable \ {} /\ left = reader.left + Cardinality({})
      BY <1>3, <2>1, <2>2, <2>3, <2>4
    <3> QED BY <1>2, <2>2, <2>3, <2>4, <3>1 DEF Noted
  <2>6. stable \subseteq 1 .. MaxRows
    BY <2>1, <2>2
  <2> QED BY <1>1, <2>2, <2>3, <2>4, <2>5, <2>6, Watched
<1>5. PICK S : S = Matching
  OBVIOUS
<1>6. PICK P : P = Order(rows, serverZone, newerFirst)
  OBVIOUS
<1>7. PICK Q : Q = Order(rows', serverZone, newerFirst)
  OBVIOUS
<1>8. Prec = P /\ Prec' = Q /\ Matching' = S \cup {x}
  BY <1>5, <1>6, <1>7 DEF Prec, host
<1>9. S \in SUBSET DOMAIN rows /\ S \cup {x} \in SUBSET DOMAIN rows'
  BY <1>5 DEF Matching, Ids
<1>10. StrictOrder(P, S)
  BY <1>1, <1>6, <1>9, OrderStrict DEF Stored
<1>11. StrictOrder(Q, S \cup {x})
  BY <1>1, <1>7, <1>9, OrderStrict DEF Stored
<1>12. \A i, j \in S : <<j, i>> \in Q <=> <<j, i>> \in P
  BY <1>6, <1>7, <1>9, OrderKept
<1>13. IsFiniteSet(S) /\ x \notin S
  BY <1>1, <1>5, <1>9, RowsFinite DEF Ids
<1>14. PICK stable \in SUBSET S : stable = reader.stable
  BY <1>1, <1>5
<1>15. PICK offset \in Nat : offset = reader.offset
  BY <1>1 DEF WalkState
<1>16. PICK seen : seen = reader.seen
  OBVIOUS
<1>17. /\ Cardinality(Missed(Q, S \cup {x}, stable, seen, offset))
            <= Cardinality(Missed(P, S, stable, seen, offset))
       /\ Cardinality(Due(Q, S \cup {x}, seen, offset)) <= Cardinality(Due(P, S, seen, offset)) + 1
  BY <1>10, <1>11, <1>12, <1>13, RowComes
<1>18. /\ Cardinality(Missed(P, S, stable, seen, offset)) \in Nat
       /\ Cardinality(Due(P, S, seen, offset)) \in Nat
       /\ Cardinality(Missed(Q, S \cup {x}, stable, seen, offset)) \in Nat
       /\ Cardinality(Due(Q, S \cup {x}, seen, offset)) \in Nat
       /\ Cardinality(Repeats(seen)) \in Nat
  <2>1. IsFiniteSet(S \cup {x}) /\ stable \in SUBSET (S \cup {x})
    BY <1>13, FS_AddElement
  <2> QED BY <1>13, <2>1, AccountIsFinite, RepeatsFinite
<1>19. reader.left \in Nat /\ reader.came \in Nat
  BY <1>1 DEF WalkState
<1>20. Cardinality(Missed(Q, S \cup {x}, stable, seen, offset)) <= reader.left
  BY <1>1, <1>5, <1>8, <1>14, <1>15, <1>16, <1>17, <1>18, <1>19
<1>21. Cardinality(Repeats(seen)) + Cardinality(Due(Q, S \cup {x}, seen, offset)) <= reader.came + 1
  <2>1. Cardinality(Repeats(seen)) + Cardinality(Due(P, S, seen, offset)) <= reader.came
    BY <1>1, <1>5, <1>8, <1>15, <1>16
  <2> QED BY <2>1, <1>17, <1>18, <1>19
<1>22. reader'.stable \subseteq Matching'
  BY <1>4, <1>8, <1>14
<1>23. reader'.pc = "walk"
  BY <1>4 DEF WalkState
<1>24. Missed(Prec, Matching, reader.stable, reader.seen, reader.offset)'
         = Missed(Q, S \cup {x}, stable, seen, offset)
  BY <1>4, <1>8, <1>14, <1>15, <1>16
<1>25. Due(Prec, Matching, reader.seen, reader.offset)' = Due(Q, S \cup {x}, seen, offset)
  BY <1>4, <1>8, <1>15, <1>16
<1>26. Repeats(reader.seen)' = Repeats(seen)
  BY <1>4, <1>16
<1> QED BY <1>4, <1>20, <1>21, <1>22, <1>23, <1>24, <1>25, <1>26 DEF WalkPaid, WalkState

\* A row leaves the filter of a walk.
LEMMA WalkLoses ==
  ASSUME Inv, UNCHANGED host, rows' \in Table, DOMAIN rows = DOMAIN rows',
         \A i \in DOMAIN rows : rows'[i].at = rows[i].at,
         NEW x \in Matching, Matching' = Matching \ {x},
         Watch({x}, 0)
  PROVE  WalkPaid' /\ (reader.pc = "walk" => reader'.pc = "walk")
<1> SUFFICES ASSUME reader.pc = "walk" PROVE WalkPaid' /\ reader'.pc = "walk"
  BY DEF WalkPaid, Watch, Walking
<1>1. /\ Stored /\ reader \in WalkState /\ reader.stable \subseteq Matching
      /\ Cardinality(Missed(Prec, Matching, reader.stable, reader.seen, reader.offset)) <= reader.left
      /\ Cardinality(Repeats(reader.seen)) + Cardinality(Due(Prec, Matching, reader.seen, reader.offset))
           <= reader.came
  BY DEF Inv, WalkPaid
<1>2. reader' = [reader EXCEPT !.stable = @ \ {x}, !.left = @ + Cardinality({x}), !.came = @ + 0]
  BY DEF Watch, Walking
<1>3. Cardinality({x}) = 1
  BY FS_Singleton
<1>4. /\ reader' \in WalkState /\ reader'.stable = reader.stable \ {x} /\ reader'.seen = reader.seen
      /\ reader'.offset = reader.offset /\ reader'.left = reader.left + 1 /\ reader'.came = reader.came
  <2>1. reader.stable \subseteq 1 .. MaxRows /\ reader.left \in Nat /\ reader.came \in Nat
    BY <1>1 DEF WalkState
  <2>2. PICK stable : stable = reader.stable \ {x}
    OBVIOUS
  <2>3. PICK left \in Nat : left = reader.left + 1
    BY <2>1
  <2>4. PICK came \in Nat : came = reader.came
    BY <2>1
  <2>5. reader' = Noted(reader, stable, left, came)
    <3>1. left = reader.left + Cardinality({x}) /\ came = reader.came + 0
      BY <1>3, <2>1, <2>2, <2>3, <2>4
    <3> QED BY <1>2, <2>2, <2>3, <2>4, <3>1 DEF Noted
  <2>6. stable \subseteq 1 .. MaxRows
    BY <2>1, <2>2
  <2> QED BY <1>1, <2>2, <2>3, <2>4, <2>5, <2>6, Watched
<1>5. PICK S : S = Matching
  OBVIOUS
<1>6. PICK P : P = Order(rows, serverZone, newerFirst)
  OBVIOUS
<1>7. P = Order(rows', serverZone, newerFirst)
  BY <1>6, OrderKept
<1>8. Prec = P /\ Prec' = P /\ Matching' = S \ {x}
  BY <1>5, <1>6, <1>7 DEF Prec, host
<1>9. S \in SUBSET DOMAIN rows
  BY <1>5 DEF Matching, Ids
<1>10. StrictOrder(P, S)
  BY <1>1, <1>6, <1>9, OrderStrict DEF Stored
<1>13. IsFiniteSet(S) /\ x \in S
  BY <1>1, <1>5, <1>9, RowsFinite DEF Ids
<1>14. PICK stable \in SUBSET S : stable = reader.stable
  BY <1>1, <1>5
<1>15. PICK offset \in Nat : offset = reader.offset
  BY <1>1 DEF WalkState
<1>16. PICK seen : seen = reader.seen
  OBVIOUS
<1>17. /\ Cardinality(Missed(P, S \ {x}, stable \ {x}, seen, offset))
            <= Cardinality(Missed(P, S, stable, seen, offset)) + 1
       /\ Cardinality(Due(P, S \ {x}, seen, offset)) <= Cardinality(Due(P, S, seen, offset))
  BY <1>10, <1>13, RowLeaves
<1>18. /\ Cardinality(Missed(P, S, stable, seen, offset)) \in Nat
       /\ Cardinality(Due(P, S, seen, offset)) \in Nat
       /\ Cardinality(Missed(P, S \ {x}, stable \ {x}, seen, offset)) \in Nat
       /\ Cardinality(Due(P, S \ {x}, seen, offset)) \in Nat
       /\ Cardinality(Repeats(seen)) \in Nat
  <2>1. IsFiniteSet(S \ {x}) /\ stable \ {x} \in SUBSET (S \ {x})
    BY <1>13, FS_RemoveElement
  <2> QED BY <1>13, <2>1, AccountIsFinite, RepeatsFinite
<1>19. reader.left \in Nat /\ reader.came \in Nat
  BY <1>1 DEF WalkState
<1>20. Cardinality(Missed(P, S \ {x}, stable \ {x}, seen, offset)) <= reader.left + 1
  <2>1. Cardinality(Missed(P, S, stable, seen, offset)) <= reader.left
    BY <1>1, <1>5, <1>8, <1>14, <1>15, <1>16
  <2> QED BY <2>1, <1>17, <1>18, <1>19
<1>21. Cardinality(Repeats(seen)) + Cardinality(Due(P, S \ {x}, seen, offset)) <= reader.came
  <2>1. Cardinality(Repeats(seen)) + Cardinality(Due(P, S, seen, offset)) <= reader.came
    BY <1>1, <1>5, <1>8, <1>15, <1>16
  <2> QED BY <2>1, <1>17, <1>18, <1>19
<1>22. reader'.stable \subseteq Matching'
  BY <1>4, <1>8, <1>14
<1>23. reader'.pc = "walk"
  BY <1>4 DEF WalkState
<1>24. Missed(Prec, Matching, reader.stable, reader.seen, reader.offset)'
         = Missed(P, S \ {x}, stable \ {x}, seen, offset)
  BY <1>4, <1>8, <1>14, <1>15, <1>16
<1>25. Due(Prec, Matching, reader.seen, reader.offset)' = Due(P, S \ {x}, seen, offset)
  BY <1>4, <1>8, <1>15, <1>16
<1>26. Repeats(reader.seen)' = Repeats(seen)
  BY <1>4, <1>16
<1> QED BY <1>4, <1>20, <1>21, <1>22, <1>23, <1>24, <1>25, <1>26 DEF WalkPaid, WalkState

LEMMA RegisterInv == Inv /\ Register => Inv'
<1> SUFFICES ASSUME Inv, Register PROVE Inv'
  OBVIOUS
<1>1. PICK t \in Instants : rows' = Append(rows, [at |-> t, match |-> TRUE])
  BY DEF Register
<1>2. PICK R : R = [at : Nat, match : BOOLEAN]
  OBVIOUS
<1>3. PICK q : q = [at |-> t, match |-> TRUE]
  OBVIOUS
<1>4. q \in R /\ q.match = TRUE
  <2>1. t \in Nat
    BY BoundAssumption
  <2> QED BY <1>2, <1>3, <2>1
<1>5. rows \in Seq(R) /\ Table = Seq(R) /\ Stored
  BY <1>2 DEF Inv, Stored, Table
<1>6. PICK n \in Nat : n = Len(rows)
  BY <1>5
<1>7. /\ rows' \in Seq(R) /\ Len(rows') = n + 1 /\ rows'[n + 1] = q
      /\ DOMAIN rows = 1 .. n /\ DOMAIN rows' = 1 .. n + 1
      /\ \A i \in 1 .. n : rows'[i] = rows[i]
  BY <1>1, <1>3, <1>4, <1>5, <1>6
<1>8. rows' \in Table /\ Len(rows') <= MaxRows
  <2>1. n < MaxRows
    BY <1>6 DEF Register
  <2> QED BY <1>5, <1>7, <2>1, BoundAssumption
<1>9. DOMAIN rows \subseteq DOMAIN rows' /\ n + 1 \in DOMAIN rows' /\ n + 1 \notin DOMAIN rows
  BY <1>7
<1>10. \A i \in DOMAIN rows : rows'[i].at = rows[i].at
  BY <1>7
<1>11. n + 1 \notin Matching /\ Matching' = Matching \cup {n + 1}
  <2>1. n + 1 \notin Matching
    BY <1>9 DEF Matching, Ids
  <2>2. \A i \in DOMAIN rows' : i = n + 1 \/ i \in DOMAIN rows
    BY <1>7
  <2>3. rows'[n + 1].match
    BY <1>4, <1>7
  <2>4. \A i \in DOMAIN rows : rows'[i] = rows[i]
    BY <1>7
  <2>5. Matching' = {i \in DOMAIN rows' : rows'[i].match} /\ Matching = {i \in DOMAIN rows : rows[i].match}
    BY DEF Matching, Ids
  <2> QED BY <1>9, <2>1, <2>2, <2>3, <2>4, <2>5
<1>12. Watch({}, 1) /\ UNCHANGED host
  BY DEF Register
<1>13. WalkPaid' /\ (reader.pc = "walk" => reader'.pc = "walk")
  BY <1>8, <1>9, <1>10, <1>11, <1>12, WalkGains
<1>14. reader.pc # "walk" => reader' = reader
  BY <1>12 DEF Watch, Walking
<1>15. Stored' /\ ExportOpen' /\ ExportKnown' /\ WalkAccountsForMoves' /\ ExportFollowsTheClock'
  BY <1>8, <1>9, <1>10, <1>12, <1>13, <1>14, WritersLeave
<1> QED BY <1>13, <1>15 DEF Inv

LEMMA MoveInv ==
  ASSUME Inv, NEW x \in Ids, Move(x)
  PROVE  Inv'
<1>1. rows' = [rows EXCEPT ![x].match = ~@] /\ UNCHANGED host
  BY DEF Move
<1>2. PICK R : R = [at : Nat, match : BOOLEAN]
  OBVIOUS
<1>3. rows \in Seq(R) /\ Table = Seq(R) /\ Stored
  BY <1>2 DEF Inv, Stored, Table
<1>4. PICK n \in Nat : n = Len(rows) /\ DOMAIN rows = 1 .. n
  BY <1>3
<1>5. PICK q : q = [rows[x] EXCEPT !.match = ~@]
  OBVIOUS
<1>6. q \in R /\ q.at = rows[x].at /\ (q.match <=> ~ rows[x].match)
  <2>1. rows[x] \in R
    BY <1>3 DEF Ids
  <2> QED BY <1>2, <1>5, <2>1
<1>7. rows' = [rows EXCEPT ![x] = q]
  BY <1>1, <1>5
<1>8. /\ rows' \in Seq(R) /\ Len(rows') = n /\ DOMAIN rows' = 1 .. n /\ rows'[x] = q
      /\ \A i \in 1 .. n : i # x => rows'[i] = rows[i]
  BY <1>3, <1>4, <1>6, <1>7 DEF Ids
<1>9. rows' \in Table /\ Len(rows') <= MaxRows /\ DOMAIN rows = DOMAIN rows'
  BY <1>3, <1>4, <1>8 DEF Stored
<1>10. \A i \in DOMAIN rows : rows'[i].at = rows[i].at
  BY <1>4, <1>6, <1>8
<1>11. Matching' = {i \in DOMAIN rows : rows'[i].match} /\ Matching = {i \in DOMAIN rows : rows[i].match}
  BY <1>9 DEF Matching, Ids
<1>12. x \in DOMAIN rows /\ (rows'[x].match <=> ~ rows[x].match)
  BY <1>6, <1>8 DEF Ids
<1>13. \A i \in DOMAIN rows : i # x => rows'[i] = rows[i]
  BY <1>4, <1>8
<1>14. WalkPaid' /\ (reader.pc = "walk" => reader'.pc = "walk") /\ (reader.pc # "walk" => reader' = reader)
  <2>1. CASE rows[x].match
    <3>1. x \in Matching /\ Matching' = Matching \ {x}
      BY <2>1, <1>11, <1>12, <1>13
    <3>2. Watch({x}, 0)
      BY <2>1 DEF Move
    <3>3. WalkPaid' /\ (reader.pc = "walk" => reader'.pc = "walk")
      BY <1>1, <1>9, <1>10, <3>1, <3>2, WalkLoses
    <3> QED BY <3>2, <3>3 DEF Watch, Walking
  <2>2. CASE ~ rows[x].match
    <3>1. x \notin Matching /\ Matching' = Matching \cup {x}
      BY <2>2, <1>11, <1>12, <1>13
    <3>2. Watch({}, 1)
      BY <2>2 DEF Move
    <3>3. WalkPaid' /\ (reader.pc = "walk" => reader'.pc = "walk")
      BY <1>1, <1>9, <1>10, <1>12, <3>1, <3>2, WalkGains
    <3> QED BY <3>2, <3>3 DEF Watch, Walking
  <2> QED BY <2>1, <2>2
<1>15. Stored' /\ ExportOpen' /\ ExportKnown' /\ WalkAccountsForMoves' /\ ExportFollowsTheClock'
  BY <1>1, <1>9, <1>10, <1>14, WritersLeave
<1> QED BY <1>14, <1>15 DEF Inv

-----------------------------------------------------------------------------
(***************************************************************************)
(* The readers keep the invariant.                                         *)
(***************************************************************************)
LEMMA StartWalkInv == Inv /\ StartWalk => Inv'
<1> SUFFICES ASSUME Inv, StartWalk PROVE Inv'
  OBVIOUS
<1>1. PICK size \in {sweepPageSize} \cup {parsePageSize(n) : n \in Asked} :
          reader' = [pc |-> "walk", size |-> size, offset |-> 0,
                     seen |-> [i \in 1 .. MaxRows |-> 0],
                     stable |-> Matching, left |-> 0, came |-> 0]
  BY DEF StartWalk
<1>2. serverZone' = serverZone /\ newerFirst' = newerFirst /\ rows' = rows
  BY DEF StartWalk, host
<1>3. PICK S : S = Matching
  OBVIOUS
<1>4. PICK seen \in [1 .. MaxRows -> Nat] : seen = [i \in 1 .. MaxRows |-> 0]
  OBVIOUS
<1>5. PICK P : P = Prec
  OBVIOUS
<1>6. Matching' = S /\ Prec' = P
  BY <1>2, <1>3, <1>5 DEF Matching, Ids, Prec
<1>7. S \subseteq 1 .. MaxRows /\ IsFiniteSet(S)
  <2>1. Stored /\ S \in SUBSET Ids
    BY <1>3 DEF Inv, Matching
  <2> QED BY <2>1, RowsFinite
<1>8. size \in 1 .. Cap
  BY PageSizes, PageAssumption
<1>9. /\ reader'.pc = "walk" /\ reader'.size = size /\ reader'.offset = 0 /\ reader'.seen = seen
      /\ reader'.stable = S /\ reader'.left = 0 /\ reader'.came = 0
  BY <1>1, <1>3, <1>4
<1>10. reader' \in WalkState
  <2>1. PICK R : R = SUBSET (1 .. MaxRows)
    OBVIOUS
  <2>2. PICK F : F = [1 .. MaxRows -> Nat]
    OBVIOUS
  <2>3. PICK Sizes : Sizes = 1 .. Cap
    OBVIOUS
  <2>4. WalkState = [pc : {"walk"}, size : Sizes, offset : Nat, seen : F, stable : R, left : Nat, came : Nat]
    BY <2>1, <2>2, <2>3 DEF WalkState
  <2>5. S \in R /\ seen \in F /\ size \in Sizes
    BY <1>4, <1>7, <1>8, <2>1, <2>2, <2>3
  <2>6. reader' = [pc |-> "walk", size |-> size, offset |-> 0, seen |-> seen,
                   stable |-> S, left |-> 0, came |-> 0]
    BY <1>1, <1>3, <1>4
  <2> QED BY <2>4, <2>5, <2>6
<1>11. Missed(P, S, S, seen, 0) = {}
  <2>1. \A i \in S : Rank(P, S, i) \in Nat
    BY <1>7, RankType
  <2>2. \A i \in S : ~ (Rank(P, S, i) < 0)
    BY <2>1
  <2> QED BY <2>2 DEF Missed
<1>12. Due(P, S, seen, 0) = {}
  <2>1. \A i \in S : ~ (seen[i] > 0)
    BY <1>4, <1>7
  <2> QED BY <2>1 DEF Due
<1>13. Repeats(seen) = {}
  <2> SUFFICES ASSUME NEW p \in (1 .. MaxRows) \X (2 .. MaxRows + 2) PROVE ~ (p[2] <= seen[p[1]])
    BY DEF Repeats
  <2>1. PICK i \in 1 .. MaxRows, k \in 2 .. MaxRows + 2 : p = <<i, k>>
    OBVIOUS
  <2>2. seen[i] = 0 /\ k >= 2 /\ k \in Nat
    BY <1>4, <2>1, BoundAssumption
  <2> QED BY <2>1, <2>2
<1>14. Cardinality({}) = 0
  BY FS_EmptySet
<1>15. WalkPaid'
  <2>1. Cardinality(Missed(P, S, S, seen, 0)) <= 0
    BY <1>11, <1>14
  <2>2. Cardinality(Repeats(seen)) + Cardinality(Due(P, S, seen, 0)) <= 0
    <3>1. Cardinality(Repeats(seen)) = 0 /\ Cardinality(Due(P, S, seen, 0)) = 0
      BY <1>12, <1>13, <1>14
    <3> QED BY <3>1
  <2>3. reader'.stable \subseteq Matching'
    BY <1>6, <1>9
  <2> QED BY <1>6, <1>9, <1>10, <2>1, <2>2, <2>3 DEF WalkPaid
<1>16. Stored'
  BY <1>2 DEF Inv, Stored
<1> QED BY <1>9, <1>15, <1>16 DEF Inv, ExportOpen, ExportKnown, WalkAccountsForMoves, ExportFollowsTheClock

\* A page of a walk.  Behind a short page lies nothing: whoever is unseen
\* then is missed.
LEMMA ListItemsInv == Inv /\ ListItems => Inv'
<1> SUFFICES ASSUME Inv, ListItems PROVE Inv'
  OBVIOUS
<1>1. /\ Stored /\ reader \in WalkState /\ reader.stable \subseteq Matching
      /\ Cardinality(Missed(Prec, Matching, reader.stable, reader.seen, reader.offset)) <= reader.left
      /\ Cardinality(Repeats(reader.seen)) + Cardinality(Due(Prec, Matching, reader.seen, reader.offset))
           <= reader.came
  BY DEF Inv, WalkPaid, ListItems
<1>2. serverZone' = serverZone /\ newerFirst' = newerFirst /\ rows' = rows
  BY DEF ListItems, host
<1>3. PICK S : S = Matching
  OBVIOUS
<1>4. PICK P : P = Prec
  OBVIOUS
<1>5. Matching' = S /\ Prec' = P
  BY <1>2, <1>3, <1>4 DEF Matching, Ids, Prec
<1>6. S \in SUBSET Ids /\ S \in SUBSET (1 .. MaxRows) /\ IsFiniteSet(S)
  <2>1. S \in SUBSET Ids
    BY <1>3 DEF Matching
  <2> QED BY <1>1, <2>1, RowsFinite
<1>7. PICK size \in 1 .. Cap : size = reader.size
  BY <1>1 DEF WalkState
<1>8. size \in Nat /\ pageSize(size) = size
  BY PageSizes, PageAssumption
<1>9. PICK offset \in Nat : offset = reader.offset
  BY <1>1 DEF WalkState
<1>10. PICK seen \in [1 .. MaxRows -> Nat] : seen = reader.seen
  BY <1>1 DEF WalkState
<1>11. PICK stable \in SUBSET S : stable = reader.stable
  BY <1>1, <1>3
<1>12. PICK left \in Nat, came \in Nat : left = reader.left /\ came = reader.came
  BY <1>1 DEF WalkState
<1>13. PICK page : page = Stretch(P, S, size, offset)
  OBVIOUS
<1>14. Page(Matching, pageSize(reader.size), reader.offset) = page /\ StrictOrder(P, S)
  BY <1>1, <1>3, <1>4, <1>6, <1>7, <1>8, <1>9, <1>13, PageIsStretch
<1>15. PICK new : new = SeenAfter(seen, page)
  OBVIOUS
<1>16. PICK pc : pc = IF Cardinality(page) < size THEN "walked" ELSE "walk"
  OBVIOUS
<1>17. reader' = [reader EXCEPT !.seen = new, !.offset = offset + size, !.pc = pc]
  BY <1>7, <1>9, <1>10, <1>14, <1>15, <1>16 DEF ListItems, SeenAfter
<1>18. /\ new \in [1 .. MaxRows -> Nat]
       /\ Cardinality(Missed(P, S, stable, new, offset + size))
            <= Cardinality(Missed(P, S, stable, seen, offset))
       /\ Cardinality(Repeats(new)) + Cardinality(Due(P, S, new, offset + size))
            <= Cardinality(Repeats(seen)) + Cardinality(Due(P, S, seen, offset))
  BY <1>6, <1>8, <1>13, <1>15, PageRead
<1>19. PICK after \in Nat : after = offset + size
  BY <1>8
<1>20. /\ Cardinality(Missed(P, S, stable, seen, offset)) \in Nat
       /\ Cardinality(Due(P, S, seen, offset)) \in Nat
       /\ IsFiniteSet(Missed(P, S, stable, new, after))
       /\ Cardinality(Missed(P, S, stable, new, after)) \in Nat
       /\ Cardinality(Due(P, S, new, after)) \in Nat
       /\ Cardinality(Repeats(seen)) \in Nat /\ Cardinality(Repeats(new)) \in Nat
  BY <1>6, AccountIsFinite, RepeatsFinite
<1>21. Cardinality(Missed(P, S, stable, new, after)) <= left
  <2>1. Cardinality(Missed(P, S, stable, seen, offset)) <= left
    BY <1>1, <1>3, <1>4, <1>9, <1>10, <1>11, <1>12
  <2> QED BY <2>1, <1>18, <1>19, <1>20
<1>22. Cardinality(Repeats(new)) + Cardinality(Due(P, S, new, after)) <= came
  <2>1. Cardinality(Repeats(seen)) + Cardinality(Due(P, S, seen, offset)) <= came
    BY <1>1, <1>3, <1>4, <1>9, <1>10, <1>12
  <2> QED BY <2>1, <1>18, <1>19, <1>20
<1>23. /\ reader'.pc = pc /\ reader'.size = size /\ reader'.offset = after /\ reader'.seen = new
       /\ reader'.stable = stable /\ reader'.left = left /\ reader'.came = came
       /\ (pc = "walk" => reader' \in WalkState)
  <2>1. PICK R : R = SUBSET (1 .. MaxRows)
    OBVIOUS
  <2>2. PICK F : F = [1 .. MaxRows -> Nat]
    OBVIOUS
  <2>3. PICK Sizes : Sizes = 1 .. Cap
    OBVIOUS
  <2>4. WalkState = [pc : {"walk"}, size : Sizes, offset : Nat, seen : F, stable : R, left : Nat, came : Nat]
    BY <2>1, <2>2, <2>3 DEF WalkState
  <2>5. new \in F
    BY <1>18, <2>2
  <2>6. reader' = [reader EXCEPT !.seen = new, !.offset = after, !.pc = pc]
    BY <1>17, <1>19
  <2> QED BY <1>1, <1>7, <1>11, <1>12, <2>4, <2>5, <2>6
<1>24. WalkPaid'
  <2> SUFFICES ASSUME reader'.pc = "walk" PROVE WalkPaid'
    BY DEF WalkPaid
  <2>1. reader' \in WalkState /\ reader'.stable \subseteq Matching'
    BY <1>5, <1>11, <1>23
  <2> QED BY <1>5, <1>21, <1>22, <1>23, <2>1 DEF WalkPaid
<1>25. ASSUME pc = "walked" PROVE Cardinality({i \in stable : new[i] = 0}) <= left
  <2>1. Cardinality(page) < size
    BY <1>16, <1>25
  <2>2. Cardinality(S) < after
    <3>1. /\ Cardinality(page) \in Nat
          /\ offset + size <= Cardinality(S) => Cardinality(page) = size
      BY <1>6, <1>8, <1>13, <1>14, StretchSize
    <3>2. Cardinality(S) \in Nat
      BY <1>6, FS_CardinalityType
    <3> QED BY <1>8, <1>19, <2>1, <3>1, <3>2
  <2>3. ASSUME NEW i \in stable PROVE Rank(P, S, i) < after
    <3>1. Rank(P, S, i) < Cardinality(S) /\ Rank(P, S, i) \in Nat /\ Cardinality(S) \in Nat
      BY <1>6, <1>14, RankBelowSize, RankType, FS_CardinalityType
    <3> QED BY <2>2, <3>1
  <2>4. {i \in stable : new[i] = 0} \subseteq Missed(P, S, stable, new, after)
    BY <2>3 DEF Missed
  <2>5. /\ Cardinality({i \in stable : new[i] = 0}) \in Nat
        /\ Cardinality({i \in stable : new[i] = 0}) <= Cardinality(Missed(P, S, stable, new, after))
    BY <1>20, <2>4, SizeOfPart
  <2> QED BY <1>20, <1>21, <2>5
<1>26. WalkAccountsForMoves'
  <2>1. Cardinality(Repeats(new)) <= came
    BY <1>20, <1>22
  <2>2. {p \in (1 .. MaxRows) \X (2 .. MaxRows + 2) : p[2] <= new[p[1]]} = Repeats(new)
    BY DEF Repeats
  <2> QED BY <1>23, <1>25, <2>1, <2>2 DEF WalkAccountsForMoves
<1>27. Stored'
  BY <1>1, <1>2 DEF Stored
<1>28. pc \in {"walk", "walked"}
  BY <1>16
<1> QED BY <1>23, <1>24, <1>26, <1>27, <1>28 DEF Inv, ExportOpen, ExportKnown, ExportFollowsTheClock

LEMMA ExportCountInv == Inv /\ ExportCount => Inv'
<1> SUFFICES ASSUME Inv, ExportCount PROVE Inv'
  OBVIOUS
<1>1. PICK w \in Windows, zone \in Zones :
          reader' = [pc |-> "export", window |-> w, zone |-> zone,
                     total |-> Cardinality(Exportable(w, zone)), known |-> Ids]
  BY DEF ExportCount
<1>2. serverZone' = serverZone /\ newerFirst' = newerFirst /\ rows' = rows
  BY DEF ExportCount, host
<1>3. Stored /\ Stored'
  BY <1>2 DEF Inv, Stored
<1>4. PICK E : E = Exportable(w, zone)
  OBVIOUS
<1>5. Cardinality(E) \in Nat
  <2>1. E \in SUBSET Ids
    BY <1>4 DEF Exportable
  <2> QED BY <1>3, <2>1, RowsFinite
<1>6. /\ reader'.pc = "export" /\ reader'.window = w /\ reader'.zone = zone
      /\ reader'.total = Cardinality(E) /\ reader'.known = Ids
  BY <1>1, <1>4
<1>7. Ids' = Ids /\ Exportable(reader.window, reader.zone)' = E
  BY <1>2, <1>4, <1>6 DEF Ids, Exportable, InWindow, Text
<1>8. w \in Nat \X Nat
  BY BoundAssumption
<1>9. ExportOpen'
  <2>1. Cardinality(E) <= Cardinality(E)
    BY <1>5
  <2> QED BY <1>5, <1>6, <1>7, <1>8, <2>1 DEF ExportOpen
<1> QED BY <1>3, <1>6, <1>9 DEF Inv, WalkPaid, ExportKnown, WalkAccountsForMoves, ExportFollowsTheClock

\* What the SELECT of an export finds: the rows of the window as far as the
\* clock decides, and all it counted unless it is cut.
LEMMA ExportSelectInv == Inv /\ ExportSelect => Inv'
<1> SUFFICES ASSUME Inv, ExportSelect PROVE Inv'
  OBVIOUS
<1>1. /\ Stored /\ reader.window \in Nat \X Nat /\ reader.zone \in Zones /\ reader.known \subseteq Ids
      /\ reader.total \in Nat
      /\ reader.total <= Cardinality(Exportable(reader.window, reader.zone))
  BY DEF Inv, ExportOpen, ExportSelect
<1>2. serverZone' = serverZone /\ newerFirst' = newerFirst /\ rows' = rows
  BY DEF ExportSelect, host
<1>3. PICK w \in Nat \X Nat, zone \in Zones, total \in Nat :
          w = reader.window /\ zone = reader.zone /\ total = reader.total
  BY <1>1
<1>4. PICK E : E = Exportable(w, zone)
  OBVIOUS
<1>5. PICK items : items = Page(E, pageSize(1000), 0)
  OBVIOUS
<1>6. /\ reader'.pc = "exported" /\ reader'.window = w /\ reader'.zone = zone
      /\ reader'.total = total /\ reader'.known = reader.known /\ reader'.items = items
  BY <1>3, <1>4, <1>5 DEF ExportSelect
<1>7. E \in SUBSET Ids /\ IsFiniteSet(E) /\ Cardinality(E) \in Nat
  <2>1. E \in SUBSET Ids
    BY <1>4 DEF Exportable
  <2> QED BY <1>1, <2>1, RowsFinite
<1>8. items \subseteq E /\ (items = E \/ Cardinality(items) = Cap)
  <2>1. items = Stretch(Prec, E, Cap, 0) /\ StrictOrder(Prec, E)
    <3>1. pageSize(1000) = Cap
      BY PageSizes
    <3> QED BY <1>1, <1>5, <1>7, <3>1, PageIsStretch
  <2>2. Cap \in Nat
    BY PageSizes
  <2>3. items = E \/ Cardinality(items) = Cap
    <3>1. \/ Stretch(Prec, E, Cap, 0) = E
          \/ Cardinality(Stretch(Prec, E, Cap, 0)) = Cap /\ Cap < Cardinality(E)
      BY <1>7, <2>1, <2>2, FirstPage
    <3> QED BY <2>1, <3>1
  <2> QED BY <2>1, <2>3 DEF Stretch
<1>9. Cardinality(items) < total => Cardinality(items) = Cap
  <2>1. total <= Cardinality(E)
    BY <1>1, <1>3, <1>4
  <2>2. items = E => ~ (Cardinality(items) < total)
    BY <1>7, <2>1
  <2> QED BY <1>8, <2>2
<1>10. ASSUME NEW i \in reader.known,
              Apart(rows[i].at, w[1], serverZone, zone), Apart(rows[i].at, w[2], serverZone, zone)
       PROVE  i \in E <=> w[1] <= rows[i].at /\ rows[i].at <= w[2]
  <2>1. PICK from \in Nat, to \in Nat : from = w[1] /\ to = w[2]
    OBVIOUS
  <2>2. PICK t \in Nat : t = rows[i].at
    <3>1. PICK R : R = [at : Nat, match : BOOLEAN]
      OBVIOUS
    <3>2. rows \in Seq(R) /\ i \in DOMAIN rows
      BY <1>1, <3>1 DEF Stored, Table, Ids
    <3>3. rows[i] \in R
      BY <3>2
    <3> QED BY <3>1, <3>3
  <2>3. PICK here \in {"Z", "+"} : here = serverZone
    BY <1>1, ZoneAssumption DEF Stored
  <2>4. zone \in {"Z", "+"}
    BY ZoneAssumption
  <2>5. TextLess(formatTime(t, here), formatTime(from, zone)) <=> t < from
    BY <1>10, <2>1, <2>2, <2>3, <2>4, TextFollowsClock
  <2>6. TextLess(formatTime(to, zone), formatTime(t, here)) <=> to < t
    BY <1>10, <2>1, <2>2, <2>3, <2>4, TextFollowsClock
  <2>7. i \in E <=> /\ ~ TextLess(formatTime(t, here), formatTime(from, zone))
                    /\ ~ TextLess(formatTime(to, zone), formatTime(t, here))
    BY <1>1, <1>4, <2>1, <2>2, <2>3 DEF Exportable, InWindow, Text
  <2>8. (~ (t < from) <=> from <= t) /\ (~ (to < t) <=> t <= to)
    OBVIOUS
  <2> QED BY <2>1, <2>2, <2>5, <2>6, <2>7, <2>8
<1>11. ExportFollowsTheClock'
  <2>1. ASSUME NEW i \in reader.known,
               \A k \in 1 .. 2 : Clear(rows[i].at, w[k], zone)'
        PROVE  /\ i \in items => w[1] <= rows[i].at /\ rows[i].at <= w[2]
               /\ w[1] <= rows[i].at /\ rows[i].at <= w[2] => i \in items \/ Cardinality(items) = Cap
    <3>1. 1 \in 1 .. 2 /\ 2 \in 1 .. 2
      OBVIOUS
    <3>2. Clear(rows[i].at, w[1], zone)' /\ Clear(rows[i].at, w[2], zone)'
      BY <2>1, <3>1
    <3>3. Apart(rows[i].at, w[1], serverZone, zone) /\ Apart(rows[i].at, w[2], serverZone, zone)
      BY <1>2, <3>2 DEF Clear, Apart
    <3>4. i \in E <=> w[1] <= rows[i].at /\ rows[i].at <= w[2]
      BY <1>10, <3>3
    <3> QED BY <1>8, <3>4
  <2> QED BY <1>2, <1>6, <1>9, <2>1 DEF ExportFollowsTheClock
<1>12. Stored' /\ ExportKnown'
  BY <1>1, <1>2, <1>6 DEF Stored, ExportKnown, Ids
<1> QED BY <1>6, <1>11, <1>12 DEF Inv, WalkPaid, ExportOpen, WalkAccountsForMoves

LEMMA EndReadInv == Inv /\ EndRead => Inv'
<1> SUFFICES ASSUME Inv, EndRead PROVE Inv'
  OBVIOUS
<1>1. reader'.pc = "idle" /\ serverZone' = serverZone /\ newerFirst' = newerFirst /\ rows' = rows
  BY DEF EndRead, Idle, host
<1>2. Stored'
  BY <1>1 DEF Inv, Stored
<1> QED BY <1>1, <1>2 DEF Inv, WalkPaid, ExportOpen, ExportKnown, WalkAccountsForMoves,
                          ExportFollowsTheClock

LEMMA StutterInv == Inv /\ UNCHANGED vars => Inv'
<1> SUFFICES ASSUME Inv, UNCHANGED vars PROVE Inv'
  OBVIOUS
<1>1. serverZone' = serverZone /\ newerFirst' = newerFirst /\ rows' = rows /\ reader' = reader
  BY DEF vars, host
<1>2. Ids' = Ids /\ Matching' = Matching /\ Prec' = Prec
  BY <1>1 DEF Ids, Matching, Prec
<1>3. Exportable(reader.window, reader.zone)' = Exportable(reader.window, reader.zone)
  BY <1>1 DEF Exportable, InWindow, Text, Ids
<1>4. Stored' /\ WalkPaid' /\ ExportOpen' /\ ExportKnown'
  BY <1>1, <1>2, <1>3 DEF Inv, Stored, WalkPaid, ExportOpen, ExportKnown
<1>5. WalkAccountsForMoves' /\ ExportFollowsTheClock'
  BY <1>1 DEF Inv, WalkAccountsForMoves, ExportFollowsTheClock, Clear
<1> QED BY <1>4, <1>5 DEF Inv

LEMMA Invariance == Spec => []Inv
<1>1. Inv /\ [Next]_vars => Inv'
  BY RegisterInv, MoveInv, StartWalkInv, ListItemsInv, ExportCountInv, ExportSelectInv, EndReadInv,
     StutterInv DEF Next
<1> QED BY InitInv, <1>1, PTL DEF Spec

-----------------------------------------------------------------------------
\* A walk through the pages of ListItems (collectStaleItems of the worker, a
\* client of GET /api/items) misses at most one case that matched all along
\* for each that left its filter meanwhile, and repeats at most one for each
\* that came into it: for every page size, number of rows and of changes.
THEOREM WalksAreAccountedFor == Spec => []WalkAccountsForMoves
<1>1. Inv => WalkAccountsForMoves
  BY DEF Inv
<1> QED BY <1>1, Invariance, PTL

\* An export holds the cases of its window as far as the texts of formatTime
\* agree with the clock, and is short of its total only when ListItems cut it
\* at the cap, for every window, zone and distance of the zones.
THEOREM ExportsFollowTheClock == Spec => []ExportFollowsTheClock
<1>1. Inv => ExportFollowsTheClock
  BY DEF Inv
<1> QED BY <1>1, Invariance, PTL

=============================================================================
