---------------------------- MODULE SearchProofs ----------------------------
(* Search.tla for any division of the documents into Searchables and their  *)
(* segments, any documents and any searches: the hits are counted right, the *)
(* queues keep the best of what was read, and the result is what a single   *)
(* queue over all the documents would give.                                 *)
EXTENDS MCSearching, FiniteSetTheorems, WellFoundedInduction, TLAPS

-----------------------------------------------------------------------------
(* Least elements and sums                                                  *)

LEMMA Least ==
  ASSUME NEW S \in SUBSET Nat, S # {}
  PROVE  \E m \in S : \A n \in S : m <= n
<1>1. IsWellFoundedOn(OpToRel(<, Nat), Nat)
  BY NatLessThanWellFounded
<1>2. PICK m \in S : \A n \in S : <<n, m>> \notin OpToRel(<, Nat)
  BY <1>1, WFMin
<1>3. \A n \in S : ~ (n < m)
  BY <1>2 DEF OpToRel
<1> QED
  BY <1>3

\* What Matcher_Advance gives, for any set of documents.
LEMMA Advances ==
  ASSUME NEW D \in SUBSET (Nat \ {0}), NEW target \in Nat
  PROVE  /\ Advance(D, target) \in Nat
         /\ Advance(D, target) = 0 => \A e \in D : e < target
         /\ Advance(D, target) # 0 =>
               /\ Advance(D, target) \in D /\ Advance(D, target) >= target
               /\ \A e \in D : e >= target => Advance(D, target) <= e
<1> DEFINE rest == {e \in D : e >= target}
<1>1. CASE rest = {}
  BY <1>1 DEF Advance
<1>2. CASE rest # {}
  <2>1. \E m \in rest : \A n \in rest : m <= n
    BY <1>2, Least
  <2> QED
    BY <1>2, <2>1 DEF Advance
<1> QED
  BY <1>1, <1>2

\* Between the document before the target and the one that is given, or up to
\* the last, none is passed over.
LEMMA NonePassed ==
  ASSUME NEW N \in Nat, NEW D \in SUBSET (1..N), NEW m \in 0..N, NEW d, d = Advance(D, m + 1)
  PROVE  /\ d = 0 => \A e \in (m + 1)..N : e \notin D
         /\ d # 0 => /\ d \in D /\ d \in Nat /\ d - 1 \in m..N /\ d \in m..N
                    /\ \A e \in (m + 1)..(d - 1) : e \notin D
<1>1. D \in SUBSET (Nat \ {0}) /\ m + 1 \in Nat
  OBVIOUS
<1>2. /\ d = 0 => \A e \in D : e < m + 1
      /\ d # 0 => d \in D /\ d >= m + 1 /\ \A e \in D : e >= m + 1 => d <= e
  BY <1>1, Advances
<1>3. CASE d = 0
  BY <1>2, <1>3
<1>4. CASE d # 0
  <2>1. d \in 1..N
    BY <1>2, <1>4
  <2> QED
    BY <1>2, <1>4, <2>1
<1> QED
  BY <1>3, <1>4

LEMMA LastOrBefore ==
  ASSUME NEW m \in Nat, NEW n \in Nat
  PROVE  \A d \in (m + 1)..n : d = n \/ d \in (m + 1)..(n - 1)
OBVIOUS

\* Sums is what its recursive definition says.
LEMMA SumsExist ==
  ASSUME NEW sizes \in Seq(Nat)
  PROVE  \A n \in 0..Len(sizes) :
            \E f \in [0..n -> Nat] : f = [i \in 0..n |-> IF i = 0 THEN 0 ELSE f[i - 1] + sizes[i]]
<1> DEFINE Sum(f, n) == f = [i \in 0..n |-> IF i = 0 THEN 0 ELSE f[i - 1] + sizes[i]]
           bad == {n \in 0..Len(sizes) : ~ \E f \in [0..n -> Nat] : Sum(f, n)}
<1>1. SUFFICES ASSUME bad # {} PROVE FALSE
  OBVIOUS
<1>2. PICK n \in bad : \A k \in bad : n <= k
  <2>1. bad \in SUBSET Nat
    OBVIOUS
  <2> HIDE DEF bad
  <2> QED
    BY <1>1, <2>1, Least
<1>3. n \in 0..Len(sizes) /\ ~ \E f \in [0..n -> Nat] : Sum(f, n)
  OBVIOUS
<1>4. n # 0
  <2> DEFINE f == [i \in 0..0 |-> 0]
  <2>1. f \in [0..0 -> Nat] /\ Sum(f, 0)
    OBVIOUS
  <2> QED
    BY <2>1, <1>3
<1>5. n - 1 \in 0..Len(sizes) /\ n - 1 \notin bad
  <2>1. n - 1 \notin bad
    <3> HIDE DEF bad
    <3> QED
      BY <1>2, <1>3
  <2> QED
    BY <2>1, <1>3, <1>4
<1>6. PICK f \in [0..(n - 1) -> Nat] : Sum(f, n - 1)
  BY <1>5
<1> DEFINE g == [i \in 0..n |-> IF i = n THEN f[n - 1] + sizes[n] ELSE f[i]]
<1>7. n \in 1..Len(sizes) /\ sizes[n] \in Nat
  BY <1>3, <1>4
<1>8. \A i \in 0..(n - 1) : f[i] \in Nat /\ f[i] = IF i = 0 THEN 0 ELSE f[i - 1] + sizes[i]
  BY <1>6
<1> HIDE DEF bad
<1>9. g \in [0..n -> Nat]
  BY <1>7, <1>8
<1>10. \A i \in 0..n : g[i] = IF i = 0 THEN 0 ELSE g[i - 1] + sizes[i]
  BY <1>7, <1>8
<1>11. Sum(g, n)
  BY <1>9, <1>10
<1> QED
  BY <1>3, <1>9, <1>11

LEMMA SumsAre ==
  ASSUME NEW sizes \in Seq(Nat)
  PROVE  /\ Sums(sizes) \in [0..Len(sizes) -> Nat]
         /\ Sums(sizes)[0] = 0
         /\ \A n \in 1..Len(sizes) : Sums(sizes)[n] = Sums(sizes)[n - 1] + sizes[n]
<1> DEFINE N == Len(sizes)
           F(f) == f = [i \in 0..N |-> IF i = 0 THEN 0 ELSE f[i - 1] + sizes[i]]
<1>1. N \in Nat
  OBVIOUS
<1>2. N \in 0..N
  BY <1>1
<1>3. PICK f \in [0..N -> Nat] : F(f)
  BY <1>2, SumsExist
<1>4. F(Sums(sizes))
  BY <1>3 DEF Sums
<1>5. \A i \in 0..N : Sums(sizes)[i] = IF i = 0 THEN 0 ELSE Sums(sizes)[i - 1] + sizes[i]
  BY <1>4
<1>6. \A n \in 1..N : sizes[n] \in Nat
  OBVIOUS
<1>7. \A i \in 0..N : Sums(sizes)[i] \in Nat
  <2> DEFINE bad == {i \in 0..N : Sums(sizes)[i] \notin Nat}
  <2>1. SUFFICES ASSUME bad # {} PROVE FALSE
    OBVIOUS
  <2>2. bad \in SUBSET Nat
    BY <1>1
  <2>3. PICK i \in bad : \A j \in bad : i <= j
    <3> HIDE DEF bad
    <3> QED
      BY <2>1, <2>2, Least
  <2>4. i \in 1..N /\ i - 1 \in 0..N
    BY <1>1, <1>5
  <2>5. Sums(sizes)[i - 1] \in Nat
    BY <1>1, <2>3, <2>4
  <2> QED
    BY <1>5, <1>6, <2>4, <2>5
<1>8. Sums(sizes) = [i \in 0..N |-> Sums(sizes)[i]]
  BY <1>4
<1>9. Sums(sizes) \in [0..N -> Nat]
  BY <1>7, <1>8
<1>10. \A n \in 1..N : Sums(sizes)[n] = Sums(sizes)[n - 1] + sizes[n]
  BY <1>1, <1>5
<1> HIDE DEF F
<1> QED
  BY <1>1, <1>2, <1>5, <1>9, <1>10

\* The sums grow, so none of the sizes exceeds the last.
LEMMA SumsGrow ==
  ASSUME NEW sizes \in Seq(Nat), NEW m \in 0..Len(sizes), NEW n \in m..Len(sizes)
  PROVE  Sums(sizes)[m] <= Sums(sizes)[n]
<1> DEFINE sum == Sums(sizes)
           N == Len(sizes)
           bad == {k \in m..N : sum[k] < sum[m]}
<1>1. N \in Nat /\ \A i \in 1..N : sizes[i] \in Nat
  OBVIOUS
<1>2. /\ \A i \in 0..N : sum[i] \in Nat
      /\ \A i \in 1..N : sum[i] = sum[i - 1] + sizes[i]
  BY SumsAre
<1>3. m \in 0..N /\ n \in m..N
  OBVIOUS
<1> HIDE DEF sum, N
<1>4. SUFFICES ASSUME bad # {} PROVE FALSE
  <2>1. bad = {} => ~ (sum[n] < sum[m])
    BY <1>3
  <2>2. sum[n] \in Nat /\ sum[m] \in Nat
    BY <1>1, <1>2, <1>3
  <2> HIDE DEF bad
  <2>3. bad = {} => sum[m] <= sum[n]
    BY <2>1, <2>2
  <2> QED
    BY <2>3 DEF sum
<1>5. bad \in SUBSET Nat
  BY <1>1, <1>3
<1>6. PICK k \in bad : \A j \in bad : k <= j
  <2> HIDE DEF bad
  <2> QED
    BY <1>4, <1>5, Least
<1>7. k \in m..N /\ sum[k] < sum[m]
  BY <1>6
<1>8. k - 1 \in m..N /\ k \in 1..N
  BY <1>1, <1>2, <1>3, <1>7
<1>9. ~ (sum[k - 1] < sum[m])
  BY <1>1, <1>3, <1>6, <1>8
<1>10. sum[k - 1] \in Nat /\ sum[k] \in Nat /\ sum[m] \in Nat
  BY <1>1, <1>2, <1>3, <1>8
<1>11. sum[k] = sum[k - 1] + sizes[k] /\ sizes[k] \in Nat
  BY <1>1, <1>2, <1>8
<1> HIDE DEF bad
<1> QED
  BY <1>7, <1>9, <1>10, <1>11

-----------------------------------------------------------------------------
(* Where segments begin                                                     *)

LEMMA Offsets ==
  /\ Sizes \in Seq(Nat) /\ DocMax \in Nat
  /\ Starts[1] = 0
  /\ \A t \in DOMAIN Layout :
        /\ Layout[t] \in Seq(Nat) /\ Sizes[t] \in Nat /\ Starts[t] \in Nat
        /\ Sizes[t] = SegStarts[t][Len(Layout[t]) + 1]
        /\ t + 1 \in DOMAIN Layout => Starts[t + 1] = Starts[t] + Sizes[t]
        /\ t = Len(Layout) => DocMax = Starts[t] + Sizes[t]
<1>1. /\ Layout \in Seq(Seq(Nat)) /\ Len(Layout) \in Nat /\ 1 \in DOMAIN Layout
      /\ DOMAIN Layout = 1..Len(Layout)
      /\ \A t \in DOMAIN Layout : Layout[t] \in Seq(Nat)
  BY SearchAssumption
<1>2. \A t \in DOMAIN Layout : Total(Layout[t]) \in Nat
  <2> SUFFICES ASSUME NEW t \in DOMAIN Layout PROVE Total(Layout[t]) \in Nat
    OBVIOUS
  <2>1. Layout[t] \in Seq(Nat) /\ Len(Layout[t]) \in 0..Len(Layout[t])
    BY <1>1
  <2> QED
    BY <2>1, SumsAre DEF Total
<1>3. Sizes \in Seq(Nat) /\ Len(Sizes) = Len(Layout) /\ DOMAIN Sizes = DOMAIN Layout
  BY <1>1, <1>2 DEF Sizes
<1>4. /\ \A n \in 0..Len(Layout) : Sums(Sizes)[n] \in Nat
      /\ Sums(Sizes)[0] = 0
      /\ \A n \in 1..Len(Layout) : Sums(Sizes)[n] = Sums(Sizes)[n - 1] + Sizes[n]
  BY <1>3, SumsAre
<1>5. DocMax = Sums(Sizes)[Len(Layout)] /\ DocMax \in Nat
  BY <1>1, <1>3, <1>4 DEF DocMax, Total
<1>6. Starts[1] = 0
  BY <1>1, <1>4 DEF Starts
<1>7. ASSUME NEW t \in DOMAIN Layout
      PROVE  /\ Starts[t] = Sums(Sizes)[t - 1] /\ Starts[t] \in Nat
             /\ Sums(Sizes)[t] = Starts[t] + Sizes[t]
             /\ t + 1 \in DOMAIN Layout => Starts[t + 1] = Sums(Sizes)[t]
  BY <1>1, <1>4 DEF Starts
<1>8. ASSUME NEW t \in DOMAIN Layout
      PROVE  Sizes[t] = SegStarts[t][Len(Layout[t]) + 1]
  <2>1. Len(Layout[t]) \in Nat
    BY <1>1
  <2> QED
    BY <2>1 DEF Sizes, SegStarts, Total
<1> QED
  BY <1>1, <1>2, <1>3, <1>5, <1>6, <1>7, <1>8 DEF Sizes

LEMMA SegOffsets ==
  ASSUME NEW t \in DOMAIN Layout
  PROVE  /\ SegStarts[t][1] = 0
         /\ \A s \in 1..(Len(Layout[t]) + 1) : SegStarts[t][s] \in Nat
         /\ \A s \in DOMAIN Layout[t] :
               /\ Layout[t][s] \in 0..DocMax
               /\ SegStarts[t][s + 1] = SegStarts[t][s] + Layout[t][s]
<1> DEFINE N == Len(Layout[t])
<1>1. Layout[t] \in Seq(Nat) /\ N \in Nat /\ DOMAIN Layout[t] = 1..N
  BY Offsets
<1>2. /\ \A n \in 0..N : Sums(Layout[t])[n] \in Nat
      /\ Sums(Layout[t])[0] = 0
      /\ \A n \in 1..N : Sums(Layout[t])[n] = Sums(Layout[t])[n - 1] + Layout[t][n]
  BY <1>1, SumsAre
<1>3. \A s \in 1..(N + 1) : SegStarts[t][s] = Sums(Layout[t])[s - 1]
  BY <1>1 DEF SegStarts
<1>4. ASSUME NEW s \in DOMAIN Layout[t]
      PROVE  Layout[t][s] \in 0..DocMax
  <2>1. Layout[t][s] \in Nat /\ s \in 1..N
    BY <1>1
  <2>2. Sums(Layout[t])[s] <= Sums(Layout[t])[N]
    BY <1>1, <2>1, SumsGrow
  <2>3. Sums(Layout[t])[N] = Sizes[t]
    BY DEF Sizes, Total
  <2>4. Sizes[t] <= DocMax
    <3>1. Sizes \in Seq(Nat) /\ Len(Sizes) = Len(Layout) /\ t \in 1..Len(Sizes)
      BY SearchAssumption, Offsets DEF Sizes
    <3>2. Sums(Sizes)[t] <= Sums(Sizes)[Len(Sizes)]
      BY <3>1, SumsGrow
    <3>3. /\ \A n \in 0..Len(Sizes) : Sums(Sizes)[n] \in Nat
          /\ \A n \in 1..Len(Sizes) : Sums(Sizes)[n] = Sums(Sizes)[n - 1] + Sizes[n]
      BY <3>1, SumsAre
    <3>4. t - 1 \in 0..Len(Sizes)
      BY <3>1
    <3>5. Sums(Sizes)[t] = Sums(Sizes)[t - 1] + Sizes[t] /\ Sums(Sizes)[t - 1] \in Nat
      BY <3>1, <3>3, <3>4
    <3> QED
      BY <3>2, <3>5, Offsets DEF DocMax, Total
  <2>5. Sums(Layout[t])[s] = Sums(Layout[t])[s - 1] + Layout[t][s] /\ Sums(Layout[t])[s - 1] \in Nat
    BY <1>2, <2>1
  <2> QED
    BY <2>1, <2>2, <2>3, <2>4, <2>5, Offsets
<1>5. ASSUME NEW s \in 1..N
      PROVE  SegStarts[t][s + 1] = SegStarts[t][s] + Layout[t][s]
  <2>1. SegStarts[t][s] = Sums(Layout[t])[s - 1]
    BY <1>1, <1>3
  <2>2. s + 1 \in 1..(N + 1) /\ (s + 1) - 1 = s
    BY <1>1
  <2>3. SegStarts[t][s + 1] = Sums(Layout[t])[s]
    BY <1>3, <2>2
  <2> QED
    BY <1>2, <2>1, <2>3
<1>6. ASSUME NEW s \in 1..(N + 1)
      PROVE  SegStarts[t][s] \in Nat
  <2>1. SegStarts[t][s] = Sums(Layout[t])[s - 1] /\ s - 1 \in 0..N
    BY <1>1, <1>3
  <2> QED
    BY <1>2, <2>1
<1>7. SegStarts[t][1] = 0
  BY <1>1, <1>2, <1>3
<1> QED
  BY <1>1, <1>4, <1>5, <1>6, <1>7

-----------------------------------------------------------------------------
(* Counting                                                                 *)

\* The live documents after a up to b.
LiveIn(a, b) == {g \in (a + 1)..b : Live(g)}

LEMMA LiveFinite ==
  ASSUME NEW a \in Nat, NEW b \in Nat
  PROVE  IsFiniteSet(LiveIn(a, b)) /\ Cardinality(LiveIn(a, b)) \in Nat
<1>1. IsFiniteSet((a + 1)..b)
  BY FS_Interval
<1> QED
  BY <1>1, FS_Subset, FS_CardinalityType DEF LiveIn

LEMMA NoneLive ==
  ASSUME NEW a \in Nat, NEW b \in Nat, NEW c \in Nat, a <= b, b <= c,
         \A g \in (b + 1)..c : ~Live(g)
  PROVE  LiveIn(a, c) = LiveIn(a, b)
BY DEF LiveIn

LEMMA OneLive ==
  ASSUME NEW a \in Nat, NEW b \in Nat, a <= b, Live(b + 1)
  PROVE  Cardinality(LiveIn(a, b + 1)) = Cardinality(LiveIn(a, b)) + 1
<1>1. LiveIn(a, b + 1) = LiveIn(a, b) \cup {b + 1} /\ b + 1 \notin LiveIn(a, b)
  BY DEF LiveIn
<1> QED
  BY <1>1, LiveFinite, FS_AddElement

LEMMA LiveAdd ==
  ASSUME NEW a \in Nat, NEW b \in Nat, a <= b
  PROVE  Cardinality(LiveIn(0, b)) = Cardinality(LiveIn(0, a)) + Cardinality(LiveIn(a, b))
<1>1. LiveIn(0, b) = LiveIn(0, a) \cup LiveIn(a, b) /\ LiveIn(0, a) \cap LiveIn(a, b) = {}
  BY DEF LiveIn
<1>2. Cardinality(LiveIn(0, b))
        = Cardinality(LiveIn(0, a)) + Cardinality(LiveIn(a, b)) - Cardinality({})
  <2>1. IsFiniteSet(LiveIn(0, a)) /\ IsFiniteSet(LiveIn(a, b))
    BY LiveFinite
  <2>2. Cardinality(LiveIn(0, a) \cup LiveIn(a, b))
          = Cardinality(LiveIn(0, a)) + Cardinality(LiveIn(a, b))
            - Cardinality(LiveIn(0, a) \cap LiveIn(a, b))
    BY <2>1, FS_Union
  <2> QED
    BY <1>1, <2>2
<1>3. Cardinality(LiveIn(0, a)) \in Nat /\ Cardinality(LiveIn(a, b)) \in Nat
  BY LiveFinite
<1>4. Cardinality({}) = 0
  BY FS_EmptySet
<1> QED
  BY <1>1, <1>2, <1>3, <1>4

-----------------------------------------------------------------------------
(* The inductive invariant                                                  *)

InLoop == {"loop", "skip", "hit"}

\* Where the search has got to.
Placed ==
    /\ tick \in DOMAIN Layout /\ seg \in 1..(Len(Layout[tick]) + 1)
    /\ pc \in InLoop \cup {"segment", "merge", "done"}
    /\ pc \in InLoop => seg \in DOMAIN Layout[tick]
    /\ pc \in {"merge", "done"} => seg = Len(Layout[tick]) + 1
    /\ pc = "done" => tick = Len(Layout)
    /\ "hits" \in DOMAIN coll
    /\ doc \in Nat /\ nextDel \in Nat

\* No deletion after d is overlooked.
Foreseen(d) == \A e \in Deleted : d <= e => nextDel <= e

\* The deletions that Matcher_collect knows of are ahead of the document it is
\* at, or it will look for them; what it takes to the collector matches and is
\* not deleted.
LoopRight ==
    /\ pc = "loop" => doc <= SegDocMax /\ (doc < nextDel => Foreseen(doc + 1))
    /\ pc = "skip" =>
          /\ doc \in 1..(SegDocMax + 1) /\ doc <= nextDel
          /\ nextDel \in Deleted \cup {Never} /\ Foreseen(doc)
    /\ pc = "hit" /\ doc # 0 =>
          doc \in Matching \ Deleted /\ (doc < nextDel => Foreseen(doc + 1))

\* PolySearcher's total, with what the SortCollector has counted.
TotalCounted ==
    total = Cardinality(LiveIn(0, IF Collecting THEN Start ELSE Start + Sizes[tick]))

SearchInv == Placed /\ LoopRight /\ HitsCounted /\ TotalCounted

-----------------------------------------------------------------------------
\* What the steps of a loop leave as it is.
LEMMA SameSegment ==
  ASSUME UNCHANGED <<docs, tick, seg>>
  PROVE  /\ Start' = Start /\ SegStart' = SegStart /\ SegDocMax' = SegDocMax
         /\ Matching' = Matching /\ Deleted' = Deleted
         /\ \A d : Live(d)' = Live(d)
         /\ \A a, b : LiveIn(a, b)' = LiveIn(a, b)
<1>1. Start' = Start /\ SegStart' = SegStart /\ SegDocMax' = SegDocMax
  BY DEF Start, SegStart, SegDocMax
<1>2. \A d : The(d)' = The(d)
  BY <1>1 DEF The
<1> QED
  BY <1>1, <1>2 DEF Matching, Deleted, Live, LiveIn

LEMMA InSegment ==
  ASSUME Placed, seg \in DOMAIN Layout[tick]
  PROVE  /\ Start \in Nat /\ SegStart \in Nat /\ SegDocMax \in 0..DocMax /\ DocMax \in Nat
         /\ Never = DocMax + 2
         /\ Matching \in SUBSET (Nat \ {0}) /\ Deleted \in SUBSET (Nat \ {0})
         /\ \A d \in 1..SegDocMax :
               Live(Start + SegStart + d) <=> d \in Matching \ Deleted
         /\ \A d \in Matching \cup Deleted : d <= SegDocMax
<1>1. tick \in DOMAIN Layout /\ Len(Layout[tick]) \in Nat /\ seg \in 1..Len(Layout[tick])
  BY Offsets DEF Placed
<1>2. Start \in Nat /\ DocMax \in Nat
  BY <1>1, Offsets DEF Start
<1>3. SegStart \in Nat /\ SegDocMax \in 0..DocMax
  BY <1>1, SegOffsets DEF SegStart, SegDocMax
<1>4. \A d \in 1..SegDocMax : Live(Start + SegStart + d) <=> d \in Matching \ Deleted
  BY DEF Live, Matching, Deleted, The
<1> QED
  BY <1>2, <1>3, <1>4 DEF Never, Matching, Deleted

LEMMA Beyond ==
  ASSUME NEW d \in Nat, NEW e \in Nat, NEW f \in Nat, f + 1 <= e
  PROVE  /\ f >= d => d <= e
         /\ f >= d + 1 => d + 1 <= e
OBVIOUS

LEMMA LoopStepPlaced ==
  ASSUME Placed, LoopRight, CatchUp \/ SkipDeleted \/ AdvancePast \/ NextMatch
  PROVE  Placed' /\ LoopRight'
<1>1. /\ pc \in InLoop /\ seg \in DOMAIN Layout[tick]
      /\ UNCHANGED <<docs, tick, seg, coll, merged, total>>
  BY DEF CatchUp, SkipDeleted, AdvancePast, NextMatch, Placed, InLoop, input
<1>2. SegDocMax' = SegDocMax /\ Matching' = Matching /\ Deleted' = Deleted
  BY <1>1, SameSegment
<1>3. /\ SegDocMax \in Nat /\ DocMax \in Nat /\ SegDocMax <= DocMax /\ Never = DocMax + 2
      /\ Matching \in SUBSET (Nat \ {0}) /\ Deleted \in SUBSET (Nat \ {0})
      /\ \A d \in Matching : d \in Nat \ {0} /\ d <= SegDocMax
      /\ \A d \in Deleted : d \in Nat \ {0} /\ d <= SegDocMax
  BY <1>1, InSegment
<1>4. doc \in Nat /\ nextDel \in Nat
  BY DEF Placed
<1>5. ASSUME NEW target \in Nat
      PROVE  /\ Deletion(target) \in Nat
             /\ Deletion(target) = 0 => \A e \in Deleted : e < target
             /\ Deletion(target) # 0 =>
                   /\ Deletion(target) \in Deleted /\ Deletion(target) >= target
                   /\ \A e \in Deleted : e >= target => Deletion(target) <= e
  BY <1>3, Advances DEF Deletion
<1>6. ASSUME NEW target \in Nat
      PROVE  /\ DeletionOrNever(target) \in Nat
             /\ DeletionOrNever(target) \in Deleted \cup {Never}
             /\ DeletionOrNever(target) >= target \/ DeletionOrNever(target) = Never
             /\ \A e \in Deleted : target <= e => DeletionOrNever(target) <= e
  <2>1. CASE Deletion(target) = 0
    BY <1>3, <1>5, <2>1 DEF DeletionOrNever
  <2>2. CASE Deletion(target) # 0
    BY <1>3, <1>5, <2>2 DEF DeletionOrNever
  <2> QED
    BY <2>1, <2>2
<1>7. ASSUME NEW target \in Nat
      PROVE  /\ Advance(Matching, target) \in Nat
             /\ Advance(Matching, target) # 0 =>
                   Advance(Matching, target) \in Matching /\ Advance(Matching, target) >= target
  BY <1>3, Advances
<1>0. ASSUME NEW d \in Nat, NEW e \in Deleted
      PROVE  (d + 1 <= e => e >= d /\ d <= e) /\ (d <= e <=> e >= d) /\ (d <= e => d = e \/ d + 1 <= e)
  <2>1. e \in Nat
    BY <1>3
  <2> QED
    BY <2>1
<1>8. SUFFICES doc' \in Nat /\ nextDel' \in Nat /\ pc' \in InLoop /\ LoopRight'
  BY <1>1 DEF Placed, InLoop
<1>9. CASE CatchUp
  <2>1. /\ pc = "loop" /\ doc > nextDel /\ pc' = "loop" /\ doc' = doc
        /\ nextDel' = DeletionOrNever(doc)
    BY <1>9 DEF CatchUp
  <2>2. doc <= SegDocMax
    BY <2>1 DEF LoopRight
  <2>3. nextDel' \in Nat /\ \A e \in Deleted : doc + 1 <= e => nextDel' <= e
    BY <1>3, <1>4, <1>6, <2>1
  <2> QED
    BY <1>2, <1>4, <2>1, <2>2, <2>3 DEF LoopRight, Foreseen, InLoop
<1>10. CASE SkipDeleted
  <2>1. /\ pc \in {"loop", "skip"} /\ doc = nextDel /\ pc' = "skip" /\ doc' = doc + 1
        /\ nextDel' = DeletionOrNever(doc + 1)
    BY <1>10 DEF SkipDeleted
  <2>2. doc <= SegDocMax
    BY <1>3, <1>4, <2>1 DEF LoopRight
  <2>3. /\ nextDel' \in Nat /\ nextDel' \in Deleted \cup {Never} /\ doc' <= nextDel'
        /\ \A e \in Deleted : doc' <= e => nextDel' <= e
    BY <1>3, <1>4, <1>6, <2>1, <2>2
  <2> QED
    BY <1>2, <1>3, <1>4, <2>1, <2>2, <2>3 DEF LoopRight, Foreseen, InLoop
<1>11. CASE AdvancePast
  <2>1. /\ pc = "skip" /\ doc # nextDel /\ doc' = Advance(Matching, doc)
        /\ nextDel' = IF doc' > nextDel THEN Deletion(doc') ELSE nextDel
        /\ pc' = IF doc' = nextDel' THEN "skip" ELSE "hit"
    BY <1>11 DEF AdvancePast
  <2>2. /\ doc \in 1..(SegDocMax + 1) /\ doc <= nextDel
        /\ nextDel \in Deleted \cup {Never} /\ \A e \in Deleted : doc <= e => nextDel <= e
    BY <2>1 DEF LoopRight, Foreseen
  <2>3. doc' \in Nat /\ (doc' # 0 => doc' \in Matching /\ doc' >= doc)
    BY <1>4, <1>7, <2>1
  <2>4. CASE doc' > nextDel
    <3>1. /\ nextDel' \in Nat
          /\ nextDel' # 0 => nextDel' \in Deleted /\ nextDel' >= doc'
          /\ \A e \in Deleted : e >= doc' => nextDel' # 0 /\ nextDel' <= e
      BY <1>3, <1>5, <2>1, <2>3, <2>4
    <3>2. CASE doc' = nextDel'
      <4>1. /\ pc' = "skip" /\ doc' # 0 /\ nextDel' \in Deleted
            /\ \A e \in Deleted : doc' <= e => nextDel' <= e
        BY <1>4, <2>1, <2>3, <2>4, <3>1, <3>2
      <4>2. doc' \in 1..(SegDocMax + 1) /\ doc' <= nextDel'
        BY <1>3, <2>3, <3>2, <4>1
      <4> QED
        BY <1>2, <2>3, <3>1, <4>1, <4>2 DEF LoopRight, Foreseen, InLoop
    <3>3. CASE doc' # nextDel'
      <4>1. pc' = "hit" /\ doc' \in Matching
        BY <1>4, <2>1, <2>3, <2>4, <3>3
      <4>2. doc' \notin Deleted
        BY <1>3, <2>3, <3>1, <3>3
      <4>3. \A e \in Deleted : doc' + 1 <= e => nextDel' <= e
        BY <1>0, <2>3, <3>1
      <4> QED
        BY <1>2, <2>3, <3>1, <4>1, <4>2, <4>3 DEF LoopRight, Foreseen, InLoop
    <3> QED
      BY <3>2, <3>3
  <2>5. CASE ~ (doc' > nextDel)
    <3>1. nextDel' = nextDel /\ doc' <= nextDel'
      BY <1>4, <2>1, <2>3, <2>5
    <3>2. CASE doc' = nextDel'
      <4>1. pc' = "skip" /\ doc' # 0 /\ doc' \in Matching /\ doc' >= doc
        BY <1>4, <2>1, <2>2, <2>3, <3>1, <3>2
      <4>2. doc' \in 1..(SegDocMax + 1) /\ \A e \in Deleted : doc' <= e => nextDel' <= e
        BY <1>3, <2>2, <2>3, <3>1, <4>1
      <4> QED
        BY <1>2, <1>4, <2>2, <2>3, <3>1, <4>1, <4>2 DEF LoopRight, Foreseen, InLoop
    <3>3. CASE doc' # nextDel'
      <4>1. pc' = "hit"
        BY <2>1, <3>3
      <4>2. doc' # 0 => /\ doc' \in Matching \ Deleted
                        /\ \A e \in Deleted : doc' + 1 <= e => nextDel' <= e
        <5>1. ASSUME doc' # 0 PROVE doc' \notin Deleted
          BY <1>4, <2>2, <2>3, <3>1, <3>3, <5>1
        <5>2. ASSUME doc' # 0, NEW e \in Deleted, doc' + 1 <= e PROVE nextDel' <= e
          <6>1. e \in Nat
            BY <1>3
          <6>2. doc <= e
            BY <1>4, <2>3, <5>2, <6>1, Beyond
          <6> QED
            BY <2>2, <3>1, <6>2
        <5> QED
          BY <2>3, <5>1, <5>2
      <4> QED
        BY <1>2, <1>4, <2>3, <3>1, <4>1, <4>2 DEF LoopRight, Foreseen, InLoop
    <3> QED
      BY <3>2, <3>3
  <2> QED
    BY <2>4, <2>5
<1>12. CASE NextMatch
  <2>1. /\ pc = "loop" /\ doc < nextDel /\ doc' = Advance(Matching, doc + 1)
        /\ nextDel' = IF doc' >= nextDel THEN Deletion(doc') ELSE nextDel
        /\ pc' = IF doc' >= nextDel /\ doc' = nextDel' THEN "loop" ELSE "hit"
    BY <1>12 DEF NextMatch
  <2>2. \A e \in Deleted : doc + 1 <= e => nextDel <= e
    BY <2>1 DEF LoopRight, Foreseen
  <2>3. doc' \in Nat /\ (doc' # 0 => doc' \in Matching /\ doc' >= doc + 1)
    BY <1>4, <1>7, <2>1
  <2>4. CASE doc' >= nextDel
    <3>1. /\ nextDel' \in Nat /\ doc' # 0 /\ doc' \in Matching
          /\ \A e \in Deleted : e >= doc' => nextDel' # 0 /\ nextDel' <= e
          /\ nextDel' # 0 => nextDel' >= doc'
      BY <1>3, <1>4, <1>5, <2>1, <2>3, <2>4
    <3>2. \A e \in Deleted : doc' + 1 <= e => nextDel' <= e
      BY <1>0, <1>3, <2>3, <3>1
    <3>3. CASE doc' = nextDel'
      <4>1. pc' = "loop" /\ doc' <= SegDocMax
        BY <1>3, <2>1, <2>4, <3>1, <3>3
      <4> QED
        BY <1>2, <2>3, <3>1, <3>2, <4>1 DEF LoopRight, Foreseen, InLoop
    <3>4. CASE doc' # nextDel'
      <4>1. pc' = "hit" /\ doc' \notin Deleted
        BY <1>3, <2>1, <2>3, <3>1, <3>4
      <4> QED
        BY <1>2, <2>3, <3>1, <3>2, <4>1 DEF LoopRight, Foreseen, InLoop
    <3> QED
      BY <3>3, <3>4
  <2>5. CASE ~ (doc' >= nextDel)
    <3>1. nextDel' = nextDel /\ pc' = "hit" /\ doc' < nextDel'
      BY <1>4, <2>1, <2>3, <2>5
    <3>2. doc' # 0 => /\ doc' \in Matching \ Deleted
                      /\ \A e \in Deleted : doc' + 1 <= e => nextDel' <= e
      <4>1. ASSUME doc' # 0 PROVE doc' \notin Deleted
        BY <1>4, <2>2, <2>3, <3>1, <4>1
      <4>2. ASSUME doc' # 0, NEW e \in Deleted, doc' + 1 <= e PROVE nextDel' <= e
        <5>1. e \in Nat
          BY <1>3
        <5>2. doc + 1 <= e
          BY <1>4, <2>3, <4>2, <5>1, Beyond
        <5> QED
          BY <2>2, <3>1, <5>2
      <4> QED
        BY <2>3, <4>1, <4>2
    <3> QED
      BY <1>2, <1>4, <2>3, <3>1, <3>2 DEF LoopRight, Foreseen, InLoop
  <2> QED
    BY <2>4, <2>5
<1> QED
  BY <1>9, <1>10, <1>11, <1>12

\* Documents that do not match, or are deleted, do not count.
LEMMA NoneBetween ==
  ASSUME Placed, seg \in DOMAIN Layout[tick],
         NEW m \in 0..SegDocMax, NEW n \in m..SegDocMax,
         \A d \in (m + 1)..n : d \notin Matching \ Deleted
  PROVE  LiveIn(Start, Start + SegStart + n) = LiveIn(Start, Start + SegStart + m)
<1>1. /\ Start \in Nat /\ SegStart \in Nat /\ SegDocMax \in Nat
      /\ \A d \in 1..SegDocMax : Live(Start + SegStart + d) <=> d \in Matching \ Deleted
  BY InSegment
<1>2. m \in Nat /\ n \in Nat /\ m <= n /\ n <= SegDocMax
  BY <1>1
<1>3. ASSUME NEW g \in (Start + SegStart + m + 1)..(Start + SegStart + n)
      PROVE  ~Live(g)
  <2> DEFINE d == g - (Start + SegStart)
  <2>1. d \in (m + 1)..n /\ d \in 1..SegDocMax /\ g = Start + SegStart + d
    BY <1>1, <1>2, <1>3
  <2> QED
    BY <1>1, <2>1
<1>4. /\ Start + SegStart + m \in Nat /\ Start + SegStart + n \in Nat
      /\ Start <= Start + SegStart + m /\ Start + SegStart + m <= Start + SegStart + n
  BY <1>1, <1>2
<1> QED
  BY <1>1, <1>3, <1>4, NoneLive

\* So the loops go by no hit that is not taken to the collector.
LEMMA LoopStepReaches ==
  ASSUME Placed, LoopRight, Placed', LoopRight',
         CatchUp \/ SkipDeleted \/ AdvancePast \/ NextMatch
  PROVE  GoneBy' = GoneBy
<1>1. /\ pc \in InLoop /\ seg \in DOMAIN Layout[tick]
      /\ UNCHANGED <<docs, tick, seg, coll, merged, total>>
  BY DEF CatchUp, SkipDeleted, AdvancePast, NextMatch, Placed, InLoop, input
<1>2. /\ SegDocMax' = SegDocMax /\ Start' = Start /\ SegStart' = SegStart
      /\ \A a, b : LiveIn(a, b)' = LiveIn(a, b)
  BY <1>1, SameSegment
<1>3. /\ SegDocMax \in Nat /\ DocMax \in Nat /\ SegDocMax <= DocMax /\ Never = DocMax + 2
      /\ Matching \in SUBSET (Nat \ {0}) /\ Deleted \in SUBSET (Nat \ {0})
      /\ \A d \in Matching : d \in Nat \ {0} /\ d <= SegDocMax
      /\ \A d \in Deleted : d \in Nat \ {0} /\ d <= SegDocMax
  BY <1>1, InSegment
<1>4. doc \in Nat /\ nextDel \in Nat /\ doc' \in Nat /\ nextDel' \in Nat
  BY DEF Placed
<1>5. GoneBy = LiveIn(Start, Start + SegStart + Reached)
  BY DEF GoneBy, LiveIn
<1>6. pc' \in InLoop
  BY <1>1 DEF CatchUp, SkipDeleted, AdvancePast, NextMatch, InLoop
<1>7. SUFFICES LiveIn(Start, Start + SegStart + Reached') = LiveIn(Start, Start + SegStart + Reached)
  <2>1. GoneBy' = LiveIn(Start, Start + SegStart + Reached')
    BY <1>1, <1>2 DEF GoneBy, LiveIn, Live
  <2> QED
    BY <1>5, <1>7, <2>1
<1>8. /\ Reached \in 0..SegDocMax
      /\ pc = "loop" => Reached = doc
      /\ pc = "skip" => Reached = doc - 1
  BY <1>1, <1>3, <1>4 DEF Reached, LoopRight, InLoop
<1>9. /\ pc' = "loop" => Reached' = doc' /\ doc' <= SegDocMax
      /\ pc' = "skip" => Reached' = doc' - 1 /\ doc' \in 1..(SegDocMax + 1)
      /\ pc' = "hit" /\ doc' = 0 => Reached' = SegDocMax
      /\ pc' = "hit" /\ doc' # 0 => Reached' = doc' - 1 /\ doc' <= SegDocMax
  BY <1>2, <1>3, <1>4, InSegment DEF Reached, LoopRight, Matching
<1>10. CASE CatchUp
  BY <1>8, <1>9, <1>10 DEF CatchUp
<1>11. CASE SkipDeleted
  <2>1. pc \in {"loop", "skip"} /\ doc = nextDel /\ pc' = "skip" /\ doc' = doc + 1
    BY <1>11 DEF SkipDeleted
  <2>2. CASE pc = "loop"
    BY <1>4, <1>8, <1>9, <2>1, <2>2
  <2>3. CASE pc = "skip"
    <3>1. doc \in Deleted /\ doc \in 1..SegDocMax
      BY <1>3, <1>4, <2>1, <2>3 DEF LoopRight
    <3>2. Reached = doc - 1 /\ Reached' = doc /\ doc \in Reached..SegDocMax
      BY <1>4, <1>8, <1>9, <2>1, <2>3, <3>1
    <3>3. \A d \in (Reached + 1)..doc : d \notin Matching \ Deleted
      BY <1>4, <3>1, <3>2
    <3> HIDE DEF Reached
    <3> QED
      BY <1>1, <1>8, <3>2, <3>3, NoneBetween
  <2> QED
    BY <2>1, <2>2, <2>3
<1>12. ASSUME AdvancePast \/ NextMatch
       PROVE  LiveIn(Start, Start + SegStart + Reached') = LiveIn(Start, Start + SegStart + Reached)
  <2>1. doc' = Advance(Matching, Reached + 1)
    BY <1>4, <1>8, <1>12 DEF AdvancePast, NextMatch
  <2>2. Matching \in SUBSET (1..SegDocMax)
    BY DEF Matching
  <2>3. /\ doc' = 0 => \A e \in (Reached + 1)..SegDocMax : e \notin Matching
        /\ doc' # 0 => /\ doc' - 1 \in Reached..SegDocMax /\ doc' \in Reached..SegDocMax
                       /\ \A e \in (Reached + 1)..(doc' - 1) : e \notin Matching
    <3> DEFINE D == Matching
               N == SegDocMax
    <3>1. N \in Nat /\ D \in SUBSET (1..N)
      BY <1>3, <2>2
    <3> HIDE DEF D, N
    <3>2. ASSUME NEW m \in 0..N, NEW d, d = Advance(D, m + 1)
          PROVE  /\ d = 0 => \A e \in (m + 1)..N : e \notin D
                 /\ d # 0 => /\ d - 1 \in m..N /\ d \in m..N
                            /\ \A e \in (m + 1)..(d - 1) : e \notin D
      BY <3>1, <3>2, NonePassed
    <3> QED
      BY <1>8, <2>1, <3>2 DEF D, N
  <2>4. CASE doc' = 0
    <3>1. pc' = "hit"
      BY <1>4, <1>12, <2>4 DEF AdvancePast, NextMatch, LoopRight
    <3>2. Reached' = SegDocMax /\ SegDocMax \in Reached..SegDocMax
      BY <1>3, <1>8, <1>9, <2>4, <3>1
    <3> QED
      BY <1>1, <1>8, <2>3, <2>4, <3>2, NoneBetween
  <2>5. CASE doc' # 0
    <3>1. CASE pc' \in {"skip", "hit"}
      BY <1>1, <1>8, <1>9, <2>3, <2>5, <3>1, NoneBetween
    <3>2. CASE pc' \notin {"skip", "hit"}
      <4>1. pc' = "loop" /\ NextMatch /\ doc' = nextDel' /\ doc' >= nextDel
        BY <1>12, <3>2 DEF AdvancePast, NextMatch
      <4>2. doc' \in Deleted
        BY <1>3, <1>4, <2>5, <4>1, Advances DEF NextMatch, Deletion
      <4>3. Reached' = doc'
        BY <1>9, <4>1
      <4>4. \A d \in (Reached + 1)..doc' : d = doc' \/ d \in (Reached + 1)..(doc' - 1)
        <5>1. Reached \in Nat
          BY <1>3, <1>8
        <5> QED
          BY <1>4, <5>1, LastOrBefore
      <4>5. \A d \in (Reached + 1)..doc' : d \notin Matching \ Deleted
        BY <2>3, <2>5, <4>2, <4>4
      <4> QED
        BY <1>1, <1>8, <2>3, <2>5, <4>3, <4>5, NoneBetween
    <3> QED
      BY <3>1, <3>2
  <2> QED
    BY <2>4, <2>5
<1> QED
  BY <1>10, <1>11, <1>12

LEMMA LoopStepCounts ==
  ASSUME Placed, LoopRight, HitsCounted, Placed', LoopRight',
         CatchUp \/ SkipDeleted \/ AdvancePast \/ NextMatch
  PROVE  HitsCounted'
<1>1. Collecting /\ UNCHANGED coll
  BY DEF CatchUp, SkipDeleted, AdvancePast, NextMatch, Collecting
<1>2. GoneBy' = GoneBy
  BY LoopStepReaches
<1> QED
  BY <1>1, <1>2 DEF HitsCounted

-----------------------------------------------------------------------------
(* The other steps                                                          *)

\* What HitsCounted says, in terms of LiveIn.
LEMMA Counted ==
  ASSUME Placed, Collecting
  PROVE  HitsCounted <=> coll.hits = Cardinality(LiveIn(Start, Start + SegStart + Reached))
BY DEF HitsCounted, GoneBy, LiveIn

LEMMA EnterRight ==
  ASSUME SearchInv, EnterSegment
  PROVE  SearchInv'
<1>1. /\ Placed /\ LoopRight /\ HitsCounted /\ TotalCounted
      /\ pc = "segment" /\ seg \in DOMAIN Layout[tick]
      /\ pc' = "loop" /\ doc' = 0 /\ nextDel' = 0 /\ coll' = SetReader(coll)
      /\ UNCHANGED <<docs, search, tick, seg, merged, total>>
  BY DEF SearchInv, EnterSegment, Matcher, input
<1>2. "hits" \in DOMAIN coll' /\ coll'.hits = coll.hits
  BY <1>1 DEF Placed, SetReader
<1>3. /\ Start' = Start /\ SegStart' = SegStart /\ SegDocMax' = SegDocMax
      /\ \A a, b : LiveIn(a, b)' = LiveIn(a, b)
  BY <1>1, SameSegment
<1>4. Placed'
  BY <1>1, <1>2 DEF Placed, InLoop
<1>5. LoopRight'
  BY <1>1, <1>3, InSegment DEF LoopRight
<1>6. Reached = 0 /\ Reached' = 0 /\ Collecting /\ Collecting'
  BY <1>1 DEF Reached, Collecting
<1>7. HitsCounted'
  BY <1>1, <1>2, <1>3, <1>6 DEF HitsCounted, GoneBy, LiveIn
<1>8. TotalCounted'
  BY <1>1, <1>3, <1>6 DEF TotalCounted
<1> QED
  BY <1>4, <1>5, <1>7, <1>8 DEF SearchInv

LEMMA HitRight ==
  ASSUME SearchInv, Hit
  PROVE  SearchInv'
<1>1. /\ Placed /\ LoopRight /\ HitsCounted /\ TotalCounted
      /\ pc = "hit" /\ doc # 0 /\ pc' = "loop" /\ seg \in DOMAIN Layout[tick]
      /\ UNCHANGED <<docs, search, tick, seg, doc, nextDel, merged, total>>
  BY DEF SearchInv, Hit, input, Placed, InLoop
<1>2. /\ \E d : Collect(d)
      /\ "hits" \in DOMAIN coll
  BY <1>1 DEF Hit, Placed
<1>3. "hits" \in DOMAIN coll' /\ coll'.hits = coll.hits + 1
  <2>1. PICK d : Collect(d)
    BY <1>2
  <2> QED
    BY <1>2, <2>1 DEF Collect
<1>4. /\ Start' = Start /\ SegStart' = SegStart /\ SegDocMax' = SegDocMax
      /\ Matching' = Matching /\ Deleted' = Deleted
      /\ \A a, b : LiveIn(a, b)' = LiveIn(a, b)
  BY <1>1, SameSegment
<1>5. /\ Start \in Nat /\ SegStart \in Nat /\ SegDocMax \in Nat
      /\ \A d \in 1..SegDocMax : Live(Start + SegStart + d) <=> d \in Matching \ Deleted
      /\ \A d \in Matching : d <= SegDocMax
  BY <1>1, InSegment
<1>6. doc \in Matching \ Deleted /\ doc \in 1..SegDocMax /\ (doc < nextDel => Foreseen(doc + 1))
  BY <1>1 DEF LoopRight, Matching
<1>7. Placed'
  BY <1>1, <1>3 DEF Placed, InLoop
<1>8. LoopRight'
  BY <1>1, <1>4, <1>5, <1>6 DEF LoopRight, Foreseen
<1>9. Collecting /\ Collecting' /\ Reached = doc - 1 /\ Reached' = doc
  BY <1>1 DEF Collecting, Reached
<1>10. HitsCounted'
  <2> DEFINE b == Start + SegStart + (doc - 1)
  <2>1. b \in Nat /\ Start <= b /\ b + 1 = Start + SegStart + doc
    BY <1>5, <1>6
  <2>2. Live(b + 1)
    BY <1>5, <1>6, <2>1
  <2>3. Cardinality(LiveIn(Start, b + 1)) = Cardinality(LiveIn(Start, b)) + 1
    <3> HIDE DEF b
    <3> QED
      BY <1>5, <2>1, <2>2, OneLive
  <2>4. coll.hits = Cardinality(LiveIn(Start, b))
    BY <1>1, <1>9, Counted
  <2>5. GoneBy' = LiveIn(Start, Start + SegStart + doc)
    BY <1>1, <1>4, <1>9 DEF GoneBy, LiveIn, Live
  <2> QED
    BY <1>3, <2>1, <2>3, <2>4, <2>5 DEF HitsCounted
<1>11. TotalCounted'
  BY <1>1, <1>4, <1>9 DEF TotalCounted
<1> QED
  BY <1>7, <1>8, <1>10, <1>11 DEF SearchInv

\* Nor do the steps from one segment to the next, when there are no more matches.
LEMMA NextSegmentReaches ==
  ASSUME Placed, SkipSegment \/ Exhausted
  PROVE  GoneBy' = GoneBy
<1>1. /\ pc \in {"segment", "hit"} /\ pc' = "segment" /\ seg \in DOMAIN Layout[tick]
      /\ seg' = seg + 1 /\ UNCHANGED <<docs, tick>>
  BY DEF SkipSegment, Exhausted, Matcher, input, Placed, InLoop
<1>2. /\ tick \in DOMAIN Layout /\ Len(Layout[tick]) \in Nat /\ seg \in 1..Len(Layout[tick])
  BY <1>1, Offsets DEF Placed
<1>3. Start' = Start /\ SegStart' = SegStart + SegDocMax
  BY <1>1, <1>2, SegOffsets DEF Start, SegStart, SegDocMax
<1>4. Reached' = 0 /\ SegDocMax \in Nat /\ Start \in Nat /\ SegStart \in Nat
  BY <1>1, InSegment DEF Reached
<1>5. GoneBy' = LiveIn(Start, Start + SegStart + SegDocMax)
  <2>1. Start' + SegStart' + Reached' = Start + SegStart + SegDocMax
    BY <1>3, <1>4
  <2> QED
    BY <1>1, <1>3, <2>1 DEF GoneBy, LiveIn, Live
<1>6. LiveIn(Start, Start + SegStart + SegDocMax) = LiveIn(Start, Start + SegStart + Reached)
  <2>1. CASE SkipSegment
    <3>1. Matching = {} /\ Reached = 0
      BY <2>1 DEF SkipSegment, Matcher, Reached
    <3>2. 0 \in 0..SegDocMax /\ SegDocMax \in 0..SegDocMax
      BY <1>4
    <3>3. \A d \in (0 + 1)..SegDocMax : d \notin Matching \ Deleted
      BY <3>1
    <3> QED
      BY <1>1, <3>1, <3>2, <3>3, NoneBetween
  <2>2. CASE Exhausted
    <3>1. Reached = SegDocMax
      BY <2>2 DEF Exhausted, Reached
    <3> QED
      BY <3>1
  <2> QED
    BY <2>1, <2>2
<1> QED
  BY <1>5, <1>6 DEF GoneBy, LiveIn

\* From one segment to the next, when there are no more matches in it.
LEMMA NextSegmentRight ==
  ASSUME SearchInv, SkipSegment \/ Exhausted
  PROVE  SearchInv'
<1>1. /\ Placed /\ LoopRight /\ HitsCounted /\ TotalCounted
      /\ pc \in {"segment", "hit"} /\ pc' = "segment" /\ seg \in DOMAIN Layout[tick]
      /\ seg' = seg + 1
      /\ UNCHANGED <<docs, search, tick, doc, nextDel, coll, merged, total>>
  BY DEF SearchInv, SkipSegment, Exhausted, Matcher, input, Placed, InLoop
<1>3. /\ tick \in DOMAIN Layout /\ Len(Layout[tick]) \in Nat /\ seg \in 1..Len(Layout[tick])
  BY <1>1, Offsets DEF Placed
<1>4. Start' = Start
  BY <1>1 DEF Start
<1>5. Placed'
  BY <1>1, <1>3 DEF Placed, InLoop
<1>6. LoopRight'
  BY <1>1 DEF LoopRight
<1>7. Collecting /\ Collecting' /\ Reached' = 0
  BY <1>1 DEF Collecting, Reached
<1>9. HitsCounted'
  BY <1>1, <1>7, NextSegmentReaches DEF HitsCounted
<1>10. TotalCounted'
  BY <1>1, <1>4, <1>7 DEF TotalCounted, LiveIn, Live
<1> QED
  BY <1>5, <1>6, <1>9, <1>10 DEF SearchInv

LEMMA LoopStepRight ==
  ASSUME SearchInv, CatchUp \/ SkipDeleted \/ AdvancePast \/ NextMatch
  PROVE  SearchInv'
<1>1. Placed /\ LoopRight /\ HitsCounted /\ TotalCounted
  BY DEF SearchInv
<1>2. Placed' /\ LoopRight'
  BY <1>1, LoopStepPlaced
<1>3. HitsCounted'
  BY <1>1, <1>2, LoopStepCounts
<1>4. /\ Collecting /\ Collecting'
      /\ UNCHANGED <<docs, tick, seg, total>>
  BY DEF CatchUp, SkipDeleted, AdvancePast, NextMatch, input, Collecting
<1>5. TotalCounted'
  BY <1>1, <1>4 DEF TotalCounted, LiveIn, Live, Start
<1> QED
  BY <1>2, <1>3, <1>5 DEF SearchInv

\* The results of one Searchable: its hits are added to the total.
LEMMA TopDocsRight ==
  ASSUME SearchInv, TopDocs
  PROVE  SearchInv'
<1>1. /\ Placed /\ LoopRight /\ HitsCounted /\ TotalCounted
      /\ pc = "segment" /\ seg = Len(Layout[tick]) + 1 /\ pc' = "merge"
      /\ total' = total + coll.hits
      /\ UNCHANGED <<docs, search, tick, seg, doc, nextDel, merged>>
  BY DEF SearchInv, TopDocs, input
<1>2. "hits" \in DOMAIN coll'
  BY <1>1 DEF Placed, TopDocs
<1>3. /\ tick \in DOMAIN Layout /\ Start \in Nat /\ Sizes[tick] \in Nat /\ SegStart = Sizes[tick]
  BY <1>1, Offsets DEF Placed, Start, SegStart
<1>4. Placed' /\ LoopRight' /\ HitsCounted'
  BY <1>1, <1>2 DEF Placed, LoopRight, HitsCounted, Collecting, InLoop
<1>5. Collecting /\ ~Collecting' /\ Reached = 0 /\ Start' = Start
  BY <1>1 DEF Collecting, Reached, Start
<1>6. coll.hits = Cardinality(LiveIn(Start, Start + Sizes[tick]))
  <2>1. Start + SegStart + 0 = Start + Sizes[tick]
    BY <1>3
  <2> QED
    BY <1>1, <1>5, <2>1, Counted
<1>7. total = Cardinality(LiveIn(0, Start))
  BY <1>1, <1>5 DEF TotalCounted
<1>8. total' = Cardinality(LiveIn(0, Start + Sizes[tick]))
  <2> DEFINE b == Start + Sizes[tick]
  <2>1. b \in Nat /\ Start <= b
    BY <1>3
  <2> HIDE DEF b
  <2>2. Cardinality(LiveIn(0, b)) = Cardinality(LiveIn(0, Start)) + Cardinality(LiveIn(Start, b))
    BY <1>3, <2>1, LiveAdd
  <2> QED
    BY <1>1, <1>6, <1>7, <2>2 DEF b
<1>9. TotalCounted'
  BY <1>1, <1>5, <1>8 DEF TotalCounted, LiveIn, Live
<1> QED
  BY <1>4, <1>9 DEF SearchInv

LEMMA MergeRight ==
  ASSUME SearchInv, Merge
  PROVE  SearchInv'
<1>1. /\ Placed /\ LoopRight /\ HitsCounted /\ TotalCounted
      /\ pc = "merge" /\ UNCHANGED <<docs, search, pc, tick, seg, doc, nextDel, total>>
  BY DEF SearchInv, Merge, input
<1>2. "hits" \in DOMAIN coll'
  BY <1>1 DEF Placed, Merge
<1>3. Placed' /\ LoopRight' /\ HitsCounted'
  BY <1>1, <1>2 DEF Placed, LoopRight, HitsCounted, Collecting, InLoop
<1>4. TotalCounted'
  BY <1>1 DEF TotalCounted, Collecting, LiveIn, Live, Start
<1> QED
  BY <1>3, <1>4 DEF SearchInv

\* A new SortCollector begins with a Searchable.
LEMMA NextSearchable ==
  ASSUME SearchInv, Merged, tick < Len(Layout)
  PROVE  /\ pc' = "segment" /\ Collecting' /\ merged' = merged
         /\ Start' = Start + Sizes[tick] /\ Start \in Nat /\ Sizes[tick] \in Nat
         /\ GoneBy' = {}
<1>1. /\ Placed /\ pc = "merge" /\ UNCHANGED docs
      /\ pc' = "segment" /\ tick' = tick + 1 /\ seg' = 1 /\ merged' = merged
  BY DEF SearchInv, Merged, input
<1>2. /\ tick \in DOMAIN Layout /\ DOMAIN Layout = 1..Len(Layout) /\ Len(Layout) \in Nat
      /\ Start \in Nat /\ Sizes[tick] \in Nat
  BY <1>1, Offsets, SearchAssumption DEF Placed, Start
<1>3. tick' \in DOMAIN Layout /\ Len(Layout[tick']) \in Nat
  BY <1>1, <1>2, Offsets
<1>4. Start' = Start + Sizes[tick] /\ SegStart' = 0 /\ Reached' = 0
  BY <1>1, <1>2, <1>3, Offsets, SegOffsets DEF Start, SegStart, Reached
<1>5. GoneBy' = {}
  BY <1>2, <1>4 DEF GoneBy
<1> QED
  BY <1>1, <1>2, <1>4, <1>5 DEF Collecting

\* A new SortCollector for the next Searchable, which has counted nothing.
LEMMA MergedRight ==
  ASSUME SearchInv, Merged
  PROVE  SearchInv'
<1>1. /\ Placed /\ LoopRight /\ HitsCounted /\ TotalCounted
      /\ pc = "merge" /\ coll' = NewCollector
      /\ UNCHANGED <<docs, search, doc, nextDel, total>>
  BY DEF SearchInv, Merged, input
<1>2. "hits" \in DOMAIN coll' /\ coll'.hits = 0
  BY <1>1 DEF NewCollector
<1>3. /\ tick \in DOMAIN Layout /\ DOMAIN Layout = 1..Len(Layout) /\ Len(Layout) \in Nat
      /\ Start \in Nat /\ Sizes[tick] \in Nat
  BY <1>1, Offsets, SearchAssumption DEF Placed, Start
<1>4. total = Cardinality(LiveIn(0, Start + Sizes[tick]))
  BY <1>1 DEF TotalCounted, Collecting
<1>5. CASE tick < Len(Layout)
  <2>1. pc' = "segment" /\ tick' = tick + 1 /\ seg' = 1
    BY <1>5 DEF Merged
  <2>2. tick' \in DOMAIN Layout /\ Len(Layout[tick']) \in Nat
    BY <1>3, <1>5, <2>1, Offsets
  <2>3. Placed'
    BY <1>1, <1>2, <2>1, <2>2 DEF Placed, InLoop
  <2>4. LoopRight'
    BY <2>1 DEF LoopRight
  <2>5. Start' = Start + Sizes[tick] /\ Collecting' /\ GoneBy' = {}
    BY <1>5, NextSearchable
  <2>7. HitsCounted'
    BY <1>2, <2>5, FS_EmptySet DEF HitsCounted
  <2>8. TotalCounted'
    BY <1>1, <1>4, <2>5 DEF TotalCounted, LiveIn, Live
  <2> QED
    BY <2>3, <2>4, <2>7, <2>8 DEF SearchInv
<1>6. CASE ~ (tick < Len(Layout))
  <2>1. pc' = "done" /\ UNCHANGED <<tick, seg>>
    BY <1>6 DEF Merged
  <2>2. tick = Len(Layout)
    BY <1>3, <1>6
  <2>3. Placed' /\ LoopRight' /\ HitsCounted'
    BY <1>1, <1>2, <2>1, <2>2 DEF Placed, LoopRight, HitsCounted, Collecting, InLoop
  <2>4. TotalCounted'
    BY <1>1, <1>4, <2>1 DEF TotalCounted, Collecting, LiveIn, Live, Start
  <2> QED
    BY <2>3, <2>4 DEF SearchInv
<1> QED
  BY <1>5, <1>6

LEMMA InitRight == Init => SearchInv
<1> SUFFICES ASSUME Init PROVE SearchInv
  OBVIOUS
<1>1. /\ pc = "segment" /\ tick = 1 /\ seg = 1 /\ doc = 0 /\ nextDel = 0
      /\ coll = NewCollector /\ total = 0
  BY DEF Init
<1>2. 1 \in DOMAIN Layout /\ Len(Layout[1]) \in Nat
  BY SearchAssumption
<1>3. Placed /\ LoopRight
  BY <1>1, <1>2 DEF Placed, LoopRight, NewCollector, InLoop
<1>4. Start = 0 /\ SegStart = 0 /\ Reached = 0 /\ Collecting
  BY <1>1, <1>2, Offsets, SegOffsets DEF Start, SegStart, Reached, Collecting
<1>5. GoneBy = {} /\ LiveIn(0, Start) = {}
  BY <1>4 DEF GoneBy, LiveIn
<1> QED
  BY <1>1, <1>3, <1>4, <1>5, FS_EmptySet DEF SearchInv, HitsCounted, TotalCounted, NewCollector

LEMMA StepRight == SearchInv /\ [Next]_vars => SearchInv'
<1> SUFFICES ASSUME SearchInv, [Next]_vars PROVE SearchInv'
  OBVIOUS
<1>1. CASE EnterSegment
  BY <1>1, EnterRight
<1>2. CASE SkipSegment \/ Exhausted
  BY <1>2, NextSegmentRight
<1>3. CASE CatchUp \/ SkipDeleted \/ AdvancePast \/ NextMatch
  BY <1>3, LoopStepRight
<1>4. CASE Hit
  BY <1>4, HitRight
<1>5. CASE TopDocs
  BY <1>5, TopDocsRight
<1>6. CASE Merge
  BY <1>6, MergeRight
<1>7. CASE Merged
  BY <1>7, MergedRight
<1>8. CASE UNCHANGED vars
  <2>1. UNCHANGED <<docs, search, pc, tick, seg, doc, nextDel, coll, merged, total>>
    BY <1>8 DEF vars, input
  <2> QED
    BY <2>1 DEF SearchInv, Placed, LoopRight, Foreseen, HitsCounted, TotalCounted, LiveIn, Live,
                GoneBy, Reached, Collecting, Start, SegStart, SegDocMax, Matching, Deleted, The
<1> QED
  BY <1>1, <1>2, <1>3, <1>4, <1>5, <1>6, <1>7, <1>8 DEF Next

-----------------------------------------------------------------------------
(* What is counted                                                          *)

\* However documents, matches and deletions are laid out in Searchables and
\* segments, empty ones among them, the two loops of Matcher_collect keep the
\* next deletion ahead of the document they are at, or look for it again
\* before they rely on it, and their counts are right.
THEOREM LoopsRight == Spec => []SearchInv
<1> QED
  BY InitRight, StepRight, PTL DEF Spec

\* At each moment Matcher_collect has handed the collector every matching
\* document that it has gone by and that is not deleted, once, and no other.
THEOREM EachHitOnce == Spec => []HitsCounted
<1>1. SearchInv => HitsCounted
  BY DEF SearchInv
<1> QED
  BY <1>1, LoopsRight, PTL

\* The count of total_hits that PolySearcher_top_docs returns.
TotalRight == pc = "done" => total = Cardinality({g \in 1..DocMax : Live(g)})

\* PolySearcher_top_docs returns the number of the documents, in all segments
\* of all Searchables, that match and are not deleted.
THEOREM TotalHitsRight == Spec => []TotalRight
<1>1. SearchInv => TotalRight
  <2> SUFFICES ASSUME SearchInv, pc = "done"
               PROVE  total = Cardinality({g \in 1..DocMax : Live(g)})
    BY DEF TotalRight
  <2>1. tick = Len(Layout) /\ tick \in DOMAIN Layout /\ ~Collecting
    BY DEF SearchInv, Placed, Collecting
  <2>2. DocMax = Start + Sizes[tick]
    BY <2>1, Offsets DEF Start
  <2>3. total = Cardinality(LiveIn(0, DocMax))
    BY <2>1, <2>2 DEF SearchInv, TotalCounted
  <2> QED
    BY <2>3 DEF LiveIn
<1> QED
  BY <1>1, LoopsRight, PTL

-----------------------------------------------------------------------------
(* The order of hits                                                        *)

Hits == [doc : Nat, score : Nat, value : Nat]

\* A rule puts neither of two hits ahead of the other, or one of them; and a
\* third cannot be level with both when one is ahead.
LEMMA RuleOrders ==
  ASSUME NEW rule \in SortRule, NEW a \in Hits, NEW b \in Hits, NEW c \in Hits
  PROVE  /\ ~ (Prefers(rule, a, b) /\ Prefers(rule, b, a))
         /\ Prefers(rule, a, c) => Prefers(rule, a, b) \/ Prefers(rule, b, c)
<1>1. rule.key \in {"score", "doc", "field"} /\ rule.reverse \in BOOLEAN
  BY DEF SortRule
<1>2. /\ a.doc \in Nat /\ b.doc \in Nat /\ c.doc \in Nat
      /\ a.score \in Nat /\ b.score \in Nat /\ c.score \in Nat
      /\ a.value \in Nat /\ b.value \in Nat /\ c.value \in Nat
  BY DEF Hits
<1>3. CASE rule.key = "score"
  BY <1>2, <1>3 DEF Prefers, Ahead
<1>4. CASE rule.key = "doc"
  BY <1>2, <1>4 DEF Prefers, Ahead
<1>5. CASE rule.key = "field"
  BY <1>2, <1>5 DEF Prefers, Ahead, ValueBefore, Null
<1> QED
  BY <1>1, <1>3, <1>4, <1>5

\* HitQ_less_than ranks hits: of two, not each below the other; and a third is
\* above the one or below the other.
LEMMA Ranks ==
  ASSUME NEW rules \in Seq(SortRule), NEW a \in Hits, NEW b \in Hits, NEW c \in Hits
  PROVE  /\ ~ (LessThan(rules, a, b) /\ LessThan(rules, b, a))
         /\ LessThan(rules, a, c) => LessThan(rules, a, b) \/ LessThan(rules, b, c)
<1> DEFINE P(i, x, y) == Prefers(rules[i], x, y)
           N == Len(rules)
<1>1. N \in Nat /\ DOMAIN rules = 1..N /\ \A i \in 1..N : rules[i] \in SortRule
  OBVIOUS
<1>2. \A i \in 1..N : \A x, y, z \in {a, b, c} :
         ~ (P(i, x, y) /\ P(i, y, x)) /\ (P(i, x, z) => P(i, x, y) \/ P(i, y, z))
  BY <1>1, RuleOrders
<1>3. \A x, y : LessThan(rules, x, y) <=>
         \E i \in 1..N : P(i, y, x) /\ \A j \in 1..(i - 1) : ~P(j, x, y) /\ ~P(j, y, x)
  BY <1>1 DEF LessThan
<1> HIDE DEF P, N
<1>4. ASSUME LessThan(rules, a, b), LessThan(rules, b, a) PROVE FALSE
  <2>1. PICK i \in 1..N : P(i, b, a) /\ \A j \in 1..(i - 1) : ~P(j, a, b) /\ ~P(j, b, a)
    BY <1>3, <1>4
  <2>2. PICK k \in 1..N : P(k, a, b) /\ \A j \in 1..(k - 1) : ~P(j, b, a) /\ ~P(j, a, b)
    BY <1>3, <1>4
  <2>3. i < k => i \in 1..(k - 1)
    BY <1>1
  <2>4. k < i => k \in 1..(i - 1)
    BY <1>1
  <2>5. i = k
    BY <1>1, <2>1, <2>2, <2>3, <2>4
  <2> QED
    BY <1>2, <2>1, <2>2, <2>5
<1>5. ASSUME LessThan(rules, a, c) PROVE LessThan(rules, a, b) \/ LessThan(rules, b, c)
  <2>1. PICK i \in 1..N : P(i, c, a) /\ \A j \in 1..(i - 1) : ~P(j, a, c) /\ ~P(j, c, a)
    BY <1>3, <1>5
  <2> DEFINE tells == {j \in 1..N : P(j, a, b) \/ P(j, b, a) \/ P(j, b, c) \/ P(j, c, b)}
  <2>2. i \in tells
    BY <1>2, <2>1
  <2>3. PICK j \in tells : \A k \in tells : j <= k
    <3>1. tells \in SUBSET Nat /\ tells # {}
      BY <1>1, <2>2
    <3> HIDE DEF tells
    <3> QED
      BY <3>1, Least
  <2>4. j \in 1..N /\ j <= i
    BY <2>2, <2>3
  <2>5. \A k \in 1..(j - 1) : ~P(k, a, b) /\ ~P(k, b, a) /\ ~P(k, b, c) /\ ~P(k, c, b)
    <3> SUFFICES ASSUME NEW k \in 1..(j - 1) PROVE k \notin tells
      BY <1>1, <2>4
    <3>1. k \in Nat /\ j \in Nat /\ ~ (j <= k)
      BY <1>1, <2>4
    <3> HIDE DEF tells
    <3> QED
      BY <2>3, <3>1
  <2>6. ~P(j, a, c)
    <3>1. j = i \/ j \in 1..(i - 1)
      BY <1>1, <2>4
    <3> QED
      BY <1>2, <2>1, <2>4, <3>1
  <2>7. P(j, b, a) \/ P(j, c, b)
    BY <1>2, <2>3, <2>4, <2>6
  <2> QED
    BY <1>3, <2>4, <2>5, <2>7
<1> QED
  BY <1>4, <1>5

-----------------------------------------------------------------------------
(* A heap of hits                                                           *)

Nodes(n) == [1..n -> Hits]

IsChild(k, p) == k = 2 * p \/ k = 2 * p + 1

\* No node is less than its parent; none but i; and none but a child of i.
InOrder(rules, heap) ==
    \A p, k \in 1..Len(heap) : IsChild(k, p) => ~LessThan(rules, heap[k], heap[p])
RisingAt(rules, heap, i) ==
    /\ \A p, k \in 1..Len(heap) : IsChild(k, p) /\ k # i => ~LessThan(rules, heap[k], heap[p])
    /\ \A p, k \in 1..Len(heap) : IsChild(i, p) /\ IsChild(k, i) => ~LessThan(rules, heap[k], heap[p])
SinkingAt(rules, heap, i) ==
    /\ \A p, k \in 1..Len(heap) : IsChild(k, p) /\ p # i => ~LessThan(rules, heap[k], heap[p])
    /\ \A p, k \in 1..Len(heap) : IsChild(i, p) /\ IsChild(k, i) => ~LessThan(rules, heap[k], heap[p])

SameNodes(heap, other) ==
    /\ \A i \in DOMAIN heap : \E j \in DOMAIN other : heap[i] = other[j]
    /\ \A j \in DOMAIN other : \E i \in DOMAIN heap : heap[i] = other[j]

LEMMA NodesAre ==
  ASSUME NEW n \in Nat, NEW heap \in Nodes(n)
  PROVE  /\ Len(heap) = n /\ DOMAIN heap = 1..n /\ heap \in Seq(Hits)
         /\ \A i \in 1..n : heap[i] \in Hits
<1>1. heap \in [1..n -> Hits]
  BY DEF Nodes
<1> QED
  BY <1>1

LEMMA SeqIsNodes ==
  ASSUME NEW heap \in Seq(Hits)
  PROVE  heap \in Nodes(Len(heap)) /\ Len(heap) \in Nat
BY DEF Nodes

LEMMA Swapped ==
  ASSUME NEW n \in Nat, NEW heap \in Nodes(n), NEW i \in 1..n, NEW j \in 1..n
  PROVE  /\ SwapNodes(heap, i, j) \in Nodes(n)
         /\ SameNodes(SwapNodes(heap, i, j), heap)
         /\ \A k \in 1..n : SwapNodes(heap, i, j)[k]
                              = IF k = j THEN heap[i] ELSE IF k = i THEN heap[j] ELSE heap[k]
<1>1. heap \in [1..n -> Hits] /\ DOMAIN heap = 1..n
  BY DEF Nodes
<1>2. SwapNodes(heap, i, j)
        = [k \in 1..n |-> IF k = j THEN heap[i] ELSE IF k = i THEN heap[j] ELSE heap[k]]
  BY <1>1 DEF SwapNodes
<1>3. SwapNodes(heap, i, j) \in Nodes(n)
  BY <1>1, <1>2 DEF Nodes
<1>4. SameNodes(SwapNodes(heap, i, j), heap)
  BY <1>1, <1>2 DEF SameNodes
<1> QED
  BY <1>2, <1>3, <1>4

LEMMA SameNodesTrans ==
  ASSUME NEW a, NEW b, NEW c, SameNodes(a, b), SameNodes(b, c)
  PROVE  SameNodes(a, c)
BY DEF SameNodes

LEMMA ParentIs ==
  ASSUME NEW i \in Nat, i > 1
  PROVE  i \div 2 \in 1..(i - 1) /\ IsChild(i, i \div 2)
BY DEF IsChild

LEMMA RootLeast ==
  ASSUME NEW rules \in Seq(SortRule), NEW n \in Nat, NEW heap \in Nodes(n),
         InOrder(rules, heap)
  PROVE  \A i \in 1..n : ~LessThan(rules, heap[i], heap[1])
<1>1. Len(heap) = n /\ \A i \in 1..n : heap[i] \in Hits
  BY NodesAre
<1> DEFINE bad == {i \in 1..n : LessThan(rules, heap[i], heap[1])}
<1>2. SUFFICES ASSUME bad # {} PROVE FALSE
  OBVIOUS
<1>3. PICK i \in bad : \A j \in bad : i <= j
  <2>1. bad \in SUBSET Nat
    OBVIOUS
  <2> HIDE DEF bad
  <2> QED
    BY <1>2, <2>1, Least
<1>4. i \in 1..n /\ 1 \in 1..n /\ LessThan(rules, heap[i], heap[1])
  OBVIOUS
<1>5. i # 1
  BY <1>1, <1>4, Ranks
<1> DEFINE p == i \div 2
<1>6. p \in 1..(i - 1) /\ IsChild(i, p)
  BY <1>4, <1>5, ParentIs
<1> HIDE DEF p
<1>7. p \in 1..n /\ p < i
  BY <1>4, <1>6
<1>8. ~LessThan(rules, heap[i], heap[p])
  BY <1>1, <1>4, <1>6, <1>7 DEF InOrder
<1>9. p \in bad
  BY <1>1, <1>4, <1>7, <1>8, Ranks
<1> HIDE DEF bad
<1> QED
  BY <1>3, <1>4, <1>7, <1>9

\* One turn of S_up_heap.
LEMMA RiseKeeps ==
  ASSUME NEW rules \in Seq(SortRule), NEW n \in Nat, NEW h \in Nodes(n),
         NEW i \in 1..n, NEW j \in 1..n, IsChild(i, j),
         RisingAt(rules, h, i), LessThan(rules, h[i], h[j])
  PROVE  RisingAt(rules, SwapNodes(h, i, j), j)
<1> DEFINE g == SwapNodes(h, i, j)
           Lt(a, b) == LessThan(rules, a, b)
<1>1. /\ Len(h) = n /\ \A k \in 1..n : h[k] \in Hits
      /\ Len(g) = n
      /\ \A k \in 1..n : g[k] = IF k = j THEN h[i] ELSE IF k = i THEN h[j] ELSE h[k]
  BY Swapped, NodesAre
<1>2. \A a, b, c \in Hits : ~ (Lt(a, b) /\ Lt(b, a)) /\ (Lt(a, c) => Lt(a, b) \/ Lt(b, c))
  BY Ranks
<1>3. /\ \A p, k \in 1..n : IsChild(k, p) /\ k # i => ~Lt(h[k], h[p])
      /\ \A p, k \in 1..n : IsChild(i, p) /\ IsChild(k, i) => ~Lt(h[k], h[p])
      /\ Lt(h[i], h[j])
  BY <1>1 DEF RisingAt
<1>4. \A p, k \in 1..n : IsChild(k, p) => p < k
  BY DEF IsChild
<1>5. \A p, q, k \in 1..n : IsChild(k, p) /\ IsChild(k, q) => p = q
  BY DEF IsChild
<1> HIDE DEF g, Lt
<1>6. ASSUME NEW p \in 1..n, NEW k \in 1..n, IsChild(k, p), k # j
      PROVE  ~Lt(g[k], g[p])
  <2>1. CASE p = j /\ k = i
    BY <1>1, <1>2, <1>3, <1>4, <2>1
  <2>2. CASE p = j /\ k # i
    <3>1. g[k] = h[k] /\ g[p] = h[i] /\ ~Lt(h[k], h[j])
      BY <1>1, <1>3, <1>6, <2>2
    <3> QED
      BY <1>1, <1>2, <1>3, <3>1
  <2>3. CASE p = i
    <3>1. g[k] = h[k] /\ g[p] = h[j]
      BY <1>1, <1>4, <1>6, <2>3
    <3> QED
      BY <1>3, <1>6, <2>3, <3>1
  <2>4. CASE p # j /\ p # i
    <3>1. k # i
      BY <1>5, <1>6, <2>4
    <3> QED
      BY <1>1, <1>3, <1>6, <2>4, <3>1
  <2> QED
    BY <2>1, <2>2, <2>3, <2>4
<1>7. ASSUME NEW p \in 1..n, NEW k \in 1..n, IsChild(j, p), IsChild(k, j)
      PROVE  ~Lt(g[k], g[p])
  <2>1. p < j /\ j < i /\ p # i /\ k # j
    BY <1>4, <1>7
  <2>2. g[p] = h[p] /\ ~Lt(h[j], h[p])
    BY <1>1, <1>3, <1>7, <2>1
  <2>3. CASE k = i
    BY <1>1, <2>1, <2>2, <2>3
  <2>4. CASE k # i
    <3>1. g[k] = h[k] /\ ~Lt(h[k], h[j])
      BY <1>1, <1>3, <1>7, <2>1, <2>4
    <3> QED
      BY <1>1, <1>2, <2>2, <3>1
  <2> QED
    BY <2>3, <2>4
<1> QED
  BY <1>1, <1>6, <1>7 DEF RisingAt, g, Lt

\* One turn of S_down_heap.
LEMMA SinkKeeps ==
  ASSUME NEW rules \in Seq(SortRule), NEW n \in Nat, NEW h \in Nodes(n),
         NEW i \in 1..n, NEW j \in 1..n, IsChild(j, i),
         SinkingAt(rules, h, i), LessThan(rules, h[j], h[i]),
         \A k \in 1..n : IsChild(k, i) => ~LessThan(rules, h[k], h[j])
  PROVE  SinkingAt(rules, SwapNodes(h, i, j), j)
<1> DEFINE g == SwapNodes(h, i, j)
           Lt(a, b) == LessThan(rules, a, b)
<1>1. /\ Len(h) = n /\ \A k \in 1..n : h[k] \in Hits
      /\ Len(g) = n
      /\ \A k \in 1..n : g[k] = IF k = j THEN h[i] ELSE IF k = i THEN h[j] ELSE h[k]
  BY Swapped, NodesAre
<1>2. \A a, b, c \in Hits : ~ (Lt(a, b) /\ Lt(b, a)) /\ (Lt(a, c) => Lt(a, b) \/ Lt(b, c))
  BY Ranks
<1>3. /\ \A p, k \in 1..n : IsChild(k, p) /\ p # i => ~Lt(h[k], h[p])
      /\ \A p, k \in 1..n : IsChild(i, p) /\ IsChild(k, i) => ~Lt(h[k], h[p])
      /\ Lt(h[j], h[i]) /\ \A k \in 1..n : IsChild(k, i) => ~Lt(h[k], h[j])
  BY <1>1 DEF SinkingAt
<1>4. \A p, k \in 1..n : IsChild(k, p) => p < k
  BY DEF IsChild
<1>5. \A p, q, k \in 1..n : IsChild(k, p) /\ IsChild(k, q) => p = q
  BY DEF IsChild
<1> HIDE DEF g, Lt
<1>6. ASSUME NEW p \in 1..n, NEW k \in 1..n, IsChild(k, p), p # j
      PROVE  ~Lt(g[k], g[p])
  <2>1. CASE p = i /\ k = j
    BY <1>1, <1>2, <1>3, <1>4, <2>1
  <2>2. CASE p = i /\ k # j
    <3>1. g[k] = h[k] /\ g[p] = h[j]
      BY <1>1, <1>4, <1>6, <2>2
    <3> QED
      BY <1>3, <1>6, <2>2, <3>1
  <2>3. CASE p # i /\ k = i
    <3>1. g[k] = h[j] /\ g[p] = h[p]
      BY <1>1, <1>4, <1>6, <2>3
    <3> QED
      BY <1>3, <1>6, <2>3, <3>1
  <2>4. CASE p # i /\ k # i
    <3>1. k # j
      BY <1>5, <1>6, <2>4
    <3> QED
      BY <1>1, <1>3, <1>6, <2>4, <3>1
  <2> QED
    BY <2>1, <2>2, <2>3, <2>4
<1>7. ASSUME NEW p \in 1..n, NEW k \in 1..n, IsChild(j, p), IsChild(k, j)
      PROVE  ~Lt(g[k], g[p])
  <2>1. p = i /\ j < k /\ i < j
    BY <1>4, <1>5, <1>7
  <2>2. g[p] = h[j] /\ g[k] = h[k]
    BY <1>1, <2>1
  <2> QED
    BY <1>3, <1>7, <2>1, <2>2
<1> QED
  BY <1>1, <1>6, <1>7 DEF SinkingAt, g, Lt

LEMMA SmallerIs ==
  ASSUME NEW rules \in Seq(SortRule), NEW n \in Nat, NEW h \in Nodes(n), NEW i \in 1..n
  PROVE  LET j == Smaller(rules, h, i)
         IN  /\ IsChild(j, i) /\ j \in Nat /\ i < j
             /\ j <= n => \A k \in 1..n : IsChild(k, i) => ~LessThan(rules, h[k], h[j])
             /\ j > n => \A k \in 1..n : ~IsChild(k, i)
<1>1. Len(h) = n /\ \A k \in 1..n : h[k] \in Hits
  BY NodesAre
<1>2. \A a, b \in Hits : ~ (LessThan(rules, a, b) /\ LessThan(rules, b, a))
  BY Ranks
<1>3. 2 * i \in Nat /\ 2 * i > i /\ \A k \in 1..n : IsChild(k, i) => k = 2 * i \/ k = 2 * i + 1
  BY DEF IsChild
<1>4. CASE 2 * i + 1 <= n /\ LessThan(rules, h[2 * i + 1], h[2 * i])
  <2>1. Smaller(rules, h, i) = 2 * i + 1 /\ 2 * i \in 1..n /\ 2 * i + 1 \in 1..n
    BY <1>1, <1>3, <1>4 DEF Smaller
  <2> QED
    BY <1>1, <1>2, <1>3, <1>4, <2>1 DEF IsChild
<1>5. CASE ~ (2 * i + 1 <= n /\ LessThan(rules, h[2 * i + 1], h[2 * i]))
  <2>1. Smaller(rules, h, i) = 2 * i
    BY <1>1, <1>5 DEF Smaller
  <2>2. ASSUME NEW k \in 1..n, IsChild(k, i), 2 * i <= n PROVE ~LessThan(rules, h[k], h[2 * i])
    <3>1. CASE k = 2 * i
      BY <1>1, <1>2, <3>1
    <3>2. CASE k = 2 * i + 1
      BY <1>5, <3>2
    <3> QED
      BY <1>3, <2>2, <3>1, <3>2
  <2>3. ASSUME NEW k \in 1..n, IsChild(k, i) PROVE 2 * i <= n
    BY <1>3, <2>3
  <2> QED
    BY <1>3, <2>1, <2>2, <2>3 DEF IsChild
<1> QED
  BY <1>4, <1>5

-----------------------------------------------------------------------------
(* Loops                                                                    *)

\* f is what a loop gives that goes from place to place until it stops.
LoopIs(f, D, stop, next, out) == f = [d \in D |-> IF d \in stop THEN out[d] ELSE f[next[d]]]

\* A loop that gets lower with each turn is a function.
LEMMA LoopExists ==
  ASSUME NEW D, NEW stop, NEW next, NEW out, NEW N \in Nat, NEW level \in [D -> 0..N],
         \A d \in D \ stop : next[d] \in D /\ level[next[d]] < level[d]
  PROVE  \E f : LoopIs(f, D, stop, next, out)
<1> DEFINE Level(m) == {d \in D : level[d] < m}
           bad == {m \in 0..(N + 1) : ~ \E f : LoopIs(f, Level(m), stop, next, out)}
<1>1. Level(N + 1) = D /\ \A d \in D : level[d] \in 0..N
  OBVIOUS
<1>2. SUFFICES ASSUME bad # {} PROVE FALSE
  <2>1. bad = {} /\ N + 1 \in 0..(N + 1)
    BY <1>2
  <2> QED
    BY <1>1, <2>1
<1>3. PICK m \in bad : \A l \in bad : m <= l
  <2>1. bad \in SUBSET Nat
    OBVIOUS
  <2> HIDE DEF bad
  <2> QED
    BY <1>2, <2>1, Least
<1>4. m \in 0..(N + 1) /\ ~ \E f : LoopIs(f, Level(m), stop, next, out)
  OBVIOUS
<1>5. m # 0
  <2>1. Level(0) = {}
    BY <1>1
  <2>2. LoopIs([d \in {} |-> 0], {}, stop, next, out)
    BY DEF LoopIs
  <2> QED
    BY <1>4, <2>1, <2>2
<1>6. m - 1 \in 0..(N + 1) /\ m - 1 \notin bad
  <2>1. m - 1 \in 0..(N + 1) /\ ~ (m <= m - 1)
    BY <1>4, <1>5
  <2> HIDE DEF bad
  <2> QED
    BY <1>3, <2>1
<1>7. PICK f : LoopIs(f, Level(m - 1), stop, next, out)
  BY <1>6
<1> DEFINE g == [d \in Level(m) |-> IF d \in stop THEN out[d] ELSE f[next[d]]]
<1>8. ASSUME NEW d \in Level(m), d \notin stop
      PROVE  next[d] \in Level(m - 1) /\ next[d] \in Level(m)
  BY <1>1, <1>4, <1>5, <1>8
<1>9. ASSUME NEW d \in Level(m - 1)
      PROVE  f[d] = IF d \in stop THEN out[d] ELSE f[next[d]]
  BY <1>7 DEF LoopIs
<1>10. ASSUME NEW d \in Level(m), d \notin stop
       PROVE  g[next[d]] = f[next[d]]
  <2>1. next[d] \in Level(m) /\ next[d] \in Level(m - 1)
    BY <1>8, <1>10
  <2>2. f[next[d]] = IF next[d] \in stop THEN out[next[d]] ELSE f[next[next[d]]]
    BY <1>9, <2>1
  <2> HIDE DEF Level
  <2> QED
    BY <2>1, <2>2
<1>11. LoopIs(g, Level(m), stop, next, out)
  <2> HIDE DEF Level
  <2>1. g = [d \in Level(m) |-> IF d \in stop THEN out[d] ELSE g[next[d]]]
    BY <1>10
  <2> HIDE DEF g
  <2> QED
    BY <2>1 DEF LoopIs
<1> QED
  BY <1>4, <1>11

\* Every turn keeps a loop where it is good and gets it lower, and where it is
\* good to stop it gives what it is to give.
LoopKeeps(f, D, stop, next, out, level, good, goal) ==
    /\ LoopIs(f, D, stop, next, out) /\ good \subseteq D /\ level \in [D -> Nat]
    /\ \A d \in good : d \in stop => out[d] \in goal
    /\ \A d \in good \ stop : next[d] \in good /\ level[next[d]] < level[d]

LEMMA LoopGives ==
  ASSUME NEW f, NEW D, NEW stop, NEW next, NEW out, NEW level, NEW good, NEW goal,
         LoopKeeps(f, D, stop, next, out, level, good, goal)
  PROVE  \A d \in good : f[d] \in goal
<1> USE DEF LoopKeeps
<1> DEFINE bad == {level[d] : d \in {e \in good : f[e] \notin goal}}
<1>1. \A d \in good : f[d] = IF d \in stop THEN out[d] ELSE f[next[d]]
  BY DEF LoopIs
<1>2. SUFFICES ASSUME bad # {} PROVE FALSE
  OBVIOUS
<1>3. PICK m \in bad : \A l \in bad : m <= l
  <2>1. bad \in SUBSET Nat
    OBVIOUS
  <2> HIDE DEF bad
  <2> QED
    BY <1>2, <2>1, Least
<1>4. PICK d \in good : f[d] \notin goal /\ m = level[d]
  OBVIOUS
<1>5. d \notin stop
  BY <1>1, <1>4
<1>6. next[d] \in good /\ level[next[d]] < level[d] /\ f[next[d]] \notin goal
  BY <1>1, <1>4, <1>5
<1>7. level[next[d]] \in bad
  BY <1>6
<1>8. level[d] \in Nat /\ level[next[d]] \in Nat
  BY <1>4, <1>6
<1> HIDE DEF bad
<1> QED
  BY <1>3, <1>4, <1>6, <1>7, <1>8

LEMMA PlacesAre ==
  ASSUME NEW n \in Nat, NEW heap \in Nodes(n)
  PROVE  /\ \A at \in Places(heap) : at.heap \in Nodes(n) /\ at.node \in 1..n
         /\ \A at \in Places(heap), j \in 1..n :
               /\ MoveTo(at, j) \in Places(heap)
               /\ MoveTo(at, j).heap = SwapNodes(at.heap, at.node, j)
               /\ MoveTo(at, j).node = j
         /\ \A i \in 1..n : [heap |-> heap, node |-> i] \in Places(heap)
<1>1. DOMAIN heap = 1..n /\ Range(heap) \subseteq Hits /\ heap \in [1..n -> Range(heap)]
  BY DEF Nodes, Range
<1>2. Places(heap) = [heap : [1..n -> Range(heap)], node : 1..n]
  BY <1>1 DEF Places
<1>3. ASSUME NEW at \in Places(heap) PROVE at.heap \in Nodes(n) /\ at.node \in 1..n
  BY <1>1, <1>2 DEF Nodes
<1>4. ASSUME NEW at \in Places(heap), NEW j \in 1..n
      PROVE  /\ MoveTo(at, j) \in Places(heap)
             /\ MoveTo(at, j).heap = SwapNodes(at.heap, at.node, j)
             /\ MoveTo(at, j).node = j
  <2>1. at.heap \in [1..n -> Range(heap)] /\ at.node \in 1..n
    BY <1>2
  <2>2. SwapNodes(at.heap, at.node, j) \in [1..n -> Range(heap)]
    BY <2>1 DEF SwapNodes
  <2> QED
    BY <1>2, <2>2 DEF MoveTo
<1> QED
  BY <1>1, <1>2, <1>3, <1>4

\* S_up_heap puts a heap in order whose last node alone may be too low.
LEMMA UpHeapIs ==
  ASSUME NEW rules \in Seq(SortRule), NEW n \in Nat, n # 0, NEW heap \in Nodes(n),
         RisingAt(rules, heap, n)
  PROVE  /\ UpHeap(rules, heap) \in Nodes(n)
         /\ SameNodes(UpHeap(rules, heap), heap)
         /\ InOrder(rules, UpHeap(rules, heap))
<1> DEFINE D == Places(heap)
           stop == {at \in D : ~Rises(rules, at)}
           next == [at \in D |-> IF Rises(rules, at) THEN MoveTo(at, at.node \div 2) ELSE at]
           out == [at \in D |-> at.heap]
           level == [at \in D |-> at.node]
           good == {at \in D : SameNodes(at.heap, heap) /\ RisingAt(rules, at.heap, at.node)}
           goal == {h \in Nodes(n) : SameNodes(h, heap) /\ InOrder(rules, h)}
           last == [heap |-> heap, node |-> n]
<1>1. /\ \A at \in D : at.heap \in Nodes(n) /\ at.node \in 1..n /\ Len(at.heap) = n
      /\ \A at \in D, j \in 1..n :
            /\ MoveTo(at, j) \in D
            /\ MoveTo(at, j).heap = SwapNodes(at.heap, at.node, j)
            /\ MoveTo(at, j).node = j
      /\ last \in D /\ Len(heap) = n
  BY PlacesAre, NodesAre
<1>2. ASSUME NEW at \in D, Rises(rules, at)
      PROVE  /\ at.node \div 2 \in 1..n /\ at.node \div 2 < at.node
             /\ IsChild(at.node, at.node \div 2)
             /\ LessThan(rules, at.heap[at.node], at.heap[at.node \div 2])
  <2>1. at.node \div 2 > 0 /\ LessThan(rules, at.heap[at.node], at.heap[at.node \div 2])
    BY <1>2 DEF Rises
  <2>2. at.node \in 1..n /\ at.node > 1
    <3>1. \A i \in 1..n : i \div 2 > 0 => i > 1
      OBVIOUS
    <3> QED
      BY <1>1, <2>1, <3>1
  <2>3. at.node \div 2 \in 1..(at.node - 1) /\ IsChild(at.node, at.node \div 2)
    BY <2>2, ParentIs
  <2> QED
    BY <2>1, <2>2, <2>3
<1>3. ASSUME NEW at \in D \ stop
      PROVE  next[at] \in D /\ level[next[at]] < level[at] /\ next[at] = MoveTo(at, at.node \div 2)
  <2>1. Rises(rules, at)
    OBVIOUS
  <2>2. next[at] = MoveTo(at, at.node \div 2)
    BY <2>1
  <2>3. MoveTo(at, at.node \div 2) \in D /\ MoveTo(at, at.node \div 2).node < at.node
    BY <1>1, <1>2, <2>1
  <2> HIDE DEF D
  <2> QED
    BY <2>2, <2>3
<1>4. level \in [D -> 0..n] /\ level \in [D -> Nat]
  BY <1>1
<1>5. \A f : LoopIs(f, D, stop, next, out) <=>
         f = [at \in D |-> IF Rises(rules, at) THEN f[MoveTo(at, at.node \div 2)] ELSE at.heap]
  <2> HIDE DEF D
  <2> SUFFICES ASSUME NEW f
               PROVE  [at \in D |-> IF at \in stop THEN out[at] ELSE f[next[at]]]
                        = [at \in D |-> IF Rises(rules, at) THEN f[MoveTo(at, at.node \div 2)]
                                        ELSE at.heap]
    BY DEF LoopIs
  <2> QED
    OBVIOUS
<1>6. PICK f : LoopIs(f, D, stop, next, out) /\ UpHeap(rules, heap) = f[last]
  <2>1. \E f : LoopIs(f, D, stop, next, out)
    <3> HIDE DEF D, stop, next, out, level
    <3> QED
      BY <1>3, <1>4, LoopExists
  <2> HIDE DEF stop, next, out
  <2> QED
    BY <1>1, <1>5, <2>1 DEF UpHeap
<1>7. \A at \in good : at \in stop => out[at] \in goal
  <2> SUFFICES ASSUME NEW at \in good, ~Rises(rules, at) PROVE at.heap \in goal
    OBVIOUS
  <2>1. /\ at \in D /\ SameNodes(at.heap, heap) /\ RisingAt(rules, at.heap, at.node)
        /\ at.heap \in Nodes(n) /\ at.node \in 1..n /\ Len(at.heap) = n
    BY <1>1
  <2> DEFINE h == at.heap
             i == at.node
  <2>2. ASSUME NEW p \in 1..n, NEW k \in 1..n, IsChild(k, p)
        PROVE  ~LessThan(rules, h[k], h[p])
    <3>1. CASE k = i
      <4>1. p = i \div 2 /\ p > 0
        BY <2>2, <3>1 DEF IsChild
      <4> QED
        BY <3>1, <4>1 DEF Rises
    <3>2. CASE k # i
      BY <2>1, <2>2, <3>2 DEF RisingAt
    <3> QED
      BY <3>1, <3>2
  <2> QED
    BY <2>1, <2>2 DEF InOrder
<1>8. ASSUME NEW at \in good \ stop
      PROVE  next[at] \in good
  <2>1. /\ at \in D \ stop /\ SameNodes(at.heap, heap) /\ RisingAt(rules, at.heap, at.node)
        /\ at.heap \in Nodes(n) /\ at.node \in 1..n /\ Rises(rules, at)
    BY <1>1
  <2> DEFINE j == at.node \div 2
             g == SwapNodes(at.heap, at.node, j)
  <2>2. j \in 1..n /\ IsChild(at.node, j) /\ LessThan(rules, at.heap[at.node], at.heap[j])
    BY <1>2, <2>1
  <2>3. next[at] \in D /\ next[at].heap = g /\ next[at].node = j
    BY <1>1, <1>3, <2>1, <2>2
  <2> HIDE DEF j
  <2>4. SameNodes(g, at.heap) /\ RisingAt(rules, g, j)
    BY <2>1, <2>2, Swapped, RiseKeeps
  <2>5. SameNodes(g, heap)
    BY <2>1, <2>4, SameNodesTrans
  <2> QED
    BY <2>3, <2>4, <2>5
<1>9. last \in good
  <2>1. SameNodes(heap, heap)
    BY DEF SameNodes
  <2> QED
    BY <1>1, <2>1
<1>10. good \in SUBSET D
  OBVIOUS
<1>11. f[last] \in goal
  <2>1. \A at \in good \ stop : next[at] \in good /\ level[next[at]] < level[at]
    BY <1>3, <1>8
  <2> HIDE DEF D, stop, next, out, level, good, goal, last
  <2>2. LoopKeeps(f, D, stop, next, out, level, good, goal)
    BY <1>4, <1>6, <1>7, <1>10, <2>1 DEF LoopKeeps
  <2>3. \A at \in good : f[at] \in goal
    BY <2>2, LoopGives
  <2> QED
    BY <1>9, <2>3
<1> QED
  BY <1>6, <1>11

\* S_down_heap puts a heap in order whose first node alone may be too high.
LEMMA DownHeapIs ==
  ASSUME NEW rules \in Seq(SortRule), NEW n \in Nat, n # 0, NEW heap \in Nodes(n)
  PROVE  /\ DownHeap(rules, heap) \in Nodes(n)
         /\ SameNodes(DownHeap(rules, heap), heap)
         /\ SinkingAt(rules, heap, 1) => InOrder(rules, DownHeap(rules, heap))
<1> DEFINE D == Places(heap)
           To(at) == Smaller(rules, at.heap, at.node)
           stop == {at \in D : ~Sinks(rules, at)}
           next == [at \in D |-> IF Sinks(rules, at) THEN MoveTo(at, To(at)) ELSE at]
           out == [at \in D |-> at.heap]
           level == [at \in D |-> n - at.node]
           was == SinkingAt(rules, heap, 1)
           good == {at \in D : /\ SameNodes(at.heap, heap)
                               /\ was => SinkingAt(rules, at.heap, at.node)}
           goal == {h \in Nodes(n) : SameNodes(h, heap) /\ (was => InOrder(rules, h))}
           root == [heap |-> heap, node |-> 1]
<1>1. /\ \A at \in D : at.heap \in Nodes(n) /\ at.node \in 1..n /\ Len(at.heap) = n
      /\ \A at \in D, j \in 1..n :
            /\ MoveTo(at, j) \in D
            /\ MoveTo(at, j).heap = SwapNodes(at.heap, at.node, j)
            /\ MoveTo(at, j).node = j
      /\ root \in D /\ Len(heap) = n
  BY PlacesAre, NodesAre
<1>2. ASSUME NEW at \in D
      PROVE  /\ IsChild(To(at), at.node) /\ To(at) \in Nat /\ at.node < To(at)
             /\ To(at) <= n => \A k \in 1..n : IsChild(k, at.node) =>
                                  ~LessThan(rules, at.heap[k], at.heap[To(at)])
             /\ To(at) > n => \A k \in 1..n : ~IsChild(k, at.node)
             /\ Sinks(rules, at) <=>
                   To(at) <= n /\ LessThan(rules, at.heap[To(at)], at.heap[at.node])
  BY <1>1, SmallerIs DEF Sinks
<1> HIDE DEF To
<1>3. ASSUME NEW at \in D \ stop
      PROVE  next[at] \in D /\ level[next[at]] < level[at] /\ next[at] = MoveTo(at, To(at))
  <2>1. Sinks(rules, at)
    OBVIOUS
  <2>2. next[at] = MoveTo(at, To(at))
    BY <2>1
  <2>3. /\ MoveTo(at, To(at)) \in D /\ MoveTo(at, To(at)).node > at.node
        /\ MoveTo(at, To(at)).node \in 1..n /\ at.node \in 1..n
    <3>1. To(at) \in 1..n /\ To(at) > at.node /\ at.node \in 1..n
      <4> HIDE DEF D
      <4> QED
        BY <1>1, <1>2, <2>1
    <3> QED
      BY <1>1, <3>1
  <2> HIDE DEF D
  <2> QED
    BY <2>2, <2>3
<1>4. level \in [D -> 0..n] /\ level \in [D -> Nat]
  <2>1. \A at \in D : at.node \in 1..n
    BY <1>1
  <2>2. \A i \in 1..n : n - i \in 0..n
    OBVIOUS
  <2> HIDE DEF D
  <2> QED
    BY <2>1, <2>2
<1>5. \A f : LoopIs(f, D, stop, next, out) <=>
         f = [at \in D |-> IF Sinks(rules, at) THEN f[MoveTo(at, To(at))] ELSE at.heap]
  <2> HIDE DEF D
  <2> SUFFICES ASSUME NEW f
               PROVE  [at \in D |-> IF at \in stop THEN out[at] ELSE f[next[at]]]
                        = [at \in D |-> IF Sinks(rules, at) THEN f[MoveTo(at, To(at))] ELSE at.heap]
    BY DEF LoopIs
  <2> QED
    OBVIOUS
<1>6. PICK f : LoopIs(f, D, stop, next, out) /\ DownHeap(rules, heap) = f[root]
  <2>1. \E f : LoopIs(f, D, stop, next, out)
    <3> HIDE DEF D, stop, next, out, level
    <3> QED
      BY <1>3, <1>4, LoopExists
  <2> HIDE DEF stop, next, out
  <2> QED
    BY <1>1, <1>5, <2>1 DEF DownHeap, To
<1>7. \A at \in good : at \in stop => out[at] \in goal
  <2> SUFFICES ASSUME NEW at \in good, ~Sinks(rules, at) PROVE at.heap \in goal
    OBVIOUS
  <2>1. /\ at \in D /\ SameNodes(at.heap, heap) /\ (was => SinkingAt(rules, at.heap, at.node))
        /\ at.heap \in Nodes(n) /\ at.node \in 1..n /\ Len(at.heap) = n
        /\ \A k \in 1..n : at.heap[k] \in Hits
    BY <1>1, NodesAre
  <2> DEFINE h == at.heap
             i == at.node
  <2>2. ASSUME was, NEW p \in 1..n, NEW k \in 1..n, IsChild(k, p)
        PROVE  ~LessThan(rules, h[k], h[p])
    <3>1. CASE p = i
      <4> DEFINE j == To(at)
      <4>1. j \in 1..n /\ ~LessThan(rules, h[k], h[j]) /\ ~LessThan(rules, h[j], h[i])
        BY <1>2, <2>1, <2>2, <3>1
      <4> QED
        BY <2>1, <3>1, <4>1, Ranks
    <3>2. CASE p # i
      BY <2>1, <2>2, <3>2 DEF SinkingAt
    <3> QED
      BY <3>1, <3>2
  <2> QED
    BY <2>1, <2>2 DEF InOrder
<1>8. ASSUME NEW at \in good \ stop
      PROVE  next[at] \in good
  <2>1. /\ at \in D \ stop /\ SameNodes(at.heap, heap)
        /\ was => SinkingAt(rules, at.heap, at.node)
        /\ at.heap \in Nodes(n) /\ at.node \in 1..n /\ Sinks(rules, at)
    BY <1>1
  <2> DEFINE j == To(at)
             g == SwapNodes(at.heap, at.node, j)
  <2>2. /\ j \in 1..n /\ IsChild(j, at.node) /\ LessThan(rules, at.heap[j], at.heap[at.node])
        /\ \A k \in 1..n : IsChild(k, at.node) => ~LessThan(rules, at.heap[k], at.heap[j])
    BY <1>2, <2>1
  <2>3. next[at] \in D /\ next[at].heap = g /\ next[at].node = j
    BY <1>1, <1>3, <2>1, <2>2
  <2> HIDE DEF j, was
  <2>4. SameNodes(g, at.heap) /\ (was => SinkingAt(rules, g, j))
    BY <2>1, <2>2, Swapped, SinkKeeps
  <2>5. SameNodes(g, heap)
    BY <2>1, <2>4, SameNodesTrans
  <2> QED
    BY <2>3, <2>4, <2>5
<1>9. root \in good
  <2>1. SameNodes(heap, heap)
    BY DEF SameNodes
  <2> QED
    BY <1>1, <2>1
<1>10. good \in SUBSET D
  OBVIOUS
<1>11. f[root] \in goal
  <2>1. \A at \in good \ stop : next[at] \in good /\ level[next[at]] < level[at]
    BY <1>3, <1>8
  <2> HIDE DEF D, stop, next, out, level, good, goal, root
  <2>2. LoopKeeps(f, D, stop, next, out, level, good, goal)
    BY <1>4, <1>6, <1>7, <1>10, <2>1 DEF LoopKeeps
  <2>3. \A at \in good : f[at] \in goal
    BY <2>2, LoopGives
  <2> QED
    BY <1>9, <2>3
<1> QED
  BY <1>6, <1>11

-----------------------------------------------------------------------------
(* A queue of hits                                                          *)

IsQueue(rules, heap) == heap \in Seq(Hits) /\ InOrder(rules, heap)

\* No hit is in it twice.
Distinct(heap) == \A i, j \in DOMAIN heap : heap[i] = heap[j] => i = j

LEMMA RangeIs ==
  ASSUME NEW heap \in Seq(Hits)
  PROVE  /\ Range(heap) \subseteq Hits /\ IsFiniteSet(Range(heap))
         /\ Cardinality(Range(heap)) \in Nat /\ Cardinality(Range(heap)) <= Len(heap)
         /\ Distinct(heap) <=> Cardinality(Range(heap)) = Len(heap)
<1> DEFINE n == Len(heap)
           R == Range(heap)
<1>1. n \in Nat /\ heap \in [1..n -> Hits] /\ DOMAIN heap = 1..n
  OBVIOUS
<1>2. R \subseteq Hits /\ heap \in [1..n -> R] /\ \A r \in R : \E i \in 1..n : heap[i] = r
  BY <1>1 DEF Range
<1>3. heap \in Surjection(1..n, R)
  BY <1>2 DEF Surjection
<1>4. IsFiniteSet(1..n) /\ Cardinality(1..n) = n
  BY <1>1, FS_Interval
<1>5. Distinct(heap) <=> heap \in Injection(1..n, R)
  BY <1>1, <1>2 DEF Distinct, Injection, IsInjective
<1> HIDE DEF n, R
<1>6. IsFiniteSet(R) /\ Cardinality(R) <= n /\ (Cardinality(R) = n <=> heap \in Injection(1..n, R))
  BY <1>3, <1>4, FS_Surjection
<1>7. Cardinality(R) \in Nat
  BY <1>6, FS_CardinalityType
<1> QED
  BY <1>2, <1>5, <1>6, <1>7 DEF n, R

LEMMA SameRange ==
  ASSUME NEW n \in Nat, NEW a \in Nodes(n), NEW b \in Nodes(n), SameNodes(a, b)
  PROVE  Range(a) = Range(b) /\ (Distinct(b) => Distinct(a))
<1>1. Range(a) = Range(b)
  BY DEF SameNodes, Range
<1>2. a \in Seq(Hits) /\ b \in Seq(Hits) /\ Len(a) = n /\ Len(b) = n
  BY NodesAre
<1>3. Distinct(a) <=> Cardinality(Range(a)) = n
  BY <1>2, RangeIs
<1>4. Distinct(b) <=> Cardinality(Range(b)) = n
  BY <1>2, RangeIs
<1> QED
  BY <1>1, <1>3, <1>4

\* S_put.
LEMMA PutIs ==
  ASSUME NEW rules \in Seq(SortRule), NEW heap, IsQueue(rules, heap), NEW m \in Hits
  PROVE  LET put == Put(rules, heap, m)
         IN  /\ IsQueue(rules, put) /\ Len(put) = Len(heap) + 1
             /\ Range(put) = Range(heap) \cup {m}
             /\ Distinct(heap) /\ m \notin Range(heap) => Distinct(put)
<1> DEFINE n == Len(heap)
           new == Append(heap, m)
           put == Put(rules, heap, m)
<1>1. n \in Nat /\ heap \in Seq(Hits) /\ \A i \in 1..n : heap[i] \in Hits
  BY DEF IsQueue
<1>2. /\ new \in Seq(Hits) /\ Len(new) = n + 1
      /\ \A i \in 1..n : new[i] = heap[i]
      /\ new[n + 1] = m /\ DOMAIN new = 1..(n + 1) /\ DOMAIN heap = 1..n
  BY <1>1
<1> HIDE DEF new
<1>3. new \in Nodes(n + 1) /\ n + 1 \in Nat /\ n + 1 # 0
  <2>1. new \in Nodes(Len(new))
    BY <1>2, SeqIsNodes
  <2> QED
    BY <1>1, <1>2, <2>1
<1>4. RisingAt(rules, new, n + 1)
  <2>1. ASSUME NEW p \in 1..(n + 1), NEW k \in 1..(n + 1), IsChild(k, p), k # n + 1
        PROVE  ~LessThan(rules, new[k], new[p])
    <3>1. k \in 1..n /\ p \in 1..n
      BY <1>1, <2>1 DEF IsChild
    <3> QED
      BY <1>1, <1>2, <2>1, <3>1 DEF IsQueue, InOrder
  <2>2. \A k \in 1..(n + 1) : ~IsChild(k, n + 1)
    BY <1>1 DEF IsChild
  <2> QED
    BY <1>2, <2>1, <2>2 DEF RisingAt
<1>5. put = UpHeap(rules, new)
  BY DEF Put, new
<1>6. put \in Nodes(n + 1) /\ SameNodes(put, new) /\ InOrder(rules, put)
  BY <1>3, <1>4, <1>5, UpHeapIs
<1> HIDE DEF put
<1>7. put \in Seq(Hits) /\ Len(put) = n + 1
  BY <1>3, <1>6, NodesAre
<1>8. Range(put) = Range(new) /\ (Distinct(new) => Distinct(put))
  BY <1>3, <1>6, SameRange
<1>9. Range(new) = Range(heap) \cup {m}
  <2>1. \A i \in 1..(n + 1) : i = n + 1 \/ i \in 1..n
    BY <1>1
  <2>2. \A i \in 1..n : i \in 1..(n + 1)
    BY <1>1
  <2>3. n + 1 \in 1..(n + 1)
    BY <1>1
  <2> HIDE DEF n
  <2> QED
    BY <1>2, <2>1, <2>2, <2>3 DEF Range
<1>10. Distinct(heap) /\ m \notin Range(heap) => Distinct(new)
  <2>1. \A i \in 1..(n + 1) : i = n + 1 \/ i \in 1..n
    BY <1>1
  <2> HIDE DEF n
  <2> QED
    BY <1>2, <2>1 DEF Range, Distinct
<1> QED
  BY <1>6, <1>7, <1>8, <1>9, <1>10 DEF IsQueue, put

\* What DownHeap is given when another MatchDoc has been put first.
LEMMA RootChanged ==
  ASSUME NEW rules \in Seq(SortRule), NEW n \in Nat, n # 0, NEW heap \in Nodes(n), NEW m \in Hits
  PROVE  LET new == [heap EXCEPT ![1] = m]
         IN  /\ new \in Nodes(n) /\ new[1] = m
             /\ \A i \in 2..n : new[i] = heap[i]
             /\ InOrder(rules, heap) => SinkingAt(rules, new, 1)
<1> DEFINE new == [heap EXCEPT ![1] = m]
<1>1. new \in Nodes(n) /\ new[1] = m /\ \A i \in 2..n : new[i] = heap[i]
  BY DEF Nodes
<1>2. Len(new) = n /\ Len(heap) = n
  BY <1>1, NodesAre
<1> HIDE DEF new
<1>3. ASSUME InOrder(rules, heap), NEW p \in 1..n, NEW k \in 1..n, IsChild(k, p), p # 1
      PROVE  ~LessThan(rules, new[k], new[p])
  <2>1. p \in 2..n /\ k \in 2..n
    BY <1>3 DEF IsChild
  <2> QED
    BY <1>1, <1>2, <1>3, <2>1 DEF InOrder
<1>4. \A p \in 1..n : ~IsChild(1, p)
  BY DEF IsChild
<1> QED
  BY <1>1, <1>2, <1>3, <1>4 DEF SinkingAt, new

\* The elements of a heap whose root has been replaced.
LEMMA RootGone ==
  ASSUME NEW n \in Nat, n # 0, NEW heap \in Nodes(n), NEW new \in Nodes(n),
         \A i \in 2..n : new[i] = heap[i]
  PROVE  /\ Range(new) \subseteq Range(heap) \cup {new[1]}
         /\ Distinct(heap) => Range(new) = (Range(heap) \ {heap[1]}) \cup {new[1]}
         /\ Distinct(heap) /\ new[1] \notin Range(heap) => Distinct(new)
<1>1. DOMAIN heap = 1..n /\ DOMAIN new = 1..n /\ 1 \in 1..n
  BY NodesAre
<1>2. \A i \in 1..n : i = 1 \/ i \in 2..n
  OBVIOUS
<1>3. \A i \in 2..n : i \in 1..n /\ i # 1
  OBVIOUS
<1>4. Range(new) \subseteq Range(heap) \cup {new[1]}
  BY <1>1, <1>2, <1>3 DEF Range
<1>5. ASSUME Distinct(heap) PROVE Range(new) = (Range(heap) \ {heap[1]}) \cup {new[1]}
  BY <1>1, <1>2, <1>3, <1>5 DEF Range, Distinct
<1>6. ASSUME Distinct(heap), new[1] \notin Range(heap) PROVE Distinct(new)
  BY <1>1, <1>2, <1>3, <1>6 DEF Range, Distinct
<1> QED
  BY <1>4, <1>5, <1>6

\* PriQ_Jostle when the least goes.
LEMMA ReplacedIs ==
  ASSUME NEW rules \in Seq(SortRule), NEW heap, IsQueue(rules, heap), heap # <<>>, NEW m \in Hits
  PROVE  LET new == Replaced(rules, heap, m)
         IN  /\ IsQueue(rules, new) /\ Len(new) = Len(heap)
             /\ Range(new) \subseteq Range(heap) \cup {m}
             /\ Distinct(heap) => Range(new) = (Range(heap) \ {heap[1]}) \cup {m}
             /\ Distinct(heap) /\ m \notin Range(heap) => Distinct(new)
<1> DEFINE n == Len(heap)
           first == [heap EXCEPT ![1] = m]
           new == Replaced(rules, heap, m)
<1>1. n \in Nat /\ n # 0 /\ heap \in Nodes(n) /\ InOrder(rules, heap) /\ heap \in Seq(Hits)
  BY SeqIsNodes DEF IsQueue
<1>2. /\ first \in Nodes(n) /\ first[1] = m /\ \A i \in 2..n : first[i] = heap[i]
      /\ SinkingAt(rules, first, 1)
  BY <1>1, RootChanged
<1>3. new = DownHeap(rules, first)
  BY DEF Replaced
<1> HIDE DEF n, first, new
<1>4. new \in Nodes(n) /\ SameNodes(new, first) /\ InOrder(rules, new)
  BY <1>1, <1>2, <1>3, DownHeapIs
<1>5. new \in Seq(Hits) /\ Len(new) = n
  BY <1>1, <1>4, NodesAre
<1>6. Range(new) = Range(first) /\ (Distinct(first) => Distinct(new))
  BY <1>1, <1>2, <1>4, SameRange
<1>7. /\ Range(first) \subseteq Range(heap) \cup {m}
      /\ Distinct(heap) => Range(first) = (Range(heap) \ {heap[1]}) \cup {m}
      /\ Distinct(heap) /\ m \notin Range(heap) => Distinct(first)
  BY <1>1, <1>2, RootGone
<1> QED
  BY <1>4, <1>5, <1>6, <1>7 DEF IsQueue, new, n

LEMMA FrontIs ==
  ASSUME NEW heap \in Seq(Hits), heap # <<>>
  PROVE  /\ Front(heap) \in Seq(Hits) /\ Len(Front(heap)) = Len(heap) - 1
         /\ \A i \in 1..(Len(heap) - 1) : Front(heap)[i] = heap[i]
         /\ Last(heap) = heap[Len(heap)] /\ Last(heap) \in Hits
         /\ Len(heap) \in Nat \ {0}
<1>1. Len(heap) \in Nat \ {0} /\ 1 \in Nat /\ Len(heap) - 1 \in Nat
  OBVIOUS
<1>2. Front(heap) = SubSeq(heap, 1, Len(heap) - 1) /\ Last(heap) = heap[Len(heap)]
  BY DEF Front, Last
<1>3. \A i \in 1..(Len(heap) - 1) : heap[i] \in Hits
  OBVIOUS
<1>4. SubSeq(heap, 1, Len(heap) - 1) = [i \in 1..(Len(heap) - 1) |-> heap[i]]
  <2>1. SubSeq(heap, 1, Len(heap) - 1) = [i \in 1..((1 + (Len(heap) - 1)) - 1) |-> heap[(i + 1) - 1]]
    BY <1>1 DEF SubSeq
  <2> QED
    BY <1>1
<1> DEFINE k == Len(heap) - 1
<1>5. k \in Nat /\ \A i \in 1..k : heap[i] \in Hits
  BY <1>1, <1>3
<1>6. Front(heap) = [i \in 1..k |-> heap[i]]
  BY <1>2, <1>4
<1> HIDE DEF k
<1>7. /\ Front(heap) \in Seq(Hits) /\ Len(Front(heap)) = k
      /\ \A i \in 1..k : Front(heap)[i] = heap[i]
  BY <1>5, <1>6
<1>8. heap[Len(heap)] \in Hits
  BY <1>1
<1> QED
  BY <1>1, <1>2, <1>7, <1>8 DEF k

\* PriQ_Pop, of a heap in order or not.
LEMMA PopIs ==
  ASSUME NEW rules \in Seq(SortRule), NEW heap \in Seq(Hits), heap # <<>>
  PROVE  LET rest == Pop(rules, heap)
         IN  /\ rest \in Seq(Hits) /\ Len(rest) = Len(heap) - 1
             /\ Range(rest) \subseteq Range(heap)
             /\ InOrder(rules, heap) => InOrder(rules, rest)
             /\ Distinct(heap) => Range(rest) = Range(heap) \ {heap[1]} /\ Distinct(rest)
<1> DEFINE n == Len(heap) - 1
           front == Front(heap)
           new == [front EXCEPT ![1] = Last(heap)]
           rest == Pop(rules, heap)
<1>1. /\ n \in Nat /\ Len(heap) = n + 1 /\ DOMAIN heap = 1..(n + 1)
      /\ \A i \in 1..(n + 1) : heap[i] \in Hits
      /\ front \in Seq(Hits) /\ Len(front) = n
      /\ \A i \in 1..n : front[i] = heap[i]
      /\ Last(heap) = heap[n + 1] /\ Last(heap) \in Hits
  BY FrontIs
<1>2. CASE n = 0
  <2>1. rest = <<>>
    BY <1>1, <1>2 DEF Pop
  <2>2. Range(heap) = {heap[1]}
    <3>1. DOMAIN heap = {1}
      BY <1>1, <1>2
    <3> QED
      BY <3>1 DEF Range
  <2>3. /\ <<>> \in Seq(Hits) /\ Len(<<>>) = 0 /\ Range(<<>>) = {} /\ Distinct(<<>>)
        /\ InOrder(rules, <<>>)
    BY DEF Range, Distinct, InOrder
  <2> HIDE DEF rest
  <2> QED
    BY <1>1, <1>2, <2>1, <2>2, <2>3 DEF rest
<1>3. CASE n # 0
  <2>1. front \in Nodes(n) /\ 1 \in 1..n
    <3>1. front \in Nodes(Len(front))
      BY <1>1, SeqIsNodes
    <3> QED
      BY <1>1, <1>3, <3>1
  <2>2. rest = DownHeap(rules, new)
    BY <1>1, <1>3 DEF Pop
  <2> HIDE DEF front
  <2>3. /\ new \in Nodes(n) /\ new[1] = heap[n + 1] /\ \A i \in 2..n : new[i] = front[i]
        /\ InOrder(rules, front) => SinkingAt(rules, new, 1)
    BY <1>1, <1>3, <2>1, RootChanged
  <2> HIDE DEF n, new, rest
  <2>4. InOrder(rules, heap) => InOrder(rules, front)
    <3>1. \A p \in 1..n : p \in 1..(n + 1)
      BY <1>1
    <3> QED
      BY <1>1, <3>1 DEF InOrder
  <2>5. /\ rest \in Nodes(n) /\ SameNodes(rest, new)
        /\ SinkingAt(rules, new, 1) => InOrder(rules, rest)
    BY <1>1, <1>3, <2>2, <2>3, DownHeapIs
  <2>6. rest \in Seq(Hits) /\ Len(rest) = n /\ DOMAIN new = 1..n
    BY <1>1, <2>3, <2>5, NodesAre
  <2>7. Range(rest) = Range(new) /\ (Distinct(new) => Distinct(rest))
    BY <1>1, <2>3, <2>5, SameRange
  <2>8. \A i \in 1..n : new[i] = IF i = 1 THEN heap[n + 1] ELSE heap[i]
    <3>1. \A i \in 1..n : i = 1 \/ i \in 2..n
      BY <1>1
    <3> QED
      BY <1>1, <2>3, <3>1
  <2>9. 1 \in 1..(n + 1) /\ n + 1 \in 1..(n + 1) /\ \A i \in 1..n : i \in 1..(n + 1) /\ i # n + 1
    BY <1>1
  <2>10. \A i \in 1..(n + 1) : i = n + 1 \/ i \in 1..n
    BY <1>1
  <2>11. Range(new) \subseteq Range(heap)
    BY <1>1, <2>6, <2>8, <2>9 DEF Range
  <2>12. ASSUME Distinct(heap) PROVE Range(new) = Range(heap) \ {heap[1]} /\ Distinct(new)
    <3>1. \A i, j \in 1..(n + 1) : heap[i] = heap[j] => i = j
      BY <1>1, <2>12 DEF Distinct
    <3>2. \A i \in 1..n : new[i] # heap[1]
      BY <1>3, <2>8, <2>9, <3>1
    <3>3. \A i \in 1..(n + 1) : i # 1 => \E k \in 1..n : new[k] = heap[i]
      BY <1>3, <2>1, <2>8, <2>10
    <3>4. Range(new) = Range(heap) \ {heap[1]}
      <4>1. \A i \in 1..n : new[i] \in Range(heap) \ {heap[1]}
        BY <1>1, <2>8, <2>9, <3>2 DEF Range
      <4>2. \A x \in Range(heap) \ {heap[1]} : \E k \in 1..n : new[k] = x
        BY <1>1, <3>3 DEF Range
      <4>3. Range(new) = {new[i] : i \in 1..n}
        BY <2>6 DEF Range
      <4> QED
        BY <4>1, <4>2, <4>3
    <3>5. Distinct(new)
      BY <2>6, <2>8, <2>9, <3>1 DEF Distinct
    <3> QED
      BY <3>4, <3>5
  <2> QED
    BY <1>1, <2>3, <2>4, <2>5, <2>6, <2>7, <2>11, <2>12 DEF rest, n
<1> QED
  BY <1>2, <1>3

LEMMA BoundedSeqIs ==
  ASSUME NEW S \in SUBSET Hits, NEW n \in Nat
  PROVE  \A h : h \in BoundedSeq(S, n) <=> h \in Seq(S) /\ Len(h) <= n
<1>1. ASSUME NEW h, h \in BoundedSeq(S, n) PROVE h \in Seq(S) /\ Len(h) <= n
  <2>1. PICK m \in 0..n : h \in [1..m -> S]
    BY <1>1 DEF BoundedSeq, SeqOf
  <2>2. m \in Nat /\ m <= n
    OBVIOUS
  <2> QED
    BY <2>1, <2>2
<1>2. ASSUME NEW h, h \in Seq(S), Len(h) <= n PROVE h \in BoundedSeq(S, n)
  <2>1. Len(h) \in 0..n /\ h \in [1..Len(h) -> S]
    BY <1>2
  <2> QED
    BY <2>1 DEF BoundedSeq, SeqOf
<1> QED
  BY <1>1, <1>2

\* What PriQ_Pop_All gives for the heaps in D.
PopsAre(f, D, rules) ==
    f = [h \in D |-> IF h = <<>> THEN <<>> ELSE Append(f[Pop(rules, h)], h[1])]

\* Each pop leaves less, so it ends.
LEMMA PopsExist ==
  ASSUME NEW rules \in Seq(SortRule), NEW S \in SUBSET Hits, NEW n \in Nat
  PROVE  \E f : PopsAre(f, BoundedSeq(S, n), rules)
<1> DEFINE D(m) == BoundedSeq(S, m)
           bad == {m \in Nat : ~ \E f : PopsAre(f, D(m), rules)}
<1>1. \A m \in Nat : \A h : h \in D(m) <=> h \in Seq(S) /\ Len(h) <= m
  BY BoundedSeqIs
<1> HIDE DEF D
<1>2. SUFFICES ASSUME bad # {} PROVE FALSE
  <2>1. bad = {}
    BY <1>2
  <2> QED
    BY <2>1 DEF D
<1>3. PICK m \in bad : \A l \in bad : m <= l
  <2>1. bad \in SUBSET Nat
    OBVIOUS
  <2> HIDE DEF bad
  <2> QED
    BY <1>2, <2>1, Least
<1>4. m \in Nat /\ ~ \E f : PopsAre(f, D(m), rules)
  OBVIOUS
<1>5. m # 0
  <2>1. \A h \in D(0) : h = <<>>
    BY <1>1
  <2>2. PopsAre([h \in D(0) |-> <<>>], D(0), rules)
    BY <2>1 DEF PopsAre
  <2> QED
    BY <1>4, <2>2
<1>6. m - 1 \in Nat /\ m - 1 \notin bad
  <2>1. m - 1 \in Nat /\ ~ (m <= m - 1)
    BY <1>4, <1>5
  <2> HIDE DEF bad
  <2> QED
    BY <1>3, <2>1
<1>7. PICK f : PopsAre(f, D(m - 1), rules)
  BY <1>6
<1> DEFINE g == [h \in D(m) |-> IF h = <<>> THEN <<>> ELSE Append(f[Pop(rules, h)], h[1])]
<1> HIDE DEF bad
<1>8. ASSUME NEW h \in D(m), h # <<>>
      PROVE  Pop(rules, h) \in D(m - 1) /\ Pop(rules, h) \in D(m)
  <2>1. h \in Seq(S) /\ h \in Seq(Hits) /\ Len(h) <= m /\ Len(h) \in Nat
    BY <1>1, <1>4
  <2> DEFINE rest == Pop(rules, h)
  <2>2. rest \in Seq(Hits) /\ Len(rest) = Len(h) - 1 /\ Range(rest) \subseteq Range(h)
    BY <1>8, <2>1, PopIs
  <2>3. Range(h) \subseteq S
    BY <2>1 DEF Range
  <2> HIDE DEF rest
  <2>4. rest \in Seq(S)
    <3>1. \A i \in 1..Len(rest) : rest[i] \in Range(rest)
      BY <2>2 DEF Range
    <3> QED
      BY <2>2, <2>3, <3>1
  <2>5. Len(rest) \in Nat /\ Len(rest) <= m - 1 /\ Len(rest) <= m
    BY <1>4, <2>1, <2>2
  <2> QED
    BY <1>1, <1>4, <1>6, <2>4, <2>5 DEF rest
<1>9. ASSUME NEW h \in D(m - 1)
      PROVE  f[h] = IF h = <<>> THEN <<>> ELSE Append(f[Pop(rules, h)], h[1])
  BY <1>7 DEF PopsAre
<1>10. ASSUME NEW h \in D(m), h # <<>>
       PROVE  g[Pop(rules, h)] = f[Pop(rules, h)]
  <2> DEFINE x == Pop(rules, h)
  <2>1. x \in D(m) /\ f[x] = IF x = <<>> THEN <<>> ELSE Append(f[Pop(rules, x)], x[1])
    BY <1>8, <1>9, <1>10
  <2> HIDE DEF x
  <2>2. g[x] = f[x]
    BY <2>1
  <2> QED
    BY <2>2 DEF x
<1>11. PopsAre(g, D(m), rules)
  <2>1. g = [h \in D(m) |-> IF h = <<>> THEN <<>> ELSE Append(g[Pop(rules, h)], h[1])]
    BY <1>10
  <2> HIDE DEF g
  <2> QED
    BY <2>1 DEF PopsAre
<1> QED
  BY <1>4, <1>11

\* The better first.
Sorted(rules, list) ==
    \A i, j \in DOMAIN list : i < j => ~LessThan(rules, list[i], list[j])

\* What is to be shown of a list that has been popped from a heap.
Listed(rules, heap, list) ==
    /\ list \in Seq(Hits) /\ Len(list) = Len(heap) /\ Range(list) \subseteq Range(heap)
    /\ InOrder(rules, heap) => Sorted(rules, list)
    /\ Distinct(heap) => Range(list) = Range(heap) /\ Distinct(list)

\* One more hit at the end of the array.
LEMMA ListGrows ==
  ASSUME NEW rules \in Seq(SortRule), NEW heap \in Seq(Hits), heap # <<>>, NEW list,
         Listed(rules, Pop(rules, heap), list)
  PROVE  Listed(rules, heap, Append(list, heap[1]))
<1> DEFINE rest == Pop(rules, heap)
           n == Len(list)
           new == Append(list, heap[1])
<1>1. /\ rest \in Seq(Hits) /\ Len(rest) = Len(heap) - 1
      /\ Range(rest) \subseteq Range(heap)
      /\ InOrder(rules, heap) => InOrder(rules, rest)
      /\ Distinct(heap) => Range(rest) = Range(heap) \ {heap[1]} /\ Distinct(rest)
  BY PopIs
<1> HIDE DEF rest
<1>2. /\ list \in Seq(Hits) /\ n = Len(rest) /\ Range(list) \subseteq Range(rest)
      /\ InOrder(rules, rest) => Sorted(rules, list)
      /\ Distinct(rest) => Range(list) = Range(rest) /\ Distinct(list)
  BY DEF Listed, rest
<1>3. /\ Len(heap) \in Nat /\ 1 \in 1..Len(heap) /\ DOMAIN heap = 1..Len(heap) /\ heap[1] \in Hits
      /\ heap[1] \in Range(heap)
  BY DEF Range
<1>4. /\ n \in Nat /\ new \in Seq(Hits) /\ Len(new) = n + 1 /\ n + 1 = Len(heap)
      /\ DOMAIN new = 1..(n + 1) /\ DOMAIN list = 1..n
      /\ new[n + 1] = heap[1] /\ \A i \in 1..n : new[i] = list[i]
  BY <1>1, <1>2, <1>3
<1> HIDE DEF n, new
<1>5. \A i \in 1..(n + 1) : i = n + 1 \/ (i \in 1..n /\ i # n + 1)
  BY <1>4
<1>6. n + 1 \in 1..(n + 1) /\ \A i \in 1..n : i \in 1..(n + 1)
  BY <1>4
<1>7. Range(new) = Range(list) \cup {heap[1]}
  BY <1>4, <1>5, <1>6 DEF Range
<1>8. ASSUME InOrder(rules, heap) PROVE Sorted(rules, new)
  <2>1. ASSUME NEW i \in 1..n PROVE ~LessThan(rules, new[i], heap[1])
    <3>1. new[i] \in Range(heap)
      <4>1. list[i] \in Range(list)
        BY <1>4 DEF Range
      <4> QED
        BY <1>1, <1>2, <1>4, <4>1
    <3>2. PICK k \in 1..Len(heap) : heap[k] = new[i]
      BY <1>3, <3>1 DEF Range
    <3>3. heap \in Nodes(Len(heap))
      BY SeqIsNodes
    <3> QED
      BY <1>3, <1>8, <3>2, <3>3, RootLeast
  <2>2. ASSUME NEW i \in 1..(n + 1), NEW j \in 1..(n + 1), i < j
        PROVE  ~LessThan(rules, new[i], new[j])
    <3>1. i \in 1..n
      BY <1>4, <2>2
    <3>2. CASE j = n + 1
      BY <1>4, <2>1, <3>1, <3>2
    <3>3. CASE j # n + 1
      <4>1. j \in 1..n
        BY <1>5, <3>3
      <4> QED
        BY <1>1, <1>2, <1>4, <1>8, <2>2, <3>1, <4>1 DEF Sorted
    <3> QED
      BY <3>2, <3>3
  <2> QED
    BY <1>4, <2>2 DEF Sorted
<1>9. ASSUME Distinct(heap) PROVE Range(new) = Range(heap) /\ Distinct(new)
  <2>1. Range(list) = Range(heap) \ {heap[1]} /\ Distinct(list)
    BY <1>1, <1>2, <1>9
  <2>2. Range(new) = Range(heap)
    BY <1>3, <1>7, <2>1
  <2>3. \A i \in 1..n : new[i] # heap[1]
    <3>1. \A i \in 1..n : list[i] \in Range(list)
      BY <1>4 DEF Range
    <3> QED
      BY <1>4, <2>1, <3>1
  <2>4. Distinct(new)
    BY <1>4, <1>5, <2>1, <2>3 DEF Distinct
  <2> QED
    BY <2>2, <2>4
<1>10. Range(new) \subseteq Range(heap)
  BY <1>1, <1>2, <1>3, <1>7
<1> QED
  BY <1>4, <1>8, <1>9, <1>10 DEF Listed, new

\* PriQ_Pop_All gives the hits of a heap, the better first.
LEMMA PopAllIs ==
  ASSUME NEW rules \in Seq(SortRule), NEW heap \in Seq(Hits)
  PROVE  Listed(rules, heap, PopAll(rules, heap))
<1> DEFINE S == Range(heap)
           D == BoundedSeq(S, Len(heap))
<1>1. S \in SUBSET Hits /\ Len(heap) \in Nat
  BY RangeIs
<1>2. PICK f : PopsAre(f, D, rules) /\ PopAll(rules, heap) = f[heap]
  <2>1. \E f : PopsAre(f, D, rules)
    <3> HIDE DEF S
    <3> QED
      BY <1>1, PopsExist
  <2> HIDE DEF D
  <2> QED
    BY <2>1 DEF PopAll, PopsAre, D
<1>3. \A h : h \in D <=> h \in Seq(S) /\ Len(h) <= Len(heap)
  <2> HIDE DEF S
  <2> QED
    BY <1>1, BoundedSeqIs
<1>4. heap \in D
  <2>1. heap \in Seq(S)
    BY DEF Range
  <2> QED
    BY <1>1, <1>3, <2>1
<1> HIDE DEF S, D
<1>5. \A h \in D : h \in Seq(Hits) /\ h \in Seq(S) /\ Len(h) \in Nat /\ Len(h) <= Len(heap)
  BY <1>1, <1>3
<1>6. ASSUME NEW h \in D, h # <<>> PROVE Pop(rules, h) \in D /\ Len(Pop(rules, h)) = Len(h) - 1
  <2> DEFINE rest == Pop(rules, h)
  <2>1. rest \in Seq(Hits) /\ Len(rest) = Len(h) - 1 /\ Range(rest) \subseteq Range(h)
    BY <1>5, <1>6, PopIs
  <2>2. Range(h) \subseteq S
    BY <1>5 DEF Range
  <2> HIDE DEF rest
  <2>3. rest \in Seq(S)
    <3>1. \A i \in 1..Len(rest) : rest[i] \in Range(rest)
      BY <2>1 DEF Range
    <3> QED
      BY <2>1, <2>2, <3>1
  <2>4. Len(rest) <= Len(heap)
    BY <1>1, <1>5, <2>1
  <2> QED
    BY <1>3, <2>1, <2>3, <2>4 DEF rest
<1>7. \A h \in D : f[h] = IF h = <<>> THEN <<>> ELSE Append(f[Pop(rules, h)], h[1])
  BY <1>2 DEF PopsAre
<1> DEFINE bad == {Len(h) : h \in {e \in D : ~Listed(rules, e, f[e])}}
<1>8. SUFFICES ASSUME bad # {} PROVE FALSE
  BY <1>2, <1>4
<1>9. PICK m \in bad : \A l \in bad : m <= l
  <2>1. bad \in SUBSET Nat
    BY <1>5
  <2> HIDE DEF bad
  <2> QED
    BY <1>8, <2>1, Least
<1>10. PICK h \in D : ~Listed(rules, h, f[h]) /\ m = Len(h)
  OBVIOUS
<1>11. h # <<>>
  <2>1. Listed(rules, <<>>, <<>>)
    BY DEF Listed, Sorted, Distinct, Range
  <2> QED
    BY <1>7, <1>10, <2>1
<1>12. Listed(rules, Pop(rules, h), f[Pop(rules, h)])
  <2>1. Len(Pop(rules, h)) \in Nat /\ ~ (m <= Len(Pop(rules, h)))
    BY <1>5, <1>6, <1>10, <1>11
  <2>2. Len(Pop(rules, h)) \notin bad
    <3> HIDE DEF bad
    <3> QED
      BY <1>9, <2>1
  <2> QED
    BY <1>6, <1>11, <2>2
<1>13. Listed(rules, h, Append(f[Pop(rules, h)], h[1]))
  BY <1>5, <1>11, <1>12, ListGrows
<1> QED
  BY <1>7, <1>10, <1>11, <1>13

-----------------------------------------------------------------------------
(* The best of a set of hits                                                *)

\* AreBest for any rules and any number, in terms of HitQ_less_than.
Best(rules, wanted, kept, hits) ==
    /\ kept \subseteq hits
    /\ Cardinality(kept) = IF wanted <= Cardinality(hits) THEN wanted ELSE Cardinality(hits)
    /\ \A a \in hits \ kept, b \in kept : ~LessThan(rules, b, a)

\* While there is room all are kept.
LEMMA BestAdds ==
  ASSUME NEW rules, NEW wanted \in Nat, NEW kept, NEW hits, IsFiniteSet(hits),
         Best(rules, wanted, kept, hits), NEW m, m \notin hits, Cardinality(kept) < wanted
  PROVE  kept = hits /\ Best(rules, wanted, kept \cup {m}, hits \cup {m})
<1>1. Cardinality(hits) \in Nat /\ kept \in SUBSET hits
  BY FS_CardinalityType DEF Best
<1>2. Cardinality(kept) = Cardinality(hits) /\ Cardinality(hits) < wanted
  BY <1>1 DEF Best
<1>3. kept = hits
  BY <1>1, <1>2, FS_Subset
<1>4. Cardinality(hits \cup {m}) = Cardinality(hits) + 1
  BY FS_AddElement
<1>5. Cardinality(hits \cup {m}) <= wanted
  BY <1>1, <1>2, <1>4
<1> DEFINE more == hits \cup {m}
<1>6. more \subseteq more /\ more \ more = {} /\ Cardinality(more) \in Nat
  BY <1>1, <1>4
<1>7. Best(rules, wanted, more, more)
  <2> HIDE DEF more
  <2>1. Cardinality(more) = IF wanted <= Cardinality(more) THEN wanted ELSE Cardinality(more)
    BY <1>5, <1>6 DEF more
  <2> QED
    BY <1>6, <2>1 DEF Best
<1> QED
  BY <1>3, <1>7

\* The least may go for one that is not below it.
LEMMA BestDisplaces ==
  ASSUME NEW rules \in Seq(SortRule), NEW wanted \in Nat,
         NEW kept, NEW hits \in SUBSET Hits, IsFiniteSet(hits),
         Best(rules, wanted, kept, hits), NEW m \in Hits, m \notin hits,
         Cardinality(kept) = wanted, NEW least \in kept,
         \A k \in kept : ~LessThan(rules, k, least), ~LessThan(rules, m, least)
  PROVE  Best(rules, wanted, (kept \ {least}) \cup {m}, hits \cup {m})
<1> DEFINE K == (kept \ {least}) \cup {m}
           S == hits \cup {m}
<1>1. kept \in SUBSET hits /\ Cardinality(hits) \in Nat /\ IsFiniteSet(kept)
  BY FS_CardinalityType, FS_Subset DEF Best
<1>2. wanted <= Cardinality(hits) /\ m \notin kept
  BY <1>1, FS_Subset
<1>3. Cardinality(K) = wanted
  <2>1. IsFiniteSet(kept \ {least}) /\ Cardinality(kept \ {least}) = wanted - 1
    BY <1>1, FS_RemoveElement
  <2>2. Cardinality(K) = (wanted - 1) + 1
    BY <1>2, <2>1, FS_AddElement
  <2> QED
    BY <2>2
<1>4. Cardinality(S) = Cardinality(hits) + 1
  BY FS_AddElement
<1>5. ASSUME NEW a \in S \ K, NEW b \in K PROVE ~LessThan(rules, b, a)
  <2>1. a \in Hits /\ b \in Hits /\ least \in Hits
    BY <1>1
  <2>2. ~LessThan(rules, b, least)
    OBVIOUS
  <2>3. CASE a = least
    BY <2>2, <2>3
  <2>4. CASE a # least
    <3>1. a \in hits \ kept
      BY <2>4
    <3>2. ~LessThan(rules, least, a)
      BY <3>1 DEF Best
    <3> QED
      BY <2>1, <2>2, <3>2, Ranks
  <2> QED
    BY <2>3, <2>4
<1>6. K \subseteq S
  BY <1>1
<1> HIDE DEF K, S
<1>7. Best(rules, wanted, K, S)
  <2>1. Cardinality(K) = IF wanted <= Cardinality(S) THEN wanted ELSE Cardinality(S)
    BY <1>1, <1>2, <1>3, <1>4
  <2> QED
    BY <1>5, <1>6, <2>1 DEF Best
<1> QED
  BY <1>7 DEF K, S

\* Hits that are above none of those kept need not be, if these are enough.
LEMMA BestRefuses ==
  ASSUME NEW rules, NEW wanted \in Nat, NEW kept, NEW hits, IsFiniteSet(hits),
         Best(rules, wanted, kept, hits), Cardinality(kept) = wanted,
         NEW more, IsFiniteSet(more), \A a \in more, b \in kept : ~LessThan(rules, b, a)
  PROVE  Best(rules, wanted, kept, hits \cup more)
<1> DEFINE S == hits \cup more
<1>1. Cardinality(hits) \in Nat /\ IsFiniteSet(S) /\ Cardinality(S) \in Nat /\ hits \in SUBSET S
  BY FS_CardinalityType, FS_Union
<1>2. Cardinality(hits) <= Cardinality(S)
  BY <1>1, FS_Subset
<1>3. wanted <= Cardinality(hits)
  BY <1>1 DEF Best
<1>4. wanted <= Cardinality(S) /\ kept \subseteq S
  BY <1>1, <1>2, <1>3 DEF Best
<1>5. \A a \in S \ kept, b \in kept : ~LessThan(rules, b, a)
  BY DEF Best
<1> HIDE DEF S
<1>6. Best(rules, wanted, kept, S)
  BY <1>4, <1>5 DEF Best
<1> QED
  BY <1>6 DEF S

\* The best of some hits and of the best of others are the best of all.
LEMMA BestOfBest ==
  ASSUME NEW rules \in Seq(SortRule), NEW wanted \in Nat,
         NEW P \in SUBSET Hits, NEW Q \in SUBSET Hits, IsFiniteSet(P), IsFiniteSet(Q),
         NEW Y, Best(rules, wanted, Y, Q), NEW K, Best(rules, wanted, K, P \cup Y)
  PROVE  Best(rules, wanted, K, P \cup Q)
<1>1. Y \in SUBSET Q /\ IsFiniteSet(Y)
  BY FS_Subset DEF Best
<1>2. CASE Y = Q
  BY <1>2
<1>3. CASE Y # Q
  <2> DEFINE S == P \cup Y
             T == P \cup Q
  <2>1. /\ IsFiniteSet(S) /\ IsFiniteSet(T) /\ S \in SUBSET T /\ Y \in SUBSET S
        /\ K \in SUBSET S /\ IsFiniteSet(K)
    <3>1. IsFiniteSet(S) /\ IsFiniteSet(T) /\ S \in SUBSET T /\ Y \in SUBSET S /\ K \in SUBSET S
      BY <1>1, FS_Union DEF Best
    <3> QED
      BY <3>1, FS_Subset
  <2>2. /\ Cardinality(Q) \in Nat /\ Cardinality(Y) \in Nat /\ Cardinality(S) \in Nat
        /\ Cardinality(T) \in Nat /\ Cardinality(K) \in Nat
    BY <1>1, <2>1, FS_CardinalityType
  <2>3. Cardinality(Y) = wanted
    BY <1>1, <1>3, <2>2, FS_Subset DEF Best
  <2>4. wanted <= Cardinality(S) /\ wanted <= Cardinality(T)
    <3>1. Cardinality(Y) <= Cardinality(S)
      BY <2>1, FS_Subset
    <3>2. Cardinality(S) <= Cardinality(T)
      BY <2>1, FS_Subset
    <3> QED
      BY <2>2, <2>3, <3>1, <3>2
  <2>5. Cardinality(K) = wanted
    BY <2>4 DEF Best
  <2>6. ASSUME NEW a \in T \ K, NEW b \in K PROVE ~LessThan(rules, b, a)
    <3>1. CASE a \in S
      BY <2>6, <3>1 DEF Best
    <3>2. CASE a \notin S
      <4>1. a \in Q \ Y
        BY <3>2
      <4>2. CASE b \in Y
        BY <4>1, <4>2 DEF Best
      <4>3. CASE b \notin Y
        <5>1. \E y \in Y : y \notin K
          <6>1. SUFFICES ASSUME Y \in SUBSET K PROVE FALSE
            OBVIOUS
          <6>2. Y = K
            BY <2>1, <2>3, <2>5, <6>1, FS_Subset
          <6> QED
            BY <4>3, <6>2
        <5>2. PICK y \in Y : y \notin K
          BY <5>1
        <5>3. ~LessThan(rules, b, y)
          BY <5>2 DEF Best
        <5>4. ~LessThan(rules, y, a)
          BY <4>1, <5>2 DEF Best
        <5>5. a \in Hits /\ b \in Hits /\ y \in Hits
          BY <1>1, <2>1, <4>1, <5>2
        <5> QED
          BY <5>3, <5>4, <5>5, Ranks
      <4> QED
        BY <4>2, <4>3
    <3> QED
      BY <3>1, <3>2
  <2> HIDE DEF S, T
  <2>7. Best(rules, wanted, K, T)
    BY <2>1, <2>4, <2>5, <2>6 DEF Best
  <2> QED
    BY <2>7 DEF T
<1> QED
  BY <1>2, <1>3

-----------------------------------------------------------------------------
(* The order of hits and the best of them, as Search.tla states them        *)

\* What documents and searches are.
Given == docs \in [1..DocMax -> Doc] /\ search \in Search

LEMMA GivenIs ==
  ASSUME Given
  PROVE  /\ search.rules \in Seq(SortRule) /\ search.rules # <<>> /\ search.wanted \in Nat
         /\ \A g \in 1..DocMax :
               /\ docs[g].matches \in BOOLEAN /\ docs[g].deleted \in BOOLEAN
               /\ docs[g].score \in Nat /\ docs[g].value \in Nat
<1>1. search.rules \in Seq(SortRule) /\ search.rules # <<>> /\ search.wanted \in Nat
  BY SearchAssumption DEF Given
<1>2. ASSUME NEW g \in 1..DocMax
      PROVE  docs[g] \in [matches : BOOLEAN, deleted : BOOLEAN, score : Nat \ {NegInf}, value : Nat]
  BY SearchAssumption DEF Given
<1> QED
  BY <1>1, <1>2

\* Hits with a value that some document has.
ValuedHits == {m \in Hits : \E g \in 1..DocMax : m.value = docs[g].value}

LEMMA ValuesHaveMax ==
  ASSUME Given
  PROVE  LET max == Max({docs[g].value : g \in 1..DocMax})
         IN  \A g \in 1..DocMax : max \in Nat /\ docs[g].value <= max
<1> DEFINE V == {docs[g].value : g \in 1..DocMax}
           B == {n \in Nat : \A v \in V : v <= n}
<1>1. DocMax \in Nat /\ V \in SUBSET Nat
  BY GivenIs, Offsets
<1>3. SUFFICES ASSUME V # {} PROVE Max(V) \in V /\ \A v \in V : v <= Max(V)
  <2>1. V # {} => Max(V) \in V /\ \A v \in V : v <= Max(V)
    BY <1>3
  <2> QED
    BY <1>1, <2>1
<1>4. B # {}
  <2> DEFINE Bound(n) == \E b \in Nat : \A g \in 1..n : docs[g].value <= b
             bad == {n \in 0..DocMax : ~Bound(n)}
  <2>1. SUFFICES bad = {}
    <3>0. DocMax \in 0..DocMax
      BY <1>1
    <3> HIDE DEF Bound
    <3>1. bad = {} => Bound(DocMax)
      BY <3>0
    <3> HIDE DEF bad
    <3> USE DEF Bound
    <3> QED
      BY <2>1, <3>1
  <2>2. SUFFICES ASSUME bad # {} PROVE FALSE
    OBVIOUS
  <2>3. PICK n \in bad : \A k \in bad : n <= k
    <3>1. bad \in SUBSET Nat
      BY <1>1
    <3> HIDE DEF bad
    <3> QED
      BY <2>2, <3>1, Least
  <2>4. n \in 0..DocMax /\ ~Bound(n)
    OBVIOUS
  <2>5. n # 0
    <3>1. \A g \in 1..0 : docs[g].value <= 0
      OBVIOUS
    <3> QED
      BY <2>4, <3>1
  <2>6. n - 1 \in 0..DocMax /\ n \in 1..DocMax
    BY <1>1, <2>4, <2>5
  <2>7. Bound(n - 1)
    <3>1. n - 1 \notin bad
      <4> HIDE DEF bad
      <4> QED
        BY <1>1, <2>3, <2>4, <2>5
    <3> QED
      BY <2>6, <3>1
  <2>8. PICK b \in Nat : \A g \in 1..(n - 1) : docs[g].value <= b
    BY <2>7
  <2> DEFINE c == IF docs[n].value <= b THEN b ELSE docs[n].value
  <2>9. c \in Nat /\ b <= c /\ docs[n].value <= c /\ docs[n].value \in Nat
    <3>1. docs[n].value \in Nat
      BY <2>6, GivenIs
    <3> QED
      BY <2>8, <3>1
  <2> HIDE DEF c, bad
  <2>10. ASSUME NEW g \in 1..n PROVE docs[g].value <= c
    <3>1. g \in 1..DocMax /\ (g = n \/ g \in 1..(n - 1))
      BY <1>1, <2>4
    <3>2. docs[g].value \in Nat
      BY <3>1, GivenIs
    <3> QED
      BY <2>8, <2>9, <3>1, <3>2
  <2> QED
    BY <2>4, <2>9, <2>10
<1>5. PICK b \in B : \A n \in B : b <= n
  <2>1. B \in SUBSET Nat
    OBVIOUS
  <2> HIDE DEF B
  <2> QED
    BY <1>4, <2>1, Least
<1> HIDE DEF V
<1>6. b \in V
  <2> SUFFICES ASSUME b \notin V PROVE FALSE
    OBVIOUS
  <2>1. \A v \in V : v \in Nat /\ v <= b /\ v # b
    BY <1>1
  <2>2. b \in Nat /\ b # 0
    BY <1>3, <2>1
  <2>3. b - 1 \in B
    BY <2>1, <2>2
  <2> HIDE DEF B
  <2> QED
    BY <1>5, <2>2, <2>3
<1>7. \A v \in V : v \in Nat /\ v <= b
  BY <1>1
<1> QED
  BY <1>1, <1>6, <1>7 DEF Max

\* A hit's key for a rule: the less it is, the better.
SortKey(rule, m) ==
    CASE rule.key = "score" -> -m.score
      [] rule.key = "doc"   -> m.doc
      [] rule.key = "field" -> IF m.value = Null THEN 1 + Max({docs[g].value : g \in 1..DocMax})
                                             ELSE m.value
Signed(rule, m) == IF rule.reverse THEN -SortKey(rule, m) ELSE SortKey(rule, m)

LEMMA KeyIs ==
  ASSUME Given, NEW rule \in SortRule, NEW a \in ValuedHits, NEW b \in ValuedHits
  PROVE  /\ Signed(rule, a) \in Int
         /\ Signed(rule, a) < Signed(rule, b) <=> Prefers(rule, a, b)
<1> DEFINE max == Max({docs[g].value : g \in 1..DocMax})
<1>1. /\ max \in Nat /\ a.value <= max /\ b.value <= max
      /\ a.doc \in Nat /\ b.doc \in Nat /\ a.score \in Nat /\ b.score \in Nat
      /\ a.value \in Nat /\ b.value \in Nat
  BY ValuesHaveMax DEF ValuedHits, Hits
<1>2. rule.key \in {"score", "doc", "field"} /\ rule.reverse \in BOOLEAN
  BY DEF SortRule
<1>3. CASE rule.key = "score"
  BY <1>1, <1>2, <1>3 DEF Signed, SortKey, Prefers, Ahead
<1>4. CASE rule.key = "doc"
  BY <1>1, <1>2, <1>4 DEF Signed, SortKey, Prefers, Ahead
<1>5. CASE rule.key = "field"
  <2> HIDE DEF max
  <2>1. /\ SortKey(rule, a) = IF a.value = 0 THEN 1 + max ELSE a.value
        /\ SortKey(rule, b) = IF b.value = 0 THEN 1 + max ELSE b.value
    BY <1>5 DEF SortKey, Null, max
  <2>2. /\ Ahead(rule, a, b) <=> a.value # 0 /\ (b.value = 0 \/ a.value < b.value)
        /\ Ahead(rule, b, a) <=> b.value # 0 /\ (a.value = 0 \/ b.value < a.value)
    BY <1>5 DEF Ahead, ValueBefore, Null
  <2>3. /\ SortKey(rule, a) \in Nat /\ SortKey(rule, b) \in Nat
        /\ SortKey(rule, a) < SortKey(rule, b) <=> Ahead(rule, a, b)
        /\ SortKey(rule, b) < SortKey(rule, a) <=> Ahead(rule, b, a)
    BY <1>1, <2>1, <2>2
  <2> QED
    BY <1>2, <2>3 DEF Signed, Prefers
<1> QED
  BY <1>2, <1>3, <1>4, <1>5

\* The order that ResultIsBest and QueueIsBest speak of is HitQ_less_than's.
LEMMA BeforeIs ==
  ASSUME Given, NEW a \in ValuedHits, NEW b \in ValuedHits
  PROVE  Before(a, b) <=> LessThan(search.rules, b, a)
<1> DEFINE N == Len(search.rules)
           S(i, m) == Signed(search.rules[i], m)
           differ == {i \in DOMAIN search.rules : S(i, a) # S(i, b)}
<1>1. /\ DOMAIN search.rules = 1..N /\ N \in Nat
      /\ \A i \in 1..N : search.rules[i] \in SortRule
  BY GivenIs
<1>2. \A i \in 1..N : /\ S(i, a) \in Int /\ S(i, b) \in Int
                      /\ S(i, a) < S(i, b) <=> Prefers(search.rules[i], a, b)
                      /\ S(i, b) < S(i, a) <=> Prefers(search.rules[i], b, a)
  BY <1>1, KeyIs
<1>3. Before(a, b) <=> /\ differ # {}
                       /\ LET first == CHOOSE i \in differ : \A j \in differ : i <= j
                          IN  S(first, a) < S(first, b)
  BY DEF Before, Signed, SortKey
<1> HIDE DEF S
<1>4. LessThan(search.rules, b, a)
        <=> \E i \in 1..N : S(i, a) < S(i, b) /\ \A j \in 1..(i - 1) : S(j, a) = S(j, b)
  <2>1. ASSUME NEW i \in 1..N, NEW j \in 1..(i - 1)
        PROVE  /\ ~Prefers(search.rules[j], b, a) /\ ~Prefers(search.rules[j], a, b)
                    <=> S(j, a) = S(j, b)
    <3>1. j \in 1..N
      BY <1>1
    <3> QED
      BY <1>2, <3>1
  <2> QED
    BY <1>1, <1>2, <2>1 DEF LessThan
<1>5. CASE differ = {}
  <2>1. \A i \in 1..N : S(i, a) = S(i, b)
    BY <1>1, <1>5
  <2> QED
    BY <1>2, <1>3, <1>4, <1>5, <2>1
<1>6. CASE differ # {}
  <2>1. differ \in SUBSET Nat /\ differ \in SUBSET (1..N)
    BY <1>1
  <2>2. \A i \in 1..N : i \notin differ <=> S(i, a) = S(i, b)
    BY <1>1
  <2> HIDE DEF differ
  <2>3. \E i \in differ : \A j \in differ : i <= j
    BY <1>6, <2>1, Least
  <2> DEFINE first == CHOOSE i \in differ : \A j \in differ : i <= j
  <2>4. first \in differ /\ \A j \in differ : first <= j
    BY <2>3
  <2> HIDE DEF first
  <2>5. first \in 1..N /\ \A j \in 1..(first - 1) : S(j, a) = S(j, b)
    BY <1>1, <2>1, <2>2, <2>4
  <2>6. ASSUME NEW i \in 1..N, S(i, a) < S(i, b), \A j \in 1..(i - 1) : S(j, a) = S(j, b)
        PROVE  i = first
    <3>1. i \in differ
      BY <1>2, <2>2, <2>6
    <3>2. first <= i /\ ~ (first < i)
      BY <1>1, <2>1, <2>2, <2>4, <2>5, <2>6, <3>1
    <3> QED
      BY <1>1, <2>5, <3>2
  <2>7. Before(a, b) <=> S(first, a) < S(first, b)
    BY <1>3, <1>6 DEF first
  <2> QED
    BY <1>4, <2>5, <2>6, <2>7
<1> QED
  BY <1>5, <1>6

\* So are the best of a set.
LEMMA AreBestIs ==
  ASSUME Given, NEW hits \in SUBSET ValuedHits, IsFiniteSet(hits), NEW kept
  PROVE  AreBest(kept, hits) <=> Best(search.rules, search.wanted, kept, hits)
<1> DEFINE w == search.wanted
           c == Cardinality(hits)
<1>1. w \in Nat /\ c \in Nat
  BY GivenIs, FS_CardinalityType
<1>2. Min({w, c}) = IF w <= c THEN w ELSE c
  <2> HIDE DEF w, c
  <2>1. \A x \in {w, c} : (\A y \in {w, c} : x <= y) <=> x = IF w <= c THEN w ELSE c
    BY <1>1
  <2>2. Min({w, c}) = CHOOSE x \in {w, c} : \A y \in {w, c} : x <= y
    BY DEF Min
  <2> QED
    BY <2>1, <2>2
<1>3. ASSUME kept \subseteq hits, NEW a \in hits, NEW b \in kept
      PROVE  Before(a, b) <=> LessThan(search.rules, b, a)
  BY <1>3, BeforeIs
<1> QED
  BY <1>2, <1>3 DEF AreBest, Best

\* S_modify_doc_ids does not disturb the order.
Raised(m, n) == [m EXCEPT !.doc = @ + n]
AllRaised(S, n) == {Raised(m, n) : m \in S}

LEMMA RaisedIs ==
  ASSUME NEW m \in Hits, NEW n \in Nat
  PROVE  /\ Raised(m, n) \in Hits /\ Raised(m, n).doc = m.doc + n
         /\ Raised(m, n).score = m.score /\ Raised(m, n).value = m.value
         /\ Raised(m, n) = [doc |-> m.doc + n, score |-> m.score, value |-> m.value]
BY DEF Raised, Hits

LEMMA RaisedOrder ==
  ASSUME NEW rules \in Seq(SortRule), NEW a \in Hits, NEW b \in Hits, NEW n \in Nat
  PROVE  /\ LessThan(rules, Raised(a, n), Raised(b, n)) <=> LessThan(rules, a, b)
         /\ Raised(a, n) = Raised(b, n) => a = b
<1>1. /\ a.doc \in Nat /\ b.doc \in Nat
      /\ a = [doc |-> a.doc, score |-> a.score, value |-> a.value]
      /\ b = [doc |-> b.doc, score |-> b.score, value |-> b.value]
  BY DEF Hits
<1>2. ASSUME NEW rule \in SortRule
      PROVE  /\ Prefers(rule, Raised(a, n), Raised(b, n)) <=> Prefers(rule, a, b)
             /\ Prefers(rule, Raised(b, n), Raised(a, n)) <=> Prefers(rule, b, a)
  <2>1. /\ Raised(a, n).doc = a.doc + n /\ Raised(b, n).doc = b.doc + n
        /\ Raised(a, n).score = a.score /\ Raised(b, n).score = b.score
        /\ Raised(a, n).value = a.value /\ Raised(b, n).value = b.value
    BY RaisedIs
  <2>2. /\ Ahead(rule, Raised(a, n), Raised(b, n)) <=> Ahead(rule, a, b)
        /\ Ahead(rule, Raised(b, n), Raised(a, n)) <=> Ahead(rule, b, a)
    BY <1>1, <2>1 DEF Ahead
  <2> QED
    BY <2>2 DEF Prefers
<1>3. Len(rules) \in Nat /\ DOMAIN rules = 1..Len(rules) /\ \A i \in 1..Len(rules) : rules[i] \in SortRule
  OBVIOUS
<1>4. \A i \in 1..Len(rules) : \A j \in 1..(i - 1) : j \in 1..Len(rules)
  BY <1>3
<1>5. LessThan(rules, Raised(a, n), Raised(b, n)) <=> LessThan(rules, a, b)
  BY <1>2, <1>3, <1>4 DEF LessThan
<1>6. Raised(a, n) = Raised(b, n) => a = b
  BY <1>1, RaisedIs
<1> QED
  BY <1>5, <1>6

-----------------------------------------------------------------------------
(* The hits that have been gone by                                          *)

LEMMA Within ==
  ASSUME NEW t \in DOMAIN Layout
  PROVE  /\ Starts[t] + Sizes[t] <= DocMax
         /\ \A s \in 1..(Len(Layout[t]) + 1) : SegStarts[t][s] <= Sizes[t]
<1>1. /\ Sizes \in Seq(Nat) /\ Len(Sizes) = Len(Layout) /\ DOMAIN Layout = 1..Len(Layout)
      /\ Len(Layout) \in Nat /\ t \in 1..Len(Layout)
      /\ Layout[t] \in Seq(Nat) /\ Len(Layout[t]) \in Nat
  BY SearchAssumption, Offsets DEF Sizes
<1>2. Starts[t] + Sizes[t] <= DocMax
  <2>1. t - 1 \in 0..Len(Sizes) /\ Len(Sizes) \in t..Len(Sizes) /\ t \in 0..Len(Sizes)
    BY <1>1
  <2>2. Sums(Sizes)[t] <= Sums(Sizes)[Len(Sizes)]
    BY <1>1, <2>1, SumsGrow
  <2>3. Sums(Sizes)[t] = Sums(Sizes)[t - 1] + Sizes[t]
    BY <1>1, SumsAre
  <2> QED
    BY <2>2, <2>3 DEF Starts, DocMax, Total
<1>3. ASSUME NEW s \in 1..(Len(Layout[t]) + 1)
      PROVE  SegStarts[t][s] <= Sizes[t]
  <2> DEFINE sizes == Layout[t]
             N == Len(sizes)
  <2>1. sizes \in Seq(Nat) /\ N \in Nat /\ s - 1 \in 0..N /\ N \in (s - 1)..N
    BY <1>1
  <2>2. SegStarts[t][s] = Sums(sizes)[s - 1] /\ Sizes[t] = Sums(sizes)[N]
    BY DEF SegStarts, Sizes, Total
  <2> HIDE DEF sizes
  <2>3. Sums(sizes)[s - 1] <= Sums(sizes)[N]
    BY <2>1, SumsGrow
  <2> QED
    BY <2>2, <2>3
<1> QED
  BY <1>2, <1>3

\* Where a segment lies.
LEMMA SegmentWithin ==
  ASSUME Placed, seg \in DOMAIN Layout[tick]
  PROVE  /\ Start \in Nat /\ SegStart \in Nat /\ SegDocMax \in Nat /\ Sizes[tick] \in Nat
         /\ SegStart + SegDocMax <= Sizes[tick] /\ Start + Sizes[tick] <= DocMax
         /\ DocMax \in Nat
<1>1. /\ tick \in DOMAIN Layout /\ Len(Layout[tick]) \in Nat /\ seg \in 1..Len(Layout[tick])
      /\ seg \in DOMAIN Layout[tick]
  BY Offsets DEF Placed
<1>2. Start \in Nat /\ SegStart \in Nat /\ SegDocMax \in Nat
  BY InSegment
<1>3. Start + Sizes[tick] <= DocMax /\ Sizes[tick] \in Nat /\ DocMax \in Nat
  BY <1>1, Within, Offsets DEF Start
<1>4. SegStarts[tick][seg + 1] = SegStart + SegDocMax
  BY <1>1, SegOffsets DEF SegStart, SegDocMax
<1>5. seg + 1 \in 1..(Len(Layout[tick]) + 1)
  BY <1>1
<1>6. SegStart + SegDocMax <= Sizes[tick]
  BY <1>1, <1>4, <1>5, Within
<1> QED
  BY <1>2, <1>3, <1>6

\* The live documents of a Searchable, and of those before it.
LEMMA GoneByIs ==
  ASSUME Placed, LoopRight, Collecting
  PROVE  /\ GoneBy = LiveIn(Start, Start + SegStart + Reached)
         /\ GoneBy \subseteq (Start + 1)..(Start + Sizes[tick])
         /\ GoneBy \subseteq 1..DocMax /\ IsFiniteSet(GoneBy) /\ Cardinality(GoneBy) \in Nat
         /\ Cardinality(GoneBy) <= Sizes[tick]
         /\ Start \in Nat /\ SegStart \in Nat /\ Sizes[tick] \in Nat /\ DocMax \in Nat
<1>1. /\ tick \in DOMAIN Layout /\ Start \in Nat /\ Sizes[tick] \in Nat /\ DocMax \in Nat
      /\ Start + Sizes[tick] <= DocMax
      /\ SegStart \in Nat /\ SegStart <= Sizes[tick]
  BY Offsets, SegOffsets, Within DEF Placed, Start, SegStart
<1>2. Reached \in Nat /\ SegStart + Reached <= Sizes[tick]
  <2>1. CASE pc = "segment"
    BY <1>1, <2>1 DEF Reached
  <2>2. CASE pc # "segment"
    <3>1. pc \in InLoop /\ seg \in DOMAIN Layout[tick]
      BY <2>2 DEF Collecting, InLoop, Placed
    <3>2. SegDocMax \in Nat /\ SegStart + SegDocMax <= Sizes[tick]
      BY <3>1, SegmentWithin
    <3>3. /\ doc \in Nat
          /\ pc = "loop" => doc <= SegDocMax
          /\ pc = "skip" => doc \in 1..(SegDocMax + 1)
          /\ pc = "hit" /\ doc # 0 => doc \in 1..SegDocMax
      BY DEF LoopRight, Placed, Matching
    <3>4. Reached \in 0..SegDocMax
      BY <3>1, <3>2, <3>3 DEF Reached, InLoop
    <3> QED
      BY <1>1, <3>2, <3>4
  <2> QED
    BY <2>1, <2>2
<1>3. GoneBy = LiveIn(Start, Start + SegStart + Reached)
  BY DEF GoneBy, LiveIn
<1>4. GoneBy \subseteq (Start + 1)..(Start + Sizes[tick])
  BY <1>1, <1>2 DEF GoneBy
<1>5. IsFiniteSet((Start + 1)..(Start + Sizes[tick]))
      /\ Cardinality((Start + 1)..(Start + Sizes[tick])) = Sizes[tick]
  <2> DEFINE a == Start + 1
             b == Start + Sizes[tick]
  <2>1. a \in Int /\ b \in Int /\ (IF a > b THEN 0 ELSE b - a + 1) = Sizes[tick]
    BY <1>1
  <2> HIDE DEF a, b
  <2>2. IsFiniteSet(a..b) /\ Cardinality(a..b) = IF a > b THEN 0 ELSE b - a + 1
    BY <2>1, FS_Interval
  <2> QED
    BY <2>1, <2>2 DEF a, b
<1>6. /\ IsFiniteSet(GoneBy) /\ Cardinality(GoneBy) \in Nat
      /\ Cardinality(GoneBy) <= Sizes[tick]
  BY <1>4, <1>5, FS_Subset, FS_CardinalityType
<1>7. GoneBy \subseteq 1..DocMax
  BY <1>1, <1>4
<1> QED
  BY <1>1, <1>3, <1>4, <1>6, <1>7

\* What is taken to the collector is one more.
LEMMA HitGoesBy ==
  ASSUME SearchInv, Hit
  PROVE  LET g == Start + SegStart + doc
         IN  /\ doc \in 1..SegDocMax /\ g \in (Start + 1)..(Start + Sizes[tick])
             /\ g \in 1..DocMax /\ Live(g) /\ g \notin GoneBy
             /\ \A h \in GoneBy : h < g
             /\ GoneBy' = GoneBy \cup {g}
<1>1. /\ Placed /\ LoopRight /\ pc = "hit" /\ doc # 0 /\ pc' = "loop" /\ seg \in DOMAIN Layout[tick]
      /\ UNCHANGED <<docs, search, tick, seg, doc, nextDel, merged, total>>
  BY DEF SearchInv, Hit, input, Placed, InLoop
<1>2. /\ Start \in Nat /\ SegStart \in Nat /\ SegDocMax \in Nat /\ Sizes[tick] \in Nat
      /\ SegStart + SegDocMax <= Sizes[tick] /\ Start + Sizes[tick] <= DocMax /\ DocMax \in Nat
  BY <1>1, SegmentWithin
<1>3. doc \in Matching \ Deleted /\ doc \in 1..SegDocMax
  BY <1>1 DEF LoopRight, Matching
<1>4. Start' = Start /\ SegStart' = SegStart /\ \A d : Live(d)' = Live(d)
  BY <1>1, SameSegment
<1>5. Live(Start + SegStart + doc)
  BY <1>1, <1>3, InSegment
<1>6. Reached = doc - 1 /\ Reached' = doc
  BY <1>1 DEF Reached
<1>7. /\ GoneBy = {g \in (Start + 1)..(Start + SegStart + (doc - 1)) : Live(g)}
      /\ GoneBy' = {g \in (Start + 1)..(Start + SegStart + doc) : Live(g)}
  BY <1>4, <1>6 DEF GoneBy
<1> QED
  BY <1>2, <1>3, <1>5, <1>7

\* So there are not more hits than documents.
LEMMA HitCounts ==
  ASSUME SearchInv, Hit
  PROVE  Cardinality(GoneBy) + 1 <= Sizes[tick]
<1> DEFINE g == Start + SegStart + doc
           a == Start + 1
           b == Start + Sizes[tick]
<1>1. Placed /\ LoopRight /\ Collecting
  BY DEF SearchInv, Hit, Collecting
<1>2. /\ GoneBy \subseteq a..b /\ IsFiniteSet(GoneBy) /\ Start \in Nat /\ Sizes[tick] \in Nat
      /\ Cardinality(GoneBy) \in Nat
  BY <1>1, GoneByIs
<1>3. g \in a..b /\ g \notin GoneBy
  BY HitGoesBy
<1>4. a \in Int /\ b \in Int /\ (IF a > b THEN 0 ELSE b - a + 1) = Sizes[tick]
  BY <1>2
<1> HIDE DEF a, b, g
<1>5. IsFiniteSet(a..b) /\ Cardinality(a..b) = Sizes[tick]
  BY <1>4, FS_Interval
<1>6. GoneBy \cup {g} \in SUBSET (a..b)
  BY <1>2, <1>3
<1>7. Cardinality(GoneBy \cup {g}) = Cardinality(GoneBy) + 1
  BY <1>2, <1>3, FS_AddElement
<1>8. Cardinality(GoneBy \cup {g}) <= Cardinality(a..b)
  BY <1>5, <1>6, FS_Subset
<1> QED
  BY <1>5, <1>7, <1>8

\* The other steps of a Searchable's search go by none.
LEMMA OthersGoByNone ==
  ASSUME SearchInv,
         \/ EnterSegment \/ SkipSegment \/ Exhausted
         \/ CatchUp \/ SkipDeleted \/ AdvancePast \/ NextMatch
  PROVE  GoneBy' = GoneBy
<1>1. Placed /\ LoopRight
  BY DEF SearchInv
<1>2. CASE EnterSegment
  <2>1. Reached = 0 /\ Reached' = 0 /\ UNCHANGED <<docs, tick, seg>>
    BY <1>2 DEF EnterSegment, Matcher, Reached, input
  <2>2. Start' = Start /\ SegStart' = SegStart /\ \A d : Live(d)' = Live(d)
    BY <2>1, SameSegment
  <2> QED
    BY <2>1, <2>2 DEF GoneBy
<1>3. CASE SkipSegment \/ Exhausted
  BY <1>1, <1>3, NextSegmentReaches
<1>4. CASE CatchUp \/ SkipDeleted \/ AdvancePast \/ NextMatch
  BY <1>1, <1>4, LoopStepPlaced, LoopStepReaches
<1> QED
  BY <1>2, <1>3, <1>4

\* S_modify_doc_ids.
LEMMA LiftedIs ==
  ASSUME NEW list \in Seq(Hits), NEW n \in Nat, NEW lifted,
         lifted = [i \in DOMAIN list |-> Raised(list[i], n)]
  PROVE  /\ lifted \in Seq(Hits) /\ Len(lifted) = Len(list)
         /\ Range(lifted) = AllRaised(Range(list), n)
         /\ Distinct(list) => Distinct(lifted)
         /\ \A rules \in Seq(SortRule) : Sorted(rules, list) => Sorted(rules, lifted)
<1> DEFINE N == Len(list)
<1>1. N \in Nat /\ DOMAIN list = 1..N /\ \A i \in 1..N : list[i] \in Hits
  OBVIOUS
<1>2. \A i \in 1..N : lifted[i] = Raised(list[i], n) /\ lifted[i] \in Hits
  BY <1>1, RaisedIs
<1>3. lifted \in [1..N -> Hits]
  BY <1>1, <1>2
<1>4. lifted \in Seq(Hits) /\ Len(lifted) = N /\ DOMAIN lifted = 1..N
  BY <1>1, <1>3
<1>5. Range(lifted) = {lifted[i] : i \in 1..N} /\ Range(list) = {list[i] : i \in 1..N}
  BY <1>1, <1>4 DEF Range
<1>6. Range(lifted) = AllRaised(Range(list), n)
  BY <1>2, <1>5 DEF AllRaised
<1>7. Distinct(list) => Distinct(lifted)
  <2>1. ASSUME Distinct(list), NEW i \in 1..N, NEW j \in 1..N, lifted[i] = lifted[j]
        PROVE  i = j
    <3>1. <<>> \in Seq(SortRule)
      OBVIOUS
    <3>0. list[i] \in Hits /\ list[j] \in Hits /\ Raised(list[i], n) = Raised(list[j], n)
      BY <1>1, <1>2, <2>1
    <3>2. list[i] = list[j]
      BY <3>0, <3>1, RaisedOrder
    <3> QED
      BY <1>1, <2>1, <3>2 DEF Distinct
  <2> QED
    BY <1>4, <2>1 DEF Distinct
<1>8. ASSUME NEW rules \in Seq(SortRule), Sorted(rules, list)
      PROVE  Sorted(rules, lifted)
  <2>1. ASSUME NEW i \in 1..N, NEW j \in 1..N, i < j
        PROVE  ~LessThan(rules, lifted[i], lifted[j])
    BY <1>1, <1>2, <1>8, <2>1, RaisedOrder DEF Sorted
  <2> QED
    BY <1>4, <2>1 DEF Sorted
<1> QED
  BY <1>4, <1>6, <1>7, <1>8

-----------------------------------------------------------------------------
(* Types                                                                    *)

Collectors == [hits : Nat, bumped : Nat, queue : Seq(Hits), auto : BOOLEAN,
               bubbleDoc : Nat, bubbleScore : Nat]

\* The doc ids of hits.
DocsUpTo(list, n) == \A m \in Range(list) : m.doc \in 1..n

\* Both queues are heaps while they are queues, of hits that there are.
Typed ==
    /\ Given /\ coll \in Collectors /\ merged \in Seq(Hits)
    /\ Collecting => IsQueue(search.rules, coll.queue) /\ DocsUpTo(coll.queue, Sizes[tick])
    /\ pc = "merge" => DocsUpTo(coll.queue, DocMax)
    /\ pc = "done" => coll.queue = <<>>
    /\ pc # "done" => IsQueue(search.rules, merged)
    /\ DocsUpTo(merged, DocMax)
    /\ Len(coll.queue) <= search.wanted /\ Len(merged) <= search.wanted
    /\ coll.hits <= DocMax /\ doc <= DocMax + 1 /\ nextDel <= Never

LEMMA MatchDocIs ==
  ASSUME SearchInv, Typed, Hit
  PROVE  /\ MatchDoc(doc) \in Hits /\ MatchDoc(doc).doc = doc + SegStart
         /\ MatchDoc(doc).doc \in 1..Sizes[tick]
<1>1. Placed /\ seg \in DOMAIN Layout[tick] /\ Given /\ coll.bumped \in Nat
  BY DEF SearchInv, Hit, Placed, InLoop, Typed, Collectors
<1>2. /\ SegStart \in Nat /\ SegDocMax \in Nat /\ Sizes[tick] \in Nat
      /\ SegStart + SegDocMax <= Sizes[tick]
  BY <1>1, SegmentWithin
<1>3. doc \in 1..SegDocMax /\ Start + SegStart + doc \in 1..DocMax
  BY HitGoesBy
<1>4. The(doc).score \in Nat /\ The(doc).value \in Nat
  BY <1>1, <1>3, GivenIs DEF The
<1>5. ScoreFor(doc) \in Nat
  BY <1>1, <1>4 DEF ScoreFor, NegInf
<1> QED
  BY <1>2, <1>3, <1>4, <1>5 DEF MatchDoc, Hits

LEMMA EmptyQueue ==
  ASSUME NEW rules
  PROVE  /\ IsQueue(rules, <<>>) /\ Len(<<>>) = 0 /\ Range(<<>>) = {} /\ Distinct(<<>>)
         /\ \A n : DocsUpTo(<<>>, n)
<1>1. <<>> \in Seq(Hits) /\ Len(<<>>) = 0 /\ DOMAIN <<>> = {}
  OBVIOUS
<1>2. Range(<<>>) = {}
  BY <1>1 DEF Range
<1>3. InOrder(rules, <<>>)
  BY <1>1 DEF InOrder
<1> QED
  BY <1>1, <1>2, <1>3 DEF IsQueue, Distinct, DocsUpTo

LEMMA LoopStepTyped ==
  ASSUME SearchInv, SearchInv', Typed, CatchUp \/ SkipDeleted \/ AdvancePast \/ NextMatch
  PROVE  Typed'
<1>1. /\ UNCHANGED <<docs, search, tick, seg, coll, merged, total>>
      /\ Collecting /\ Collecting' /\ pc' \in InLoop /\ pc \in InLoop
  BY DEF CatchUp, SkipDeleted, AdvancePast, NextMatch, input, Collecting, InLoop
<1>2. /\ Placed /\ LoopRight /\ Placed' /\ LoopRight' /\ seg \in DOMAIN Layout[tick]
  BY <1>1 DEF SearchInv, Placed
<1>3. /\ SegDocMax \in Nat /\ DocMax \in Nat /\ SegDocMax <= DocMax /\ Never = DocMax + 2
      /\ Deleted \in SUBSET (Nat \ {0}) /\ \A d \in Deleted : d \in Nat /\ d <= SegDocMax
  BY <1>2, InSegment
<1>4. SegDocMax' = SegDocMax
  BY <1>1, SameSegment
<1>5. doc \in Nat /\ doc' \in Nat /\ nextDel \in Nat /\ nextDel' \in Nat
  BY <1>2 DEF Placed
<1>6. doc' <= DocMax + 1
  <2>1. doc' <= SegDocMax + 1
    BY <1>1, <1>2, <1>3, <1>4, <1>5 DEF LoopRight, InLoop, Matching
  <2> QED
    BY <1>3, <1>5, <2>1
<1>7. nextDel' <= Never
  <2>1. ASSUME NEW target \in Nat
        PROVE  Deletion(target) <= SegDocMax /\ Deletion(target) \in Nat
    <3>1. Deletion(target) \in Nat /\ (Deletion(target) # 0 => Deletion(target) \in Deleted)
      BY <1>3, Advances DEF Deletion
    <3> QED
      BY <1>3, <3>1
  <2>2. /\ nextDel <= Never
        /\ nextDel' \in {nextDel, Never, Deletion(doc), Deletion(doc + 1), Deletion(doc')}
    BY DEF CatchUp, SkipDeleted, AdvancePast, NextMatch, DeletionOrNever, Typed
  <2>3. doc + 1 \in Nat
    BY <1>5
  <2> QED
    BY <1>3, <1>5, <2>1, <2>2, <2>3
<1>8. /\ Given /\ coll \in Collectors /\ merged \in Seq(Hits) /\ pc # "done" /\ pc' \notin {"merge", "done"}
  BY <1>1 DEF Typed, Collecting, InLoop
<1> QED
  BY <1>1, <1>6, <1>7, <1>8 DEF Typed, Given, Collecting

LEMMA EnterTyped ==
  ASSUME SearchInv, Typed, EnterSegment
  PROVE  Typed'
<1>1. /\ UNCHANGED <<docs, search, tick, seg, merged, total>>
      /\ coll' = SetReader(coll) /\ pc = "segment" /\ pc' = "loop" /\ doc' = 0 /\ nextDel' = 0
      /\ Collecting /\ Collecting'
  BY DEF EnterSegment, Matcher, input, Collecting
<1>2. /\ coll' \in Collectors /\ coll'.queue = coll.queue /\ coll'.hits = coll.hits
  BY <1>1 DEF Typed, Collectors, SetReader, NegInf
<1>3. DocMax \in Nat /\ Never = DocMax + 2
  BY Offsets DEF Never
<1> QED
  BY <1>1, <1>2, <1>3 DEF Typed, Given

LEMMA NextSegmentTyped ==
  ASSUME SearchInv, Typed, SkipSegment \/ Exhausted
  PROVE  Typed'
<1>1. /\ UNCHANGED <<docs, search, tick, doc, nextDel, coll, merged, total>>
      /\ pc # "done" /\ pc' = "segment" /\ Collecting /\ Collecting'
  BY DEF SkipSegment, Exhausted, Matcher, input, Collecting
<1> QED
  BY <1>1 DEF Typed, Given

\* The queue never grows beyond what is wanted.
LEMMA QueueTyped ==
  ASSUME SearchInv, Typed, Hit
  PROVE  /\ coll' \in Collectors /\ coll'.hits = coll.hits + 1
         /\ IsQueue(search.rules, coll'.queue) /\ Len(coll'.queue) <= search.wanted
         /\ DocsUpTo(coll'.queue, Sizes[tick])
<1> DEFINE rules == search.rules
           w == search.wanted
           q == coll.queue
           m == MatchDoc(doc)
           c == [coll EXCEPT !.hits = @ + 1]
<1>1. /\ coll \in Collectors /\ IsQueue(rules, q) /\ Len(q) <= w
      /\ q \in Seq(Hits) /\ DocsUpTo(q, Sizes[tick])
  BY DEF Typed, Hit, Collecting, IsQueue
<1>2. rules \in Seq(SortRule) /\ w \in Nat
  BY GivenIs DEF Typed
<1>3. m \in Hits /\ m.doc \in 1..Sizes[tick] /\ doc \in Nat /\ m.score \in Nat
  BY MatchDocIs DEF Hits, SearchInv, Placed
<1>4. c \in Collectors /\ c.hits = coll.hits + 1 /\ c.queue = q
  BY <1>1 DEF Collectors
<1>5. Collect(doc)
  BY DEF Hit
<1>6. \/ coll' = c
      \/ /\ HasRoom(w, q)
         /\ coll' = [c EXCEPT !.queue = Put(rules, @, m), !.bumped = NegInf]
      \/ /\ Displaces(rules, w, q, m)
         /\ coll' = [c EXCEPT !.queue = Replaced(rules, @, m), !.bumped = q[1].score]
      \/ coll' = [c EXCEPT !.auto = FALSE, !.bumped = m.score, !.bubbleDoc = doc,
                          !.bubbleScore = m.score]
  BY <1>5 DEF Collect
<1> HIDE DEF m, c, q, rules, w
<1>7. CASE coll' = c
  BY <1>1, <1>4, <1>7 DEF q, w, rules
<1>8. CASE HasRoom(w, q) /\ coll' = [c EXCEPT !.queue = Put(rules, @, m), !.bumped = NegInf]
  <2>1. /\ IsQueue(rules, Put(rules, q, m)) /\ Len(Put(rules, q, m)) = Len(q) + 1
        /\ Range(Put(rules, q, m)) = Range(q) \cup {m}
    BY <1>1, <1>2, <1>3, PutIs
  <2>2. Put(rules, q, m) \in Seq(Hits) /\ NegInf \in Nat
    BY <2>1 DEF IsQueue, NegInf
  <2>3. coll' \in Collectors /\ coll'.hits = c.hits /\ coll'.queue = Put(rules, q, m)
    BY <1>4, <1>8, <2>2 DEF Collectors
  <2>4. Len(q) + 1 <= w
    BY <1>1, <1>2, <1>8 DEF HasRoom
  <2>5. DocsUpTo(Put(rules, q, m), Sizes[tick])
    BY <1>1, <1>3, <2>1 DEF DocsUpTo
  <2> QED
    BY <1>4, <2>1, <2>3, <2>4, <2>5 DEF w, rules
<1>9. CASE Displaces(rules, w, q, m)
           /\ coll' = [c EXCEPT !.queue = Replaced(rules, @, m), !.bumped = q[1].score]
  <2>1. q # <<>>
    BY <1>9 DEF Displaces
  <2>2. /\ IsQueue(rules, Replaced(rules, q, m)) /\ Len(Replaced(rules, q, m)) = Len(q)
        /\ Range(Replaced(rules, q, m)) \subseteq Range(q) \cup {m}
    BY <1>1, <1>2, <1>3, <2>1, ReplacedIs
  <2>3. Replaced(rules, q, m) \in Seq(Hits) /\ q[1].score \in Nat
    <3>1. q[1] \in Hits
      BY <1>1, <2>1
    <3> QED
      BY <2>2, <3>1 DEF IsQueue, Hits
  <2>4. coll' \in Collectors /\ coll'.hits = c.hits /\ coll'.queue = Replaced(rules, q, m)
    BY <1>4, <1>9, <2>3 DEF Collectors
  <2>5. DocsUpTo(Replaced(rules, q, m), Sizes[tick])
    BY <1>1, <1>3, <2>2 DEF DocsUpTo
  <2> QED
    BY <1>1, <1>4, <2>2, <2>4, <2>5 DEF w, rules
<1>10. CASE coll' = [c EXCEPT !.auto = FALSE, !.bumped = m.score, !.bubbleDoc = doc,
                            !.bubbleScore = m.score]
  <2>1. coll' \in Collectors /\ coll'.hits = c.hits /\ coll'.queue = q
    BY <1>3, <1>4, <1>10 DEF Collectors
  <2> QED
    BY <1>1, <1>4, <2>1 DEF w, rules
<1> QED
  BY <1>6, <1>7, <1>8, <1>9, <1>10

LEMMA HitTyped ==
  ASSUME SearchInv, SearchInv', Typed, Hit
  PROVE  Typed'
<1>1. /\ UNCHANGED <<docs, search, tick, seg, doc, nextDel, merged, total>>
      /\ pc = "hit" /\ pc' = "loop" /\ Collecting /\ Collecting'
  BY DEF Hit, input, Collecting
<1>2. /\ Cardinality(GoneBy) + 1 <= Sizes[tick] /\ Start + Sizes[tick] <= DocMax
      /\ Start \in Nat /\ Sizes[tick] \in Nat /\ DocMax \in Nat
  BY HitCounts, SegmentWithin DEF SearchInv, Hit, Placed, InLoop
<1>3. coll'.hits <= DocMax
  <2>1. coll'.hits = coll.hits + 1 /\ coll.hits = Cardinality(GoneBy) /\ coll.hits \in Nat
    BY <1>1, QueueTyped DEF SearchInv, HitsCounted, Typed, Collectors
  <2> QED
    BY <1>2, <2>1
<1> QED
  BY <1>1, <1>3, QueueTyped DEF Typed, Given

LEMMA TopDocsTyped ==
  ASSUME SearchInv, Typed, TopDocs
  PROVE  Typed'
<1> DEFINE best == PopAll(search.rules, coll.queue)
           lifted == [i \in DOMAIN best |-> Raised(best[i], Start)]
<1>1. /\ UNCHANGED <<docs, search, tick, seg, doc, nextDel, merged>>
      /\ pc = "segment" /\ pc' = "merge" /\ Collecting /\ ~Collecting'
      /\ coll' = [coll EXCEPT !.queue = lifted]
  BY DEF TopDocs, input, Collecting, Raised
<1>2. /\ search.rules \in Seq(SortRule) /\ coll \in Collectors /\ coll.queue \in Seq(Hits)
      /\ DocsUpTo(coll.queue, Sizes[tick])
  BY <1>1, GivenIs DEF Typed, IsQueue
<1>3. best \in Seq(Hits) /\ Len(best) = Len(coll.queue) /\ Range(best) \subseteq Range(coll.queue)
  BY <1>2, PopAllIs DEF Listed
<1>4. /\ tick \in DOMAIN Layout /\ Start \in Nat /\ Sizes[tick] \in Nat
      /\ Start + Sizes[tick] <= DocMax /\ DocMax \in Nat
  BY Within, Offsets DEF SearchInv, Placed, Start
<1> HIDE DEF best
<1>5. /\ lifted \in Seq(Hits) /\ Len(lifted) = Len(coll.queue)
      /\ Range(lifted) = AllRaised(Range(best), Start)
  BY <1>3, <1>4, LiftedIs
<1>6. DocsUpTo(lifted, DocMax)
  <2>1. ASSUME NEW m \in Range(best)
        PROVE  Raised(m, Start).doc \in 1..DocMax
    <3>1. m \in Hits /\ m.doc \in 1..Sizes[tick]
      BY <1>2, <1>3, RangeIs DEF DocsUpTo
    <3>2. Raised(m, Start).doc = m.doc + Start
      BY <1>4, <3>1, RaisedIs
    <3> QED
      BY <1>4, <3>1, <3>2
  <2> QED
    BY <1>5, <2>1 DEF DocsUpTo, AllRaised
<1> HIDE DEF lifted
<1>7. coll' \in Collectors /\ coll'.queue = lifted /\ coll'.hits = coll.hits
  BY <1>1, <1>2, <1>5 DEF Collectors
<1> QED
  BY <1>1, <1>5, <1>6, <1>7 DEF Typed, Given

LEMMA TailIs ==
  ASSUME NEW list \in Seq(Hits), list # <<>>
  PROVE  /\ Head(list) \in Hits /\ Tail(list) \in Seq(Hits) /\ Len(Tail(list)) <= Len(list)
         /\ Range(list) = Range(Tail(list)) \cup {Head(list)}
         /\ Distinct(list) => Distinct(Tail(list)) /\ Head(list) \notin Range(Tail(list))
         /\ \A rules : Sorted(rules, list) =>
               /\ Sorted(rules, Tail(list))
               /\ \A m \in Range(Tail(list)) : ~LessThan(rules, Head(list), m)
<1> DEFINE N == Len(list)
           rest == Tail(list)
<1>1. N \in Nat \ {0} /\ DOMAIN list = 1..N /\ \A i \in 1..N : list[i] \in Hits
  OBVIOUS
<1>2. /\ Head(list) = list[1] /\ rest \in Seq(Hits) /\ Len(rest) = N - 1
      /\ \A i \in 1..(N - 1) : rest[i] = list[i + 1]
  OBVIOUS
<1>3. DOMAIN rest = 1..(N - 1)
  BY <1>1, <1>2
<1> HIDE DEF rest
<1>4. /\ Range(list) = {list[i] : i \in 1..N}
      /\ Range(rest) = {list[i] : i \in 2..N}
  <2>1. Range(rest) = {rest[i] : i \in 1..(N - 1)}
    BY <1>3 DEF Range
  <2>2. ASSUME NEW i \in 2..N PROVE i - 1 \in 1..(N - 1) /\ rest[i - 1] = list[i]
    BY <1>1, <1>2
  <2>3. ASSUME NEW i \in 1..(N - 1) PROVE i + 1 \in 2..N /\ rest[i] = list[i + 1]
    BY <1>1, <1>2
  <2>4. {rest[i] : i \in 1..(N - 1)} = {list[i] : i \in 2..N}
    BY <2>2, <2>3
  <2>5. Range(list) = {list[i] : i \in 1..N}
    BY <1>1 DEF Range
  <2> QED
    BY <2>1, <2>4, <2>5
<1>5. \A i \in 1..N : i = 1 \/ i \in 2..N
  BY <1>1
<1>6. 1 \in 1..N /\ \A i \in 2..N : i \in 1..N /\ i # 1 /\ 1 < i
  BY <1>1
<1>7. Range(list) = Range(rest) \cup {list[1]}
  BY <1>4, <1>5, <1>6
<1>8. ASSUME Distinct(list)
      PROVE  Distinct(rest) /\ list[1] \notin Range(rest)
  <2>1. list[1] \notin Range(rest)
    BY <1>1, <1>4, <1>6, <1>8 DEF Distinct
  <2>2. ASSUME NEW i \in 1..(N - 1), NEW j \in 1..(N - 1), rest[i] = rest[j]
        PROVE  i = j
    <3>1. i + 1 \in 1..N /\ j + 1 \in 1..N /\ list[i + 1] = list[j + 1]
      BY <1>1, <1>2, <2>2
    <3>2. i + 1 = j + 1
      BY <1>1, <1>8, <3>1 DEF Distinct
    <3> QED
      BY <3>2
  <2> QED
    BY <1>3, <2>1, <2>2 DEF Distinct
<1>9. ASSUME NEW rules, Sorted(rules, list)
      PROVE  /\ Sorted(rules, rest)
             /\ \A m \in Range(rest) : ~LessThan(rules, list[1], m)
  <2>1. \A m \in Range(rest) : ~LessThan(rules, list[1], m)
    BY <1>1, <1>4, <1>6, <1>9 DEF Sorted
  <2>2. ASSUME NEW i \in 1..(N - 1), NEW j \in 1..(N - 1), i < j
        PROVE  ~LessThan(rules, rest[i], rest[j])
    <3>1. /\ i + 1 \in 1..N /\ j + 1 \in 1..N /\ i + 1 < j + 1
          /\ rest[i] = list[i + 1] /\ rest[j] = list[j + 1]
      BY <1>1, <1>2, <2>2
    <3> QED
      BY <1>1, <1>9, <3>1 DEF Sorted
  <2> QED
    BY <1>3, <2>1, <2>2 DEF Sorted
<1> QED
  BY <1>1, <1>2, <1>7, <1>8, <1>9 DEF rest

LEMMA MergeTyped ==
  ASSUME SearchInv, Typed, Merge
  PROVE  Typed'
<1> DEFINE rules == search.rules
           w == search.wanted
           q == coll.queue
           m == Head(q)
<1>1. /\ UNCHANGED <<docs, search, pc, tick, seg, doc, nextDel, total>>
      /\ pc = "merge" /\ q # <<>> /\ ~Collecting /\ ~Collecting'
      /\ \/ /\ HasRoom(w, merged) /\ merged' = Put(rules, merged, m)
            /\ coll' = [coll EXCEPT !.queue = Tail(@)]
         \/ /\ Displaces(rules, w, merged, m) /\ merged' = Replaced(rules, merged, m)
            /\ coll' = [coll EXCEPT !.queue = Tail(@)]
         \/ coll' = [coll EXCEPT !.queue = <<>>] /\ merged' = merged
  BY DEF Merge, input, Collecting
<1>2. /\ rules \in Seq(SortRule) /\ w \in Nat /\ coll \in Collectors /\ q \in Seq(Hits)
      /\ DocsUpTo(q, DocMax) /\ DocsUpTo(merged, DocMax) /\ IsQueue(rules, merged)
      /\ merged \in Seq(Hits) /\ Len(q) <= w /\ Len(merged) <= w
  BY <1>1, GivenIs DEF Typed, Collectors
<1>3. /\ m \in Hits /\ Tail(q) \in Seq(Hits) /\ Len(Tail(q)) <= Len(q)
      /\ Range(q) = Range(Tail(q)) \cup {m}
  BY <1>1, <1>2, TailIs
<1>4. m.doc \in 1..DocMax /\ DocsUpTo(Tail(q), DocMax)
  BY <1>2, <1>3 DEF DocsUpTo
<1>5. \/ coll' = [coll EXCEPT !.queue = Tail(@)]
      \/ coll' = [coll EXCEPT !.queue = <<>>]
  BY <1>1
<1>6. /\ coll' \in Collectors /\ coll'.hits = coll.hits
      /\ DocsUpTo(coll'.queue, DocMax) /\ Len(coll'.queue) <= w
  <2>1. Len(q) \in Nat /\ Len(Tail(q)) \in Nat
    BY <1>2, <1>3
  <2>2. CASE coll' = [coll EXCEPT !.queue = Tail(@)]
    <3>1. coll' \in Collectors /\ coll'.queue = Tail(q) /\ coll'.hits = coll.hits
      BY <1>2, <1>3, <2>2 DEF Collectors
    <3> QED
      BY <1>2, <1>3, <1>4, <2>1, <3>1
  <2>3. CASE coll' = [coll EXCEPT !.queue = <<>>]
    <3>0. <<>> \in Seq(Hits)
      OBVIOUS
    <3>1. coll' \in Collectors /\ coll'.queue = <<>> /\ coll'.hits = coll.hits
      BY <1>2, <2>3, <3>0 DEF Collectors
    <3> QED
      BY <1>2, <3>1, EmptyQueue
  <2> QED
    BY <1>5, <2>2, <2>3
<1> HIDE DEF rules, w, m
<1>7. IsQueue(rules, merged') /\ DocsUpTo(merged', DocMax) /\ Len(merged') <= w
  <2>1. CASE HasRoom(w, merged) /\ merged' = Put(rules, merged, m)
    <3>1. /\ IsQueue(rules, merged') /\ Len(merged') = Len(merged) + 1
          /\ Range(merged') = Range(merged) \cup {m}
      BY <1>2, <1>3, <2>1, PutIs
    <3>2. Len(merged) + 1 <= w
      BY <1>2, <2>1 DEF HasRoom
    <3> QED
      BY <1>2, <1>4, <3>1, <3>2 DEF DocsUpTo
  <2>2. CASE Displaces(rules, w, merged, m) /\ merged' = Replaced(rules, merged, m)
    <3>1. merged # <<>>
      BY <2>2 DEF Displaces
    <3>2. /\ IsQueue(rules, merged') /\ Len(merged') = Len(merged)
          /\ Range(merged') \subseteq Range(merged) \cup {m}
      BY <1>2, <1>3, <2>2, <3>1, ReplacedIs
    <3> QED
      BY <1>2, <1>4, <3>2 DEF DocsUpTo
  <2>3. CASE merged' = merged
    BY <1>2, <2>3
  <2> QED
    BY <1>1, <2>1, <2>2, <2>3
<1>8. merged' \in Seq(Hits)
  BY <1>7 DEF IsQueue
<1> QED
  BY <1>1, <1>6, <1>7, <1>8 DEF Typed, Given, rules, w

LEMMA NewCollectorIs ==
  /\ NewCollector \in Collectors /\ NewCollector.queue = <<>> /\ NewCollector.hits = 0
  /\ NewCollector.bumped = NegInf /\ NewCollector.auto = TRUE
<1>1. <<>> \in Seq(Hits)
  OBVIOUS
<1> QED
  BY <1>1 DEF NewCollector, Collectors, NegInf

LEMMA MergedTyped ==
  ASSUME SearchInv, Typed, Merged
  PROVE  Typed'
<1> DEFINE best == PopAll(search.rules, merged)
<1>1. /\ UNCHANGED <<docs, search, doc, nextDel, total>>
      /\ pc = "merge" /\ coll' = NewCollector
      /\ \/ pc' = "segment" /\ merged' = merged
         \/ pc' = "done" /\ merged' = best
  BY DEF Merged, input
<1>2. /\ search.rules \in Seq(SortRule) /\ search.wanted \in Nat
      /\ merged \in Seq(Hits) /\ IsQueue(search.rules, merged) /\ DocsUpTo(merged, DocMax)
      /\ Len(merged) <= search.wanted
  BY <1>1, GivenIs DEF Typed
<1>3. coll' \in Collectors /\ coll'.queue = <<>> /\ coll'.hits = 0
  BY <1>1, NewCollectorIs
<1>4. best \in Seq(Hits) /\ Len(best) = Len(merged) /\ Range(best) \subseteq Range(merged)
  BY <1>2, PopAllIs DEF Listed
<1>5. DocsUpTo(best, DocMax)
  BY <1>2, <1>4 DEF DocsUpTo
<1>6. /\ merged' \in Seq(Hits) /\ DocsUpTo(merged', DocMax) /\ Len(merged') <= search.wanted
      /\ pc' # "done" => IsQueue(search.rules, merged')
  BY <1>1, <1>2, <1>4, <1>5
<1>7. DocMax \in Nat
  BY Offsets
<1>8. /\ \A n : DocsUpTo(coll'.queue, n)
      /\ IsQueue(search.rules, coll'.queue) /\ Len(coll'.queue) <= search.wanted
  BY <1>2, <1>3, EmptyQueue
<1>9. pc' \in {"segment", "done"}
  BY <1>1
<1> HIDE DEF best
<1> QED
  BY <1>1, <1>3, <1>6, <1>7, <1>8, <1>9 DEF Typed, Given

LEMMA InitTyped == Init => Typed
<1> SUFFICES ASSUME Init PROVE Typed
  OBVIOUS
<1>1. /\ docs \in [1..DocMax -> Doc] /\ search \in Search /\ pc = "segment" /\ doc = 0
      /\ nextDel = 0 /\ coll = NewCollector /\ merged = <<>>
  BY DEF Init
<1>2. Given
  BY <1>1 DEF Given
<1>3. search.wanted \in Nat /\ DocMax \in Nat /\ Never = DocMax + 2
  BY <1>2, GivenIs, Offsets DEF Never
<1>4. <<>> \in Seq(Hits)
  OBVIOUS
<1> QED
  BY <1>1, <1>2, <1>3, <1>4, NewCollectorIs, EmptyQueue DEF Typed

LEMMA StepTyped == SearchInv /\ SearchInv' /\ Typed /\ [Next]_vars => Typed'
<1> SUFFICES ASSUME SearchInv, SearchInv', Typed, [Next]_vars PROVE Typed'
  OBVIOUS
<1>1. CASE EnterSegment
  BY <1>1, EnterTyped
<1>2. CASE SkipSegment \/ Exhausted
  BY <1>2, NextSegmentTyped
<1>3. CASE CatchUp \/ SkipDeleted \/ AdvancePast \/ NextMatch
  BY <1>3, LoopStepTyped
<1>4. CASE Hit
  BY <1>4, HitTyped
<1>5. CASE TopDocs
  BY <1>5, TopDocsTyped
<1>6. CASE Merge
  BY <1>6, MergeTyped
<1>7. CASE Merged
  BY <1>7, MergedTyped
<1>8. CASE UNCHANGED vars
  <2>1. UNCHANGED <<docs, search, pc, tick, seg, doc, nextDel, coll, merged, total>>
    BY <1>8 DEF vars, input
  <2> QED
    BY <2>1 DEF Typed, Given, Collecting
<1> QED
  BY <1>1, <1>2, <1>3, <1>4, <1>5, <1>6, <1>7, <1>8 DEF Next

LEMMA TypedGives == SearchInv /\ Typed => TypeOK
<1> SUFFICES ASSUME SearchInv, Typed PROVE TypeOK
  OBVIOUS
<1>1. /\ Placed /\ Given /\ coll \in Collectors /\ merged \in Seq(Hits) /\ coll.queue \in Seq(Hits)
      /\ DocMax \in Nat /\ Never = DocMax + 2 /\ doc \in Nat /\ nextDel \in Nat
      /\ tick \in DOMAIN Layout /\ Start \in Nat /\ Sizes[tick] \in Nat
      /\ Start + Sizes[tick] <= DocMax
  BY Offsets, Within DEF SearchInv, Placed, Typed, Collectors, Never, Start
<1>2. ASSUME NEW list \in Seq(Hits), DocsUpTo(list, DocMax)
      PROVE  list \in Seq(MatchDocs)
  <2>1. \A i \in 1..Len(list) : list[i] \in Hits /\ list[i].doc \in 1..DocMax
    BY <1>2 DEF DocsUpTo, Range
  <2>2. \A i \in 1..Len(list) : list[i] \in MatchDocs
    BY <2>1 DEF MatchDocs, Hits
  <2> QED
    BY <2>2
<1>3. DocsUpTo(coll.queue, DocMax) /\ DocsUpTo(merged, DocMax)
  <2>1. CASE Collecting
    BY <1>1, <2>1 DEF Typed, DocsUpTo
  <2>2. CASE ~Collecting
    <3>1. pc \in {"merge", "done"}
      BY <2>2 DEF SearchInv, Placed, InLoop, Collecting
    <3> QED
      BY <3>1, EmptyQueue DEF Typed
  <2> QED
    BY <2>1, <2>2 DEF Typed
<1>4. coll.queue \in Seq(MatchDocs) /\ merged \in Seq(MatchDocs)
  BY <1>1, <1>2, <1>3
<1>5. total \in 0..DocMax
  <2> DEFINE n == IF Collecting THEN Start ELSE Start + Sizes[tick]
  <2>1. n \in Nat /\ n <= DocMax
    BY <1>1
  <2>2. total = Cardinality(LiveIn(0, n))
    BY DEF SearchInv, TotalCounted
  <2> HIDE DEF n
  <2>3. IsFiniteSet(1..DocMax) /\ Cardinality(1..DocMax) = DocMax
    BY <1>1, FS_Interval
  <2>4. LiveIn(0, n) \in SUBSET (1..DocMax)
    BY <1>1, <2>1 DEF LiveIn
  <2>5. Cardinality(LiveIn(0, n)) <= Cardinality(1..DocMax) /\ Cardinality(LiveIn(0, n)) \in Nat
    BY <2>1, <2>3, <2>4, FS_Subset, LiveFinite
  <2> QED
    BY <1>1, <2>2, <2>3, <2>5
<1>6. coll.hits \in 0..DocMax /\ doc \in 0..(DocMax + 1) /\ nextDel \in 0..Never
  <2>1. coll.hits \in Nat /\ coll.hits <= DocMax /\ doc <= DocMax + 1 /\ nextDel <= Never
    BY <1>1 DEF Typed, Collectors
  <2> QED
    BY <1>1, <2>1
<1>7. /\ Len(coll.queue) <= search.wanted /\ Len(merged) <= search.wanted
      /\ pc \in {"segment", "loop", "skip", "hit", "merge", "done"}
      /\ seg \in 1..(Len(Layout[tick]) + 1)
  BY DEF Typed, SearchInv, Placed, InLoop
<1> QED
  BY <1>1, <1>4, <1>5, <1>6, <1>7 DEF TypeOK, Given

\* Each variable holds what it should, and neither queue ever holds more hits
\* than were wanted, for which S_put would throw: in all searches of all
\* indexes.
THEOREM TypesRight == Spec => []TypeOK
<1>1. Init => SearchInv /\ Typed
  BY InitRight, InitTyped
<1>2. SearchInv /\ Typed /\ [Next]_vars => (SearchInv /\ Typed)'
  BY StepRight, StepTyped
<1>3. SearchInv /\ Typed => TypeOK
  BY TypedGives
<1> QED
  BY <1>1, <1>2, <1>3, PTL DEF Spec

-----------------------------------------------------------------------------
(* The threshold of a segment                                               *)

LEMMA ValueOrder ==
  ASSUME NEW v \in Nat, NEW x \in Nat, NEW y \in Nat
  PROVE  /\ ValueBefore(v, x) /\ ValueBefore(x, y) => ValueBefore(v, y)
         /\ ValueBefore(v, y) /\ ~ValueBefore(x, y) => ValueBefore(v, x)
BY DEF ValueBefore, Null

\* Ordinals of a segment are in the order of the values.
LEMMA OrdIs ==
  ASSUME Given, Placed, seg \in DOMAIN Layout[tick], NEW d \in 1..SegDocMax, NEW e \in 1..SegDocMax
  PROVE  HasCache /\ Ord(d) < Ord(e) <=> ValueBefore(The(d).value, The(e).value)
<1> DEFINE V == {The(f).value : f \in 1..SegDocMax}
           Below(f) == {v \in V : ValueBefore(v, The(f).value)}
<1>1. /\ Start \in Nat /\ SegStart \in Nat /\ SegDocMax \in Nat /\ Sizes[tick] \in Nat
      /\ SegStart + SegDocMax <= Sizes[tick] /\ Start + Sizes[tick] <= DocMax /\ DocMax \in Nat
  BY SegmentWithin
<1>2. \A f \in 1..SegDocMax : The(f).value \in Nat
  <2> SUFFICES ASSUME NEW f \in 1..SegDocMax PROVE The(f).value \in Nat
    OBVIOUS
  <2>1. Start + SegStart + f \in 1..DocMax
    BY <1>1
  <2> QED
    BY <2>1, GivenIs DEF The
<1>3. /\ V \in SUBSET Nat /\ IsFiniteSet(V) /\ The(d).value \in V /\ The(e).value \in V
  <2> DEFINE value == [f \in 1..SegDocMax |-> The(f).value]
  <2>1. value \in Surjection(1..SegDocMax, V)
    BY DEF Surjection
  <2>2. IsFiniteSet(1..SegDocMax)
    BY <1>1, FS_Interval
  <2>3. IsFiniteSet(V)
    BY <2>1, <2>2, FS_Surjection
  <2> QED
    BY <1>2, <2>3
<1>4. Ord(d) = Cardinality(Below(d)) /\ Ord(e) = Cardinality(Below(e))
  BY DEF Ord
<1>5. Below(d) \in SUBSET V /\ Below(e) \in SUBSET V
  OBVIOUS
<1>6. /\ IsFiniteSet(Below(d)) /\ IsFiniteSet(Below(e))
      /\ Cardinality(Below(d)) \in Nat /\ Cardinality(Below(e)) \in Nat
  BY <1>3, <1>5, FS_Subset, FS_CardinalityType
<1>7. CASE ValueBefore(The(d).value, The(e).value)
  <2>1. HasCache
    BY <1>7 DEF ValueBefore, HasCache
  <2>2. Below(d) \subseteq Below(e)
    <3>1. \A v \in V : ValueBefore(v, The(d).value) => ValueBefore(v, The(e).value)
      BY <1>3, <1>7, ValueOrder
    <3> QED
      BY <3>1
  <2>3. The(d).value \in Below(e) /\ The(d).value \notin Below(d)
    BY <1>3, <1>7 DEF ValueBefore, Null
  <2> HIDE DEF Below
  <2>4. Below(d) # Below(e)
    BY <2>3
  <2>5. Cardinality(Below(d)) < Cardinality(Below(e))
    BY <1>6, <2>2, <2>4, FS_Subset
  <2> QED
    BY <1>4, <1>7, <2>1, <2>5
<1>8. CASE ~ValueBefore(The(d).value, The(e).value)
  <2>1. Below(e) \subseteq Below(d)
    <3>1. \A v \in V : ValueBefore(v, The(e).value) => ValueBefore(v, The(d).value)
      BY <1>3, <1>8, ValueOrder
    <3> QED
      BY <3>1
  <2> HIDE DEF Below
  <2>2. Cardinality(Below(e)) <= Cardinality(Below(d))
    BY <1>6, <2>1, FS_Subset
  <2> QED
    BY <1>4, <1>6, <1>8, <2>2
<1> QED
  BY <1>7, <1>8

\* SI_competitive's comparison of a document with the threshold is HitQ_less_than's.
LEMMA WinsIs ==
  ASSUME Given, Placed, seg \in DOMAIN Layout[tick], NEW d \in 1..SegDocMax,
         coll.bubbleDoc \in 1..SegDocMax, NEW rule \in SortRule, rule.key # "score",
         NEW m \in Hits, m.doc = d + SegStart, m.value = The(d).value,
         NEW t \in Hits, t.doc = coll.bubbleDoc + SegStart, t.value = The(coll.bubbleDoc).value
  PROVE  /\ Wins(rule, d) <=> Prefers(rule, m, t)
         /\ Loses(rule, d) <=> Prefers(rule, t, m)
<1> DEFINE b == coll.bubbleDoc
<1>1. SegStart \in Nat /\ SegDocMax \in Nat /\ b \in Nat /\ d \in Nat
  BY SegmentWithin
<1>2. \A x, y : /\ Beats(rule, d, b, x, y) <=> Ahead(rule, m, t)
                /\ Beats(rule, b, d, y, x) <=> Ahead(rule, t, m)
  <2>1. CASE rule.key = "doc"
    BY <1>1, <2>1 DEF Beats, Ahead
  <2>2. CASE rule.key = "field"
    <3>1. /\ HasCache /\ Ord(d) < Ord(b) <=> ValueBefore(m.value, t.value)
          /\ HasCache /\ Ord(b) < Ord(d) <=> ValueBefore(t.value, m.value)
      BY OrdIs
    <3> QED
      BY <2>2, <3>1 DEF Beats, Ahead
  <2> QED
    BY <2>1, <2>2 DEF SortRule
<1> QED
  BY <1>2 DEF Wins, Loses, Prefers

\* What SI_competitive turns away is not better than the threshold.
LEMMA TurnedAwayIs ==
  ASSUME Given, Placed, seg \in DOMAIN Layout[tick], NEW d \in 1..SegDocMax,
         ~NeedScore, ~coll.auto, ~Competitive(d),
         coll.bubbleDoc \in 1..SegDocMax, coll.bubbleDoc < d,
         NEW m \in Hits, m.doc = d + SegStart, m.value = The(d).value,
         NEW t \in Hits, t.doc = coll.bubbleDoc + SegStart, t.value = The(coll.bubbleDoc).value
  PROVE  ~LessThan(search.rules, t, m)
<1> DEFINE rules == search.rules
           N == Len(rules)
<1>1. /\ rules \in Seq(SortRule) /\ N \in Nat /\ DOMAIN rules = 1..N
      /\ \A i \in 1..N : rules[i] \in SortRule /\ rules[i].key # "score"
  BY GivenIs DEF NeedScore
<1>2. \A i \in 1..N : /\ Wins(rules[i], d) <=> Prefers(rules[i], m, t)
                      /\ Loses(rules[i], d) <=> Prefers(rules[i], t, m)
  BY <1>1, WinsIs
<1>3. SUFFICES ASSUME NEW i \in 1..N, Prefers(rules[i], m, t),
                      \A j \in 1..(i - 1) : ~Prefers(rules[j], t, m) /\ ~Prefers(rules[j], m, t)
               PROVE  FALSE
  BY <1>1 DEF LessThan
<1>4. i \in DOMAIN Actions /\ \A j \in 1..i : Actions[j] = rules[j]
  <2>1. CASE Len(rules) > 1 /\ Last(rules) = [key |-> "doc", reverse |-> FALSE]
    <3>1. Actions = SubSeq(rules, 1, N - 1) /\ Last(rules) = rules[N]
      BY <2>1 DEF Actions, Front, Last
    <3>2. DOMAIN Actions = 1..(N - 1) /\ \A j \in 1..(N - 1) : Actions[j] = rules[j]
      BY <1>1, <2>1, <3>1
    <3>3. i # N
      <4>1. ASSUME i = N PROVE FALSE
        <5>1. rules[i].key = "doc" /\ rules[i].reverse = FALSE
          BY <2>1, <3>1, <4>1
        <5>2. m.doc < t.doc
          BY <1>3, <5>1 DEF Prefers, Ahead
        <5>3. SegStart \in Nat /\ SegDocMax \in Nat
          BY SegmentWithin
        <5> QED
          BY <5>2, <5>3
      <4> QED
        BY <4>1
    <3>4. i \in 1..(N - 1) /\ \A j \in 1..i : j \in 1..(N - 1)
      BY <1>1, <3>3
    <3> QED
      BY <3>2, <3>4
  <2>2. CASE ~ (Len(rules) > 1 /\ Last(rules) = [key |-> "doc", reverse |-> FALSE])
    <3>1. Actions = rules
      BY <2>2 DEF Actions
    <3> QED
      BY <1>1, <3>1
  <2> QED
    BY <2>1, <2>2
<1>5. /\ Wins(Actions[i], d)
      /\ \A j \in 1..(i - 1) : ~Wins(Actions[j], d) /\ ~Loses(Actions[j], d)
  <2>1. i \in 1..i /\ \A j \in 1..(i - 1) : j \in 1..i /\ j \in 1..N
    BY <1>1
  <2> QED
    BY <1>2, <1>3, <1>4, <2>1
<1>6. WinningAction(d) \in DOMAIN Actions
  <2> DEFINE decides(k) == /\ Wins(Actions[k], d)
                           /\ \A j \in 1..(k - 1) : ~Wins(Actions[j], d) /\ ~Loses(Actions[j], d)
  <2>1. \E k \in DOMAIN Actions : decides(k)
    BY <1>4, <1>5
  <2>2. WinningAction(d) = CHOOSE k \in DOMAIN Actions : decides(k)
    BY <2>1 DEF WinningAction
  <2> HIDE DEF decides
  <2> QED
    BY <2>1, <2>2
<1>7. 0 \notin DOMAIN Actions
  <2>1. CASE Len(rules) > 1 /\ Last(rules) = [key |-> "doc", reverse |-> FALSE]
    <3>1. Actions = SubSeq(rules, 1, N - 1)
      BY <2>1 DEF Actions, Front
    <3> QED
      BY <1>1, <2>1, <3>1
  <2>2. CASE ~ (Len(rules) > 1 /\ Last(rules) = [key |-> "doc", reverse |-> FALSE])
    <3>1. Actions = rules
      BY <2>2 DEF Actions
    <3> QED
      BY <1>1, <3>1
  <2> QED
    BY <2>1, <2>2
<1> QED
  BY <1>6, <1>7 DEF Competitive

-----------------------------------------------------------------------------
(* The queue of a SortCollector                                             *)

\* No Searchable has more documents than hits are wanted, or none is wanted:
\* then no MatchDoc is displaced in a SortCollector.
ScoresKept ==
    NeedScore => search.wanted = 0 \/ \A t \in DOMAIN Layout : Sizes[t] <= search.wanted

TrueHits(G) == {TrueHit(g) : g \in G}
Kept == AllRaised(Range(coll.queue), Start)

\* The threshold is a hit that was turned away.
ThresholdRight ==
    /\ ~NeedScore /\ Len(coll.queue) = search.wanted
    /\ coll.bubbleDoc \in 1..SegDocMax
    /\ Start + SegStart + coll.bubbleDoc \in GoneBy
    /\ TrueHit(Start + SegStart + coll.bubbleDoc) \notin Kept

QueueInv ==
    /\ Distinct(coll.queue)
    /\ Best(search.rules, search.wanted, Kept, TrueHits(GoneBy))
    /\ NeedScore => coll.auto /\ coll.bumped = NegInf
    /\ pc \in InLoop /\ ~coll.auto => ThresholdRight

LEMMA TrueHitIs ==
  ASSUME Given, NEW g \in 1..DocMax
  PROVE  /\ TrueHit(g) \in Hits /\ TrueHit(g) \in ValuedHits /\ TrueHit(g).doc = g
         /\ TrueHit(g).score = (IF NeedScore THEN docs[g].score ELSE NegInf)
         /\ TrueHit(g).value = docs[g].value
<1>1. docs[g].score \in Nat /\ docs[g].value \in Nat /\ DocMax \in Nat
  BY GivenIs, Offsets
<1> QED
  BY <1>1 DEF TrueHit, Hits, ValuedHits, NegInf

LEMMA TrueHitsAre ==
  ASSUME Given, NEW G \in SUBSET (1..DocMax)
  PROVE  /\ TrueHits(G) \in SUBSET Hits /\ TrueHits(G) \in SUBSET ValuedHits
         /\ IsFiniteSet(TrueHits(G)) /\ Cardinality(TrueHits(G)) \in Nat
         /\ Cardinality(TrueHits(G)) <= Cardinality(G)
         /\ \A g \in 1..DocMax : TrueHit(g) \in TrueHits(G) <=> g \in G
<1>1. TrueHits(G) \in SUBSET Hits /\ TrueHits(G) \in SUBSET ValuedHits
  BY TrueHitIs DEF TrueHits
<1>2. IsFiniteSet(G)
  <2>1. DocMax \in Int /\ 1 \in Int
    BY Offsets
  <2>2. IsFiniteSet(1..DocMax)
    BY <2>1, FS_Interval
  <2> QED
    BY <2>2, FS_Subset
<1>3. IsFiniteSet(TrueHits(G)) /\ Cardinality(TrueHits(G)) <= Cardinality(G)
  <2> DEFINE hit == [g \in G |-> TrueHit(g)]
  <2>1. hit \in Surjection(G, TrueHits(G))
    BY DEF Surjection, TrueHits
  <2> QED
    BY <1>2, <2>1, FS_Surjection
<1>4. \A g \in 1..DocMax : TrueHit(g) \in TrueHits(G) <=> g \in G
  BY TrueHitIs DEF TrueHits
<1> QED
  BY <1>1, <1>3, <1>4, FS_CardinalityType

\* What is kept, as a list and as a set.
LEMMA KeptIs ==
  ASSUME Given, NEW list \in Seq(Hits), Distinct(list), NEW n \in Nat
  PROVE  /\ AllRaised(Range(list), n) \in SUBSET Hits
         /\ Cardinality(AllRaised(Range(list), n)) = Len(list)
         /\ \A m \in Hits : Raised(m, n) \in AllRaised(Range(list), n) <=> m \in Range(list)
<1> DEFINE lifted == [i \in DOMAIN list |-> Raised(list[i], n)]
<1>1. /\ lifted \in Seq(Hits) /\ Len(lifted) = Len(list) /\ Distinct(lifted)
      /\ Range(lifted) = AllRaised(Range(list), n)
  BY LiftedIs
<1>2. Cardinality(AllRaised(Range(list), n)) = Len(list) /\ AllRaised(Range(list), n) \in SUBSET Hits
  <2> HIDE DEF lifted
  <2> QED
    BY <1>1, RangeIs
<1>3. \A m \in Hits : Raised(m, n) \in AllRaised(Range(list), n) <=> m \in Range(list)
  <2>1. <<>> \in Seq(SortRule) /\ Range(list) \in SUBSET Hits
    BY RangeIs
  <2> QED
    BY <2>1, RaisedOrder DEF AllRaised
<1> QED
  BY <1>2, <1>3

LEMMA SameHits ==
  ASSUME UNCHANGED <<docs, search>>
  PROVE  /\ \A g : TrueHit(g)' = TrueHit(g)
         /\ NeedScore' = NeedScore /\ ScoresKept' = ScoresKept
         /\ \A G : TrueHits(G)' = TrueHits(G)
<1>1. NeedScore' = NeedScore
  BY DEF NeedScore
<1>2. \A g : TrueHit(g)' = TrueHit(g)
  BY <1>1 DEF TrueHit
<1> QED
  BY <1>1, <1>2 DEF ScoresKept, TrueHits

\* Steps that go by no hit, and do not touch the collector.
LEMMA QueueStays ==
  ASSUME SearchInv, QueueInv,
         \/ SkipSegment \/ Exhausted \/ CatchUp \/ SkipDeleted \/ AdvancePast \/ NextMatch
  PROVE  QueueInv'
<1>1. /\ UNCHANGED <<docs, search, tick, coll>>
  BY DEF SkipSegment, Exhausted, CatchUp, SkipDeleted, AdvancePast, NextMatch, input
<1>2. GoneBy' = GoneBy
  BY OthersGoByNone
<1>3. /\ \A g : TrueHit(g)' = TrueHit(g)
      /\ NeedScore' = NeedScore /\ Start' = Start /\ Kept' = Kept
  BY <1>1, SameHits DEF Start, Kept
<1>4. TrueHits(GoneBy)' = TrueHits(GoneBy)
  BY <1>2, <1>3 DEF TrueHits
<1>5. /\ Distinct(coll.queue)' /\ Best(search.rules, search.wanted, Kept, TrueHits(GoneBy))'
      /\ (NeedScore => coll.auto /\ coll.bumped = NegInf)'
  BY <1>1, <1>3, <1>4 DEF QueueInv, Best
<1>6. ASSUME pc' \in InLoop, ~coll'.auto
      PROVE  ThresholdRight'
  <2>1. pc \in InLoop /\ UNCHANGED seg
    BY <1>6 DEF SkipSegment, Exhausted, CatchUp, SkipDeleted, AdvancePast, NextMatch, InLoop, Matcher
  <2>2. SegStart' = SegStart /\ SegDocMax' = SegDocMax
    BY <1>1, <2>1 DEF SegStart, SegDocMax
  <2>3. ThresholdRight
    BY <1>1, <1>6, <2>1 DEF QueueInv
  <2> QED
    BY <1>1, <1>2, <1>3, <2>2, <2>3 DEF ThresholdRight
<1> QED
  BY <1>5, <1>6 DEF QueueInv

LEMMA QueueEntered ==
  ASSUME SearchInv, Typed, QueueInv, EnterSegment
  PROVE  QueueInv'
<1>1. UNCHANGED <<docs, search, tick>> /\ coll' = SetReader(coll)
  BY DEF EnterSegment, input
<1>2. coll'.queue = coll.queue /\ coll'.auto = TRUE /\ coll'.bumped = NegInf
  <2>1. coll \in Collectors
    BY DEF Typed
  <2> QED
    BY <1>1, <2>1 DEF SetReader, Collectors
<1>3. GoneBy' = GoneBy
  BY OthersGoByNone
<1>4. /\ \A g : TrueHit(g)' = TrueHit(g)
      /\ NeedScore' = NeedScore /\ Start' = Start /\ Kept' = Kept
  BY <1>1, <1>2, SameHits DEF Start, Kept
<1>5. TrueHits(GoneBy)' = TrueHits(GoneBy)
  BY <1>3, <1>4 DEF TrueHits
<1> QED
  BY <1>1, <1>2, <1>4, <1>5 DEF QueueInv, Best

\* What is known when a hit is collected.
HitSetting(m, t, q, w) ==
    /\ Given /\ coll \in Collectors /\ q \in Seq(Hits) /\ IsQueue(search.rules, q) /\ Distinct(q)
    /\ search.rules \in Seq(SortRule) /\ w \in Nat /\ Len(q) <= w /\ Start \in Nat
    /\ m \in Hits /\ t \in Hits /\ t \notin TrueHits(GoneBy)
    /\ TrueHits(GoneBy) \in SUBSET Hits /\ IsFiniteSet(TrueHits(GoneBy))
    /\ Cardinality(TrueHits(GoneBy)) \in Nat
    /\ Cardinality(Kept) = Len(q) /\ Kept \subseteq TrueHits(GoneBy)
    /\ Best(search.rules, w, Kept, TrueHits(GoneBy))
    /\ NeedScore => w = 0 \/ Cardinality(TrueHits(GoneBy)) < w
    /\ Competitive(doc) => t = Raised(m, Start)
    /\ NeedScore => coll.auto /\ coll.bumped = NegInf
    /\ ~coll.auto => ThresholdRight

LEMMA HitSettingIs ==
  ASSUME SearchInv, Typed, QueueInv, ScoresKept, Hit
  PROVE  HitSetting(MatchDoc(doc), TrueHit(Start + SegStart + doc), coll.queue, search.wanted)
<1> DEFINE g == Start + SegStart + doc
           t == TrueHit(g)
           m == MatchDoc(doc)
<1>1. /\ Placed /\ LoopRight /\ Collecting /\ pc \in InLoop /\ seg \in DOMAIN Layout[tick]
      /\ tick \in DOMAIN Layout /\ Given /\ coll \in Collectors
      /\ IsQueue(search.rules, coll.queue) /\ Len(coll.queue) <= search.wanted
  BY DEF SearchInv, Hit, Placed, InLoop, Typed, Collecting
<1>2. search.rules \in Seq(SortRule) /\ search.wanted \in Nat /\ coll.queue \in Seq(Hits)
  BY <1>1, GivenIs DEF IsQueue
<1>3. /\ GoneBy \in SUBSET (1..DocMax) /\ Start \in Nat /\ SegStart \in Nat /\ Sizes[tick] \in Nat
      /\ Cardinality(GoneBy) \in Nat
  BY <1>1, GoneByIs
<1>4. /\ doc \in 1..SegDocMax /\ g \in 1..DocMax /\ g \notin GoneBy
  BY HitGoesBy
<1>5. /\ TrueHits(GoneBy) \in SUBSET Hits /\ IsFiniteSet(TrueHits(GoneBy))
      /\ Cardinality(TrueHits(GoneBy)) \in Nat
      /\ Cardinality(TrueHits(GoneBy)) <= Cardinality(GoneBy)
      /\ t \notin TrueHits(GoneBy)
  BY <1>1, <1>3, <1>4, TrueHitsAre
<1>6. /\ t \in Hits /\ t.doc = g /\ t.score = (IF NeedScore THEN docs[g].score ELSE NegInf)
      /\ t.value = docs[g].value
  BY <1>1, <1>4, TrueHitIs
<1>7. m \in Hits /\ m.doc = doc + SegStart
  BY MatchDocIs
<1>8. Cardinality(Kept) = Len(coll.queue) /\ Kept \subseteq TrueHits(GoneBy)
  BY <1>1, <1>2, <1>3, KeptIs DEF Kept, QueueInv, Best
<1>9. NeedScore => search.wanted = 0 \/ Cardinality(TrueHits(GoneBy)) < search.wanted
  <2>1. Cardinality(GoneBy) + 1 <= Sizes[tick]
    BY HitCounts
  <2> QED
    BY <1>1, <1>2, <1>3, <1>5, <2>1 DEF ScoresKept
<1>10. ASSUME Competitive(doc)
       PROVE  t = Raised(m, Start)
  <2>1. ScoreFor(doc) = IF NeedScore THEN docs[g].score ELSE NegInf
    BY DEF ScoreFor, The, QueueInv
  <2>2. /\ m.score = (IF NeedScore THEN docs[g].score ELSE NegInf)
        /\ m.value = docs[g].value
    BY <2>1 DEF MatchDoc, The
  <2>3. t = [doc |-> g, score |-> t.score, value |-> t.value]
    BY <1>6 DEF TrueHit
  <2>4. Raised(m, Start) = [doc |-> m.doc + Start, score |-> m.score, value |-> m.value]
    BY <1>3, <1>7, RaisedIs
  <2>5. m.doc + Start = g
    BY <1>3, <1>4, <1>7
  <2> QED
    BY <1>6, <2>2, <2>3, <2>4, <2>5
<1> HIDE DEF g, t, m
<1>11. /\ Distinct(coll.queue) /\ Best(search.rules, search.wanted, Kept, TrueHits(GoneBy))
       /\ NeedScore => coll.auto /\ coll.bumped = NegInf
       /\ ~coll.auto => ThresholdRight
  BY <1>1 DEF QueueInv
<1>12. HitSetting(m, t, coll.queue, search.wanted)
  BY <1>1, <1>2, <1>3, <1>5, <1>6, <1>7, <1>8, <1>9, <1>10, <1>11 DEF HitSetting
<1> QED
  BY <1>12 DEF m, t, g

\* The least of the queue is the least of what is kept.
LEMMA LeastKept ==
  ASSUME NEW m, NEW t, NEW q, NEW w, HitSetting(m, t, q, w), q = coll.queue, q # <<>>
  PROVE  /\ Raised(q[1], Start) \in Kept /\ q[1] \in Hits
         /\ \A k \in Kept : ~LessThan(search.rules, k, Raised(q[1], Start))
<1> DEFINE rules == search.rules
           n == Len(q)
<1>1. /\ q \in Seq(Hits) /\ n \in Nat /\ n # 0 /\ IsQueue(rules, q) /\ rules \in Seq(SortRule) /\ Start \in Nat
  BY DEF HitSetting
<1>2. q \in Nodes(n) /\ DOMAIN q = 1..n /\ 1 \in 1..n /\ \A i \in 1..n : q[i] \in Hits
  BY <1>1, SeqIsNodes
<1>3. \A i \in 1..n : ~LessThan(rules, q[i], q[1])
  BY <1>1, <1>2, RootLeast DEF IsQueue
<1>4. Range(q) = {q[i] : i \in 1..n}
  BY <1>2 DEF Range
<1>5. ASSUME NEW k \in Kept PROVE ~LessThan(rules, k, Raised(q[1], Start))
  <2>1. PICK i \in 1..n : k = Raised(q[i], Start)
    BY <1>4 DEF Kept, AllRaised
  <2> QED
    BY <1>1, <1>2, <1>3, <2>1, RaisedOrder
<1>6. Raised(q[1], Start) \in Kept
  BY <1>2, <1>4 DEF Kept, AllRaised
<1> QED
  BY <1>2, <1>5, <1>6

\* A hit that SI_competitive turns away does not belong among the best.
LEMMA TurnedAway ==
  ASSUME SearchInv, Hit, NEW t, t = TrueHit(Start + SegStart + doc),
         NEW m, NEW q, NEW w, w = search.wanted,
         HitSetting(m, t, q, w), q = coll.queue, ~Competitive(doc)
  PROVE  Best(search.rules, w, Kept, TrueHits(GoneBy) \cup {t})
<1> DEFINE rules == search.rules
           H == TrueHits(GoneBy)
<1>1. /\ Given /\ rules \in Seq(SortRule) /\ w \in Nat /\ Start \in Nat /\ Len(q) <= w /\ q \in Seq(Hits)
      /\ t \in Hits /\ H \in SUBSET Hits /\ IsFiniteSet(H)
      /\ Cardinality(Kept) = Len(q) /\ Kept \subseteq H /\ Best(rules, w, Kept, H)
  BY DEF HitSetting
<1>2. Cardinality(Kept) = w /\ \A k \in Kept : ~LessThan(rules, k, t)
  <2>1. CASE coll.auto
    <3>1. w = 0 /\ Len(q) \in Nat
      BY <1>1, <2>1 DEF Competitive
    <3>2. Cardinality(Kept) = 0 /\ IsFiniteSet(Kept)
      BY <1>1, <3>1, FS_Subset
    <3>3. Kept = {}
      BY <3>2, FS_EmptySet
    <3> QED
      BY <3>1, <3>2, <3>3
  <2>2. CASE ~coll.auto
    <3> DEFINE b == coll.bubbleDoc
               x == TrueHit(Start + SegStart + b)
    <3>1. /\ ~NeedScore /\ Len(q) = w /\ b \in 1..SegDocMax
          /\ Start + SegStart + b \in GoneBy /\ x \notin Kept
      BY <2>2 DEF HitSetting, ThresholdRight
    <3>2. /\ Placed /\ LoopRight /\ Collecting /\ seg \in DOMAIN Layout[tick]
      BY DEF SearchInv, Hit, Placed, InLoop, Collecting
    <3>3. /\ GoneBy \in SUBSET (1..DocMax) /\ SegStart \in Nat /\ DocMax \in Nat
      BY <3>2, GoneByIs
    <3>4. /\ doc \in 1..SegDocMax /\ Start + SegStart + doc \in 1..DocMax
          /\ Start + SegStart + b < Start + SegStart + doc
      BY <3>1, HitGoesBy
    <3>5. SegDocMax \in Nat
      BY <3>2, SegmentWithin
    <3>6. b < doc
      BY <1>1, <3>1, <3>3, <3>4, <3>5
    <3>7. /\ x \in Hits /\ x.doc = Start + SegStart + b /\ x.value = The(b).value /\ x.score = NegInf
          /\ t.doc = Start + SegStart + doc /\ t.value = The(doc).value /\ t.score = NegInf
      BY <1>1, <3>1, <3>3, <3>4, TrueHitIs DEF The
    <3>8. x \in H
      BY <1>1, <3>1, <3>3, TrueHitsAre
    <3> DEFINE lx == [doc |-> b + SegStart, score |-> NegInf, value |-> The(b).value]
               lt == [doc |-> doc + SegStart, score |-> NegInf, value |-> The(doc).value]
    <3>9. lx \in Hits /\ lt \in Hits
      <4>1. The(b).value \in Nat /\ The(doc).value \in Nat
        BY <1>1, <3>7 DEF Hits
      <4> QED
        BY <3>1, <3>3, <3>4, <3>5, <4>1 DEF Hits, NegInf
    <3>10. x = Raised(lx, Start) /\ t = Raised(lt, Start)
      <4>1. /\ x = [doc |-> x.doc, score |-> x.score, value |-> x.value]
            /\ t = [doc |-> t.doc, score |-> t.score, value |-> t.value]
        BY <1>1, <3>7 DEF Hits
      <4>2. /\ Raised(lx, Start) = [doc |-> lx.doc + Start, score |-> lx.score, value |-> lx.value]
            /\ Raised(lt, Start) = [doc |-> lt.doc + Start, score |-> lt.score, value |-> lt.value]
        BY <1>1, <3>9, RaisedIs
      <4>3. lx.doc + Start = x.doc /\ lt.doc + Start = t.doc
        BY <1>1, <3>1, <3>3, <3>4, <3>5, <3>7
      <4>4. lx.score = x.score /\ lt.score = t.score /\ lx.value = x.value /\ lt.value = t.value
        BY <3>7
      <4> HIDE DEF lx, lt, x
      <4> QED
        BY <4>1, <4>2, <4>3, <4>4
    <3>11. /\ lx.doc = b + SegStart /\ lx.value = The(b).value
           /\ lt.doc = doc + SegStart /\ lt.value = The(doc).value
      OBVIOUS
    <3> HIDE DEF lx, lt, x, b
    <3>12. ~LessThan(rules, lx, lt)
      BY <1>1, <2>2, <3>1, <3>2, <3>4, <3>6, <3>9, <3>11, TurnedAwayIs DEF b
    <3>13. ~LessThan(rules, x, t)
      BY <1>1, <3>9, <3>10, <3>12, RaisedOrder
    <3>14. \A k \in Kept : ~LessThan(rules, k, x)
      BY <1>1, <3>1, <3>8 DEF Best
    <3>15. \A k \in Kept : LessThan(rules, k, t) => LessThan(rules, k, x) \/ LessThan(rules, x, t)
      BY <1>1, <3>7, Ranks
    <3> QED
      BY <1>1, <3>1, <3>13, <3>14, <3>15
  <2> QED
    BY <2>1, <2>2
<1>3. IsFiniteSet({t})
  BY FS_Singleton
<1> HIDE DEF rules, H
<1> QED
  BY <1>1, <1>2, <1>3, BestRefuses DEF rules, H

\* What the collector holds after a hit.
HitOutcome(t) ==
    LET new == AllRaised(Range(coll'.queue), Start)
    IN  /\ Distinct(coll'.queue)
        /\ Best(search.rules, search.wanted, new, TrueHits(GoneBy) \cup {t})
        /\ NeedScore => coll'.auto /\ coll'.bumped = NegInf
        /\ new \subseteq Kept \cup {t}
        /\ ~coll'.auto =>
              /\ ~NeedScore /\ Len(coll'.queue) = search.wanted
              /\ \/ ~coll.auto /\ coll'.bubbleDoc = coll.bubbleDoc
                 \/ coll'.bubbleDoc = doc /\ t \notin new

LEMMA HitOutcomeIs ==
  ASSUME SearchInv, Hit, NEW t, t = TrueHit(Start + SegStart + doc),
         NEW m, m = MatchDoc(doc), NEW q, q = coll.queue, NEW w, w = search.wanted,
         HitSetting(m, t, q, w)
  PROVE  HitOutcome(t)
<1> DEFINE rules == search.rules
           H == TrueHits(GoneBy)
           c == [coll EXCEPT !.hits = @ + 1]
           new == AllRaised(Range(coll'.queue), Start)
<1>1. /\ Given /\ rules \in Seq(SortRule) /\ w \in Nat /\ Start \in Nat /\ q \in Seq(Hits)
      /\ Len(q) <= w /\ Len(q) \in Nat /\ IsQueue(rules, q) /\ Distinct(q)
      /\ m \in Hits /\ t \in Hits /\ t \notin H /\ H \in SUBSET Hits /\ IsFiniteSet(H)
      /\ Cardinality(H) \in Nat
      /\ Cardinality(Kept) = Len(q) /\ Kept \subseteq H /\ Best(rules, w, Kept, H)
      /\ NeedScore => w = 0 \/ Cardinality(H) < w
      /\ NeedScore => coll.auto /\ coll.bumped = NegInf
      /\ ~coll.auto => ~NeedScore /\ Len(q) = w
  BY DEF HitSetting, ThresholdRight
<1>2. /\ c \in Collectors /\ c.queue = q /\ c.auto = coll.auto /\ c.bumped = coll.bumped
      /\ c.bubbleDoc = coll.bubbleDoc
  BY DEF HitSetting, Collectors
<1>4. Competitive(doc) => t = Raised(m, Start)
  BY DEF HitSetting
<1>5. NeedScore /\ Competitive(doc) => HasRoom(w, q)
  <2>1. ASSUME NeedScore, Competitive(doc) PROVE Len(q) < w
    <3>1. w > 0
      BY <1>1, <2>1 DEF Competitive
    <3>2. Cardinality(Kept) <= Cardinality(H)
      BY <1>1, FS_Subset
    <3> QED
      BY <1>1, <2>1, <3>1, <3>2
  <2> QED
    BY <2>1 DEF HasRoom
<1>6. m \in Range(q) <=> Raised(m, Start) \in Kept
  BY <1>1, KeptIs DEF Kept
<1>7. \/ ~Competitive(doc) /\ coll' = c
      \/ /\ Competitive(doc) /\ HasRoom(w, q)
         /\ coll' = [c EXCEPT !.queue = Put(rules, @, m), !.bumped = NegInf]
      \/ /\ Competitive(doc) /\ Displaces(rules, w, q, m)
         /\ coll' = [c EXCEPT !.queue = Replaced(rules, @, m), !.bumped = q[1].score]
      \/ /\ Competitive(doc) /\ Refuses(rules, w, q, m)
         /\ coll' = [c EXCEPT !.auto = FALSE, !.bumped = m.score, !.bubbleDoc = doc,
                             !.bubbleScore = m.score]
  BY DEF Hit, Collect
<1> HIDE DEF rules, H, c
<1>8. CASE ~Competitive(doc) /\ coll' = c
  <2>1. new = Kept
    BY <1>2, <1>8 DEF Kept
  <2>2. Best(rules, w, new, H \cup {t})
    BY <1>8, <2>1, TurnedAway DEF rules, H
  <2> QED
    BY <1>1, <1>2, <1>8, <2>1, <2>2 DEF HitOutcome, rules, H
<1>9. CASE /\ Competitive(doc) /\ HasRoom(w, q)
           /\ coll' = [c EXCEPT !.queue = Put(rules, @, m), !.bumped = NegInf]
  <2>1. /\ coll'.queue = Put(rules, q, m) /\ coll'.bumped = NegInf /\ coll'.auto = coll.auto
    BY <1>2, <1>9 DEF Collectors
  <2>2. m \notin Range(q)
    BY <1>1, <1>4, <1>6, <1>9
  <2>3. Range(coll'.queue) = Range(q) \cup {m} /\ Distinct(coll'.queue)
    BY <1>1, <2>1, <2>2, PutIs
  <2>4. new = Kept \cup {t}
    BY <1>4, <1>9, <2>3 DEF Kept, AllRaised
  <2>5. Cardinality(Kept) < w
    BY <1>1, <1>9 DEF HasRoom
  <2>6. Best(rules, w, new, H \cup {t})
    BY <1>1, <2>4, <2>5, BestAdds
  <2>7. coll.auto
    BY <1>1, <1>9 DEF HasRoom
  <2> QED
    BY <2>1, <2>3, <2>4, <2>6, <2>7 DEF HitOutcome, rules, H
<1>10. CASE /\ Competitive(doc) /\ Displaces(rules, w, q, m)
            /\ coll' = [c EXCEPT !.queue = Replaced(rules, @, m), !.bumped = q[1].score]
  <2>1. q # <<>> /\ Len(q) = w /\ ~LessThan(rules, m, q[1])
    BY <1>1, <1>10 DEF Displaces, HasRoom
  <2>2. /\ coll'.queue = Replaced(rules, q, m) /\ coll'.auto = coll.auto
        /\ coll'.bubbleDoc = coll.bubbleDoc
    BY <1>2, <1>10 DEF Collectors
  <2>3. m \notin Range(q)
    BY <1>1, <1>4, <1>6, <1>10
  <2>4. /\ Range(coll'.queue) = (Range(q) \ {q[1]}) \cup {m} /\ Distinct(coll'.queue)
        /\ Len(coll'.queue) = w
    <3>0. /\ rules \in Seq(SortRule) /\ IsQueue(rules, q) /\ q # <<>> /\ m \in Hits
          /\ Distinct(q) /\ m \notin Range(q)
      BY <1>1, <2>1, <2>3
    <3> DEFINE heap == Replaced(rules, q, m)
    <3>1. /\ Len(heap) = Len(q)
          /\ Distinct(q) => Range(heap) = (Range(q) \ {q[1]}) \cup {m}
          /\ Distinct(q) /\ m \notin Range(q) => Distinct(heap)
      BY <3>0, ReplacedIs
    <3> HIDE DEF heap
    <3>2. coll'.queue = heap
      BY <2>2 DEF heap
    <3> QED
      BY <2>1, <3>0, <3>1, <3>2
  <2>5. /\ Raised(q[1], Start) \in Kept /\ q[1] \in Hits
        /\ \A k \in Kept : ~LessThan(rules, k, Raised(q[1], Start))
    BY <2>1, LeastKept DEF rules
  <2>6. new = (Kept \ {Raised(q[1], Start)}) \cup {t}
    <3>1. \A x \in Range(q) : x \in Hits
      BY <1>1, RangeIs
    <3>2. \A x \in Range(q) : Raised(x, Start) = Raised(q[1], Start) => x = q[1]
      BY <1>1, <2>5, <3>1, RaisedOrder
    <3> QED
      BY <1>4, <1>10, <2>4, <3>2 DEF Kept, AllRaised
  <2>7. ~LessThan(rules, t, Raised(q[1], Start))
    BY <1>1, <1>4, <1>10, <2>1, <2>5, RaisedOrder
  <2>8. Best(rules, w, new, H \cup {t})
    BY <1>1, <2>1, <2>5, <2>6, <2>7, BestDisplaces
  <2>9. ~NeedScore
    BY <1>5, <1>10 DEF Displaces
  <2> QED
    BY <2>2, <2>4, <2>6, <2>8, <2>9 DEF HitOutcome, rules, H
<1>11. CASE /\ Competitive(doc) /\ Refuses(rules, w, q, m)
            /\ coll' = [c EXCEPT !.auto = FALSE, !.bumped = m.score, !.bubbleDoc = doc,
                                !.bubbleScore = m.score]
  <2>1. ~HasRoom(w, q) /\ Len(q) = w /\ (q = <<>> \/ LessThan(rules, m, q[1]))
    BY <1>1, <1>11 DEF Refuses, HasRoom
  <2>2. coll'.queue = q /\ coll'.bubbleDoc = doc
    BY <1>2, <1>11 DEF Collectors
  <2>3. new = Kept
    BY <2>2 DEF Kept
  <2>4. ~NeedScore
    BY <1>5, <1>11, <2>1
  <2>5. \A k \in Kept : ~LessThan(rules, k, t)
    <3>1. CASE q = <<>>
      BY <3>1, EmptyQueue DEF Kept, AllRaised
    <3>2. CASE q # <<>>
      <4> DEFINE least == Raised(q[1], Start)
      <4>1. /\ least \in Kept /\ q[1] \in Hits /\ \A k \in Kept : ~LessThan(rules, k, least)
        BY <3>2, LeastKept DEF rules
      <4>2. LessThan(rules, t, least)
        BY <1>1, <1>4, <1>11, <2>1, <3>2, <4>1, RaisedOrder
      <4>3. \A k \in Kept : LessThan(rules, k, t) => LessThan(rules, k, least) \/ LessThan(rules, least, t)
        BY <1>1, <4>1, Ranks
      <4>4. ~LessThan(rules, least, t)
        BY <1>1, <4>1, <4>2, Ranks
      <4> HIDE DEF least
      <4> QED
        BY <4>1, <4>3, <4>4
    <3> QED
      BY <3>1, <3>2
  <2>6. IsFiniteSet({t})
    BY FS_Singleton
  <2>7. Best(rules, w, new, H \cup {t})
    BY <1>1, <2>1, <2>3, <2>5, <2>6, BestRefuses
  <2> QED
    BY <1>1, <2>1, <2>2, <2>3, <2>4, <2>7 DEF HitOutcome, rules, H
<1> QED
  BY <1>7, <1>8, <1>9, <1>10, <1>11

LEMMA HitQueued ==
  ASSUME SearchInv, Typed, QueueInv, ScoresKept, Hit
  PROVE  QueueInv'
<1> DEFINE g == Start + SegStart + doc
           t == TrueHit(g)
           new == AllRaised(Range(coll'.queue), Start)
<1>1. HitSetting(MatchDoc(doc), t, coll.queue, search.wanted)
  BY HitSettingIs
<1>2. HitOutcome(t)
  BY <1>1, HitOutcomeIs
<1>3. /\ UNCHANGED <<docs, search, tick, seg>>
      /\ Placed /\ LoopRight /\ Collecting /\ seg \in DOMAIN Layout[tick] /\ pc \in InLoop
  BY DEF Hit, input, SearchInv, Placed, InLoop, Collecting
<1>4. /\ doc \in 1..SegDocMax /\ g \in 1..DocMax /\ g \notin GoneBy /\ GoneBy' = GoneBy \cup {g}
  BY HitGoesBy
<1>5. /\ \A h : TrueHit(h)' = TrueHit(h)
      /\ NeedScore' = NeedScore /\ Start' = Start /\ SegStart' = SegStart /\ SegDocMax' = SegDocMax
      /\ \A G : TrueHits(G)' = TrueHits(G)
  BY <1>3, SameHits, SameSegment
<1>6. TrueHits(GoneBy)' = TrueHits(GoneBy) \cup {t}
  BY <1>4, <1>5 DEF TrueHits
<1>7. Kept' = new
  BY <1>5 DEF Kept
<1>8. ASSUME ~coll'.auto
      PROVE  ThresholdRight'
  <2>1. ~NeedScore /\ Len(coll'.queue) = search.wanted /\ new \subseteq Kept \cup {t}
    BY <1>2, <1>8 DEF HitOutcome
  <2>2. CASE ~coll.auto /\ coll'.bubbleDoc = coll.bubbleDoc
    <3> DEFINE x == Start + SegStart + coll.bubbleDoc
    <3>1. coll.bubbleDoc \in 1..SegDocMax /\ x \in GoneBy /\ TrueHit(x) \notin Kept
      BY <1>3, <2>2 DEF QueueInv, ThresholdRight
    <3>2. TrueHit(x) # t
      <4>1. x \in 1..DocMax /\ Given
        BY <1>3, <3>1, GoneByIs DEF Typed
      <4> HIDE DEF x, g
      <4>2. TrueHit(x).doc = x /\ TrueHit(g).doc = g
        BY <1>4, <4>1, TrueHitIs
      <4> QED
        BY <1>4, <3>1, <4>2
    <3>3. TrueHit(x) \notin new
      BY <2>1, <3>1, <3>2
    <3> HIDE DEF new, t
    <3> QED
      BY <1>3, <1>4, <1>5, <1>7, <2>1, <2>2, <3>1, <3>3 DEF ThresholdRight
  <2>3. CASE coll'.bubbleDoc = doc /\ t \notin new
    <3> HIDE DEF new
    <3> QED
      BY <1>3, <1>4, <1>5, <1>7, <2>1, <2>3 DEF ThresholdRight
  <2> QED
    BY <1>2, <1>8, <2>2, <2>3 DEF HitOutcome
<1>9. /\ Distinct(coll'.queue) /\ (NeedScore => coll'.auto /\ coll'.bumped = NegInf)
      /\ Best(search.rules, search.wanted, new, TrueHits(GoneBy) \cup {t})
  BY <1>2 DEF HitOutcome
<1> HIDE DEF new, t
<1> QED
  BY <1>3, <1>5, <1>6, <1>7, <1>8, <1>9 DEF QueueInv, Best

LEMMA NoneKept ==
  ASSUME NEW rules, NEW w \in Nat, NEW n
  PROVE  AllRaised(Range(<<>>), n) = {} /\ Best(rules, w, {}, {})
<1>1. AllRaised(Range(<<>>), n) = {}
  BY EmptyQueue DEF AllRaised
<1>2. Cardinality({}) = 0
  BY FS_EmptySet
<1> QED
  BY <1>1, <1>2 DEF Best

\* Whenever a SortCollector is at work.
CollectsRight == ScoresKept /\ Collecting => QueueInv

LEMMA InitCollects == Init => CollectsRight
<1> SUFFICES ASSUME Init PROVE QueueInv
  BY DEF CollectsRight
<1>1. pc = "segment" /\ coll = NewCollector /\ Given /\ tick = 1 /\ seg = 1
  BY DEF Init, Given
<1>2. search.wanted \in Nat
  BY <1>1, GivenIs
<1>3. GoneBy = {}
  <2>1. 1 \in DOMAIN Layout
    BY SearchAssumption
  <2>2. Start = 0 /\ SegStart = 0 /\ Reached = 0
    BY <1>1, <2>1, Offsets, SegOffsets DEF Start, SegStart, Reached
  <2> QED
    BY <2>2 DEF GoneBy
<1>4. Kept = {} /\ TrueHits(GoneBy) = {}
  BY <1>1, <1>2, <1>3, NoneKept, NewCollectorIs DEF Kept, TrueHits
<1> QED
  BY <1>1, <1>2, <1>4, NoneKept, NewCollectorIs, EmptyQueue DEF QueueInv

LEMMA MergedCollects ==
  ASSUME SearchInv, Typed, Merged
  PROVE  CollectsRight'
<1>1. UNCHANGED <<docs, search>> /\ coll' = NewCollector /\ search.wanted \in Nat
  BY GivenIs DEF Merged, input, Typed
<1>2. CASE tick < Len(Layout)
  <2>1. GoneBy' = {}
    BY <1>2, NextSearchable
  <2>2. Kept' = {} /\ TrueHits(GoneBy)' = {}
    BY <1>1, <2>1, NoneKept, NewCollectorIs DEF Kept, TrueHits
  <2> QED
    BY <1>1, <2>2, NoneKept, NewCollectorIs, EmptyQueue DEF CollectsRight, QueueInv, Best
<1>3. CASE ~ (tick < Len(Layout))
  <2>1. ~Collecting'
    BY <1>3 DEF Merged, Collecting
  <2> QED
    BY <2>1 DEF CollectsRight
<1> QED
  BY <1>2, <1>3

LEMMA StepCollects == SearchInv /\ Typed /\ CollectsRight /\ [Next]_vars => CollectsRight'
<1> SUFFICES ASSUME SearchInv, Typed, CollectsRight, [Next]_vars, ScoresKept', Collecting'
             PROVE  QueueInv'
  BY DEF CollectsRight
<1>1. ScoresKept
  <2>1. UNCHANGED <<docs, search>>
    BY DEF Next, vars, input, EnterSegment, SkipSegment, CatchUp, SkipDeleted, AdvancePast, NextMatch,
           Hit, Exhausted, TopDocs, Merge, Merged
  <2> QED
    BY <2>1, SameHits
<1>2. CASE EnterSegment
  <2>1. Collecting
    BY <1>2 DEF EnterSegment, Matcher, Collecting
  <2> QED
    BY <1>1, <1>2, <2>1, QueueEntered DEF CollectsRight
<1>3. CASE \/ SkipSegment \/ Exhausted \/ CatchUp \/ SkipDeleted \/ AdvancePast \/ NextMatch
  <2>1. Collecting
    BY <1>3 DEF SkipSegment, Exhausted, CatchUp, SkipDeleted, AdvancePast, NextMatch, Matcher, Collecting
  <2> QED
    BY <1>1, <1>3, <2>1, QueueStays DEF CollectsRight
<1>4. CASE Hit
  <2>1. Collecting
    BY <1>4 DEF Hit, Collecting
  <2> QED
    BY <1>1, <1>4, <2>1, HitQueued DEF CollectsRight
<1>5. CASE TopDocs \/ Merge
  <2>1. ~Collecting'
    BY <1>5 DEF TopDocs, Merge, Collecting
  <2> QED
    BY <2>1
<1>6. CASE Merged
  BY <1>6, MergedCollects DEF CollectsRight
<1>7. CASE UNCHANGED vars
  <2>1. UNCHANGED <<docs, search, pc, tick, seg, doc, nextDel, coll, merged, total>>
    BY <1>7 DEF vars, input
  <2>2. Collecting /\ QueueInv
    BY <1>1, <2>1 DEF Collecting, CollectsRight
  <2>3. /\ GoneBy' = GoneBy /\ Kept' = Kept /\ NeedScore' = NeedScore
        /\ Start' = Start /\ SegStart' = SegStart /\ SegDocMax' = SegDocMax
        /\ \A g : TrueHit(g)' = TrueHit(g)
    <3>1. Start' = Start /\ SegStart' = SegStart /\ SegDocMax' = SegDocMax /\ \A d : Live(d)' = Live(d)
      BY <2>1, SameSegment
    <3>2. Reached' = Reached
      BY <2>1, <3>1 DEF Reached
    <3> QED
      BY <2>1, <3>1, <3>2, SameHits DEF GoneBy, Kept
  <2>4. TrueHits(GoneBy)' = TrueHits(GoneBy)
    BY <2>3 DEF TrueHits
  <2> QED
    BY <2>1, <2>2, <2>3, <2>4 DEF QueueInv, ThresholdRight, Best
<1> QED
  BY <1>2, <1>3, <1>4, <1>5, <1>6, <1>7 DEF Next

LEMMA CollectsGives ==
  ASSUME SearchInv, Typed, CollectsRight, ScoresKept
  PROVE  QueueIsBest
<1> SUFFICES ASSUME Collecting
             PROVE  AreBest({[m EXCEPT !.doc = @ + Start] : m \in Range(coll.queue)},
                            {TrueHit(g) : g \in GoneBy})
  BY DEF QueueIsBest
<1>1. QueueInv /\ Given /\ Placed /\ LoopRight
  BY DEF CollectsRight, Typed, SearchInv
<1>2. GoneBy \in SUBSET (1..DocMax)
  BY <1>1, GoneByIs
<1>3. TrueHits(GoneBy) \in SUBSET ValuedHits /\ IsFiniteSet(TrueHits(GoneBy))
  BY <1>1, <1>2, TrueHitsAre
<1>4. AreBest(Kept, TrueHits(GoneBy))
  BY <1>1, <1>3, AreBestIs DEF QueueInv
<1> QED
  BY <1>4 DEF Kept, AllRaised, Raised, TrueHits

\* Whatever the documents, the rules and the number that is wanted, at each
\* moment the SortCollector holds the best of the hits it has been handed, with
\* their scores: its threshold, its comparison by ordinals and its leaving out
\* a last rule by doc id turn away none that belongs there.  Except by score,
\* with more documents than hits wanted.
THEOREM QueueAlwaysBest == Spec => [](ScoresKept => QueueIsBest)
<1>1. Init => SearchInv /\ Typed /\ CollectsRight
  BY InitRight, InitTyped, InitCollects
<1>2. SearchInv /\ Typed /\ CollectsRight /\ [Next]_vars => (SearchInv /\ Typed /\ CollectsRight)'
  BY StepRight, StepTyped, StepCollects
<1>3. SearchInv /\ Typed /\ CollectsRight => (ScoresKept => QueueIsBest)
  BY CollectsGives
<1> QED
  BY <1>1, <1>2, <1>3, PTL DEF Spec

-----------------------------------------------------------------------------
(* The queue of the PolySearcher                                            *)

\* The hits there are up to document n.
HitsIn(a, n) == TrueHits(LiveIn(a, n))

\* While the hits of a Searchable are merged: those of them that have been
\* merged are Y.
MergingRight(Y) ==
    /\ Best(search.rules, search.wanted, Range(merged), HitsIn(0, Start) \cup Y)
    /\ Best(search.rules, search.wanted, Y \cup Range(coll.queue), HitsIn(Start, Start + Sizes[tick]))
    /\ Y \cap Range(coll.queue) = {}

MergesRight ==
    ScoresKept =>
        /\ Distinct(merged)
        /\ Collecting => Best(search.rules, search.wanted, Range(merged), HitsIn(0, Start))
        /\ pc = "merge" => /\ Distinct(coll.queue) /\ Sorted(search.rules, coll.queue)
                           /\ \E Y : MergingRight(Y)
        /\ pc = "done" => /\ Best(search.rules, search.wanted, Range(merged), HitsIn(0, DocMax))
                          /\ Sorted(search.rules, merged)

LEMMA HitsInAre ==
  ASSUME Given, Placed
  PROVE  LET P == HitsIn(0, Start)
             Q == HitsIn(Start, Start + Sizes[tick])
         IN  /\ P \in SUBSET Hits /\ Q \in SUBSET Hits /\ IsFiniteSet(P) /\ IsFiniteSet(Q)
             /\ P \cap Q = {} /\ P \cup Q = HitsIn(0, Start + Sizes[tick])
             /\ Start \in Nat /\ Sizes[tick] \in Nat
<1> DEFINE n == Start + Sizes[tick]
<1>1. /\ tick \in DOMAIN Layout /\ Start \in Nat /\ Sizes[tick] \in Nat /\ n <= DocMax /\ DocMax \in Nat
  BY Offsets, Within DEF Placed, Start
<1>2. /\ LiveIn(0, Start) \in SUBSET (1..DocMax) /\ LiveIn(Start, n) \in SUBSET (1..DocMax)
      /\ LiveIn(0, Start) \cap LiveIn(Start, n) = {}
      /\ LiveIn(0, Start) \cup LiveIn(Start, n) = LiveIn(0, n)
  BY <1>1 DEF LiveIn
<1> HIDE DEF n
<1>3. HitsIn(0, Start) \cup HitsIn(Start, n) = HitsIn(0, n)
  BY <1>2 DEF HitsIn, TrueHits
<1>4. ASSUME NEW h \in HitsIn(0, Start), h \in HitsIn(Start, n) PROVE FALSE
  <2>1. PICK g \in LiveIn(0, Start) : h = TrueHit(g)
    BY DEF HitsIn, TrueHits
  <2>2. g \in 1..DocMax /\ g \in LiveIn(Start, n)
    BY <1>2, <1>4, <2>1, TrueHitsAre DEF HitsIn
  <2> QED
    BY <1>2, <2>1, <2>2
<1>5. /\ HitsIn(0, Start) \in SUBSET Hits /\ IsFiniteSet(HitsIn(0, Start))
      /\ HitsIn(Start, n) \in SUBSET Hits /\ IsFiniteSet(HitsIn(Start, n))
  BY <1>2, TrueHitsAre DEF HitsIn
<1> QED
  BY <1>1, <1>3, <1>4, <1>5 DEF n

LEMMA SameHitsIn ==
  ASSUME UNCHANGED <<docs, search>>
  PROVE  \A a, b : HitsIn(a, b)' = HitsIn(a, b)
<1>1. \A a, b : LiveIn(a, b)' = LiveIn(a, b)
  BY DEF LiveIn, Live
<1> QED
  BY <1>1, SameHits DEF HitsIn

\* From what was collected to what is to be merged.
LEMMA TopDocsMerges ==
  ASSUME SearchInv, Typed, QueueInv, MergesRight, ScoresKept, TopDocs
  PROVE  MergesRight'
<1> DEFINE rules == search.rules
           w == search.wanted
           best == PopAll(rules, coll.queue)
           lifted == [i \in DOMAIN best |-> Raised(best[i], Start)]
           P == HitsIn(0, Start)
           Q == HitsIn(Start, Start + Sizes[tick])
<1>1. /\ UNCHANGED <<docs, search, tick, merged>>
      /\ pc = "segment" /\ seg = Len(Layout[tick]) + 1 /\ pc' = "merge" /\ Collecting
      /\ coll' = [coll EXCEPT !.queue = lifted]
      /\ Given /\ Placed /\ LoopRight /\ coll \in Collectors /\ IsQueue(rules, coll.queue)
  BY DEF TopDocs, input, Collecting, Raised, SearchInv, Typed
<1>2. /\ rules \in Seq(SortRule) /\ w \in Nat /\ coll.queue \in Seq(Hits) /\ InOrder(rules, coll.queue)
      /\ Distinct(coll.queue) /\ Best(rules, w, Kept, TrueHits(GoneBy))
      /\ Distinct(merged) /\ Best(rules, w, Range(merged), P)
  BY <1>1, GivenIs DEF IsQueue, QueueInv, MergesRight
<1>3. /\ best \in Seq(Hits) /\ Range(best) = Range(coll.queue) /\ Distinct(best) /\ Sorted(rules, best)
  BY <1>2, PopAllIs DEF Listed
<1>4. Start \in Nat /\ Sizes[tick] \in Nat
  BY <1>1, HitsInAre
<1> HIDE DEF best
<1>5. /\ Range(lifted) = AllRaised(Range(best), Start) /\ Distinct(lifted) /\ Sorted(rules, lifted)
  BY <1>2, <1>3, <1>4, LiftedIs
<1> HIDE DEF lifted
<1>6. coll'.queue = lifted
  BY <1>1 DEF Collectors
<1>7. Range(lifted) = Kept
  BY <1>3, <1>5 DEF Kept
<1>8. TrueHits(GoneBy) = Q
  <2>1. Reached = 0 /\ SegStart = Sizes[tick]
    BY <1>1, Offsets DEF Reached, SegStart, Placed
  <2>2. GoneBy = LiveIn(Start, Start + SegStart + Reached)
    BY <1>1, GoneByIs
  <2>3. Start + SegStart + Reached = Start + Sizes[tick]
    BY <1>4, <2>1
  <2> QED
    BY <2>2, <2>3 DEF HitsIn
<1>9. Start' = Start /\ \A a, b : HitsIn(a, b)' = HitsIn(a, b)
  BY <1>1, SameHitsIn DEF Start
<1>10. MergingRight({})'
  <2>1. Best(rules, w, Range(merged), P \cup {}) /\ Best(rules, w, {} \cup Range(lifted), Q)
    BY <1>2, <1>7, <1>8
  <2> QED
    BY <1>1, <1>6, <1>9, <2>1 DEF MergingRight, Best
<1>11. \E Y : MergingRight(Y)'
  BY <1>10
<1>12. Distinct(coll'.queue) /\ Sorted(rules, coll'.queue) /\ Distinct(merged)
  BY <1>2, <1>5, <1>6
<1> QED
  BY <1>1, <1>11, <1>12 DEF MergesRight, Collecting

\* What the next hit does to the merged queue.
MergeSetting(m, S, R) ==
    /\ search.rules \in Seq(SortRule) /\ search.wanted \in Nat
    /\ IsQueue(search.rules, merged) /\ merged \in Seq(Hits) /\ Distinct(merged)
    /\ Len(merged) \in Nat /\ Len(merged) <= search.wanted
    /\ S \in SUBSET Hits /\ IsFiniteSet(S) /\ R \in SUBSET Hits /\ IsFiniteSet(R)
    /\ Best(search.rules, search.wanted, Range(merged), S)
    /\ Cardinality(Range(merged)) = Len(merged)
    /\ m \in Hits /\ m \notin S /\ m \in R
    /\ \A x \in R : x = m \/ ~LessThan(search.rules, m, x)

LEMMA Inserted ==
  ASSUME NEW m, NEW S, NEW R, MergeSetting(m, S, R),
         NEW new,
         \/ HasRoom(search.wanted, merged) /\ new = Put(search.rules, merged, m)
         \/ Displaces(search.rules, search.wanted, merged, m) /\ new = Replaced(search.rules, merged, m)
  PROVE  Distinct(new) /\ Best(search.rules, search.wanted, Range(new), S \cup {m})
<1> DEFINE rules == search.rules
           w == search.wanted
           K == Range(merged)
<1>1. /\ rules \in Seq(SortRule) /\ w \in Nat /\ IsQueue(rules, merged) /\ Distinct(merged)
      /\ Len(merged) \in Nat /\ Len(merged) <= w /\ S \in SUBSET Hits /\ IsFiniteSet(S)
      /\ Best(rules, w, K, S) /\ Cardinality(K) = Len(merged) /\ m \in Hits /\ m \notin S
      /\ K \subseteq S /\ m \notin K /\ merged \in Seq(Hits)
  BY DEF MergeSetting, Best
<1> HIDE DEF rules, w, K
<1>2. CASE HasRoom(w, merged) /\ new = Put(rules, merged, m)
  <2>1. Range(new) = K \cup {m} /\ Distinct(new)
    BY <1>1, <1>2, PutIs DEF K
  <2>2. Cardinality(K) < w
    BY <1>1, <1>2 DEF HasRoom
  <2>3. Best(rules, w, K \cup {m}, S \cup {m})
    BY <1>1, <2>2, BestAdds
  <2> QED
    BY <2>1, <2>3 DEF rules, w
<1>3. CASE Displaces(rules, w, merged, m) /\ new = Replaced(rules, merged, m)
  <2>1. merged # <<>> /\ Len(merged) = w /\ ~LessThan(rules, m, merged[1])
    BY <1>1, <1>3 DEF Displaces, HasRoom
  <2>2. /\ Distinct(merged) => Range(new) = (Range(merged) \ {merged[1]}) \cup {m}
        /\ Distinct(merged) /\ m \notin Range(merged) => Distinct(new)
    BY <1>1, <1>3, <2>1, ReplacedIs
  <2>3. merged[1] \in K /\ \A k \in K : ~LessThan(rules, k, merged[1])
    <3> DEFINE n == Len(merged)
    <3>1. n # 0 /\ merged \in Nodes(n) /\ DOMAIN merged = 1..n /\ n \in Nat
      BY <1>1, <2>1, SeqIsNodes
    <3>2. \A i \in 1..n : ~LessThan(rules, merged[i], merged[1])
      BY <1>1, <3>1, RootLeast DEF IsQueue
    <3>3. K = {merged[i] : i \in 1..n}
      BY <3>1 DEF K, Range
    <3> QED
      BY <3>1, <3>2, <3>3
  <2>4. Best(rules, w, (K \ {merged[1]}) \cup {m}, S \cup {m})
    BY <1>1, <2>1, <2>3, BestDisplaces
  <2> QED
    BY <1>1, <2>2, <2>4 DEF rules, w, K
<1> QED
  BY <1>2, <1>3 DEF rules, w

\* When one does not get in, none of the rest would.
LEMMA RestRefused ==
  ASSUME NEW m, NEW S, NEW R, MergeSetting(m, S, R),
         Refuses(search.rules, search.wanted, merged, m)
  PROVE  Best(search.rules, search.wanted, Range(merged), S \cup R)
<1> DEFINE rules == search.rules
           w == search.wanted
           K == Range(merged)
<1>1. /\ rules \in Seq(SortRule) /\ w \in Nat /\ IsQueue(rules, merged) /\ merged \in Seq(Hits)
      /\ Len(merged) \in Nat /\ Len(merged) <= w /\ S \in SUBSET Hits /\ IsFiniteSet(S)
      /\ R \in SUBSET Hits /\ IsFiniteSet(R)
      /\ Best(rules, w, K, S) /\ Cardinality(K) = Len(merged) /\ m \in Hits
      /\ \A x \in R : x = m \/ ~LessThan(rules, m, x)
  BY DEF MergeSetting
<1> HIDE DEF rules, w
<1>2. Len(merged) = w /\ (merged = <<>> \/ LessThan(rules, m, merged[1]))
  BY <1>1 DEF Refuses, HasRoom, rules, w
<1>3. \A x \in R, k \in K : ~LessThan(rules, k, x)
  <2>1. CASE merged = <<>>
    BY <2>1, EmptyQueue
  <2>2. CASE merged # <<>>
    <3> DEFINE n == Len(merged)
               least == merged[1]
    <3>1. n # 0 /\ merged \in Nodes(n) /\ DOMAIN merged = 1..n /\ n \in Nat
          /\ \A i \in 1..n : merged[i] \in Hits
      BY <1>1, <2>2, SeqIsNodes
    <3>2. \A i \in 1..n : ~LessThan(rules, merged[i], merged[1])
      BY <1>1, <3>1, RootLeast DEF IsQueue
    <3>3. K = {merged[i] : i \in 1..n}
      BY <3>1 DEF Range
    <3>4. least \in Hits /\ LessThan(rules, m, least)
      BY <1>2, <2>2, <3>1
    <3> SUFFICES ASSUME NEW x \in R, NEW k \in K PROVE ~LessThan(rules, k, x)
      OBVIOUS
    <3>5. x \in Hits /\ k \in Hits /\ ~LessThan(rules, k, least)
      BY <1>1, <3>1, <3>2, <3>3
    <3> HIDE DEF least, K
    <3>6. ~LessThan(rules, least, m)
      BY <1>1, <3>4, Ranks
    <3>7. LessThan(rules, least, x) => LessThan(rules, least, m) \/ LessThan(rules, m, x)
      BY <1>1, <3>4, <3>5, Ranks
    <3>8. ~LessThan(rules, least, x)
      BY <1>1, <3>6, <3>7
    <3>9. LessThan(rules, k, x) => LessThan(rules, k, least) \/ LessThan(rules, least, x)
      BY <1>1, <3>4, <3>5, Ranks
    <3> QED
      BY <3>5, <3>8, <3>9
  <2> QED
    BY <2>1, <2>2
<1>4. Cardinality(K) = w
  BY <1>1, <1>2
<1> HIDE DEF K
<1>5. Best(rules, w, K, S \cup R)
  BY <1>1, <1>3, <1>4, BestRefuses
<1> QED
  BY <1>5 DEF rules, w, K

LEMMA MergeMerges ==
  ASSUME SearchInv, Typed, MergesRight, ScoresKept, Merge
  PROVE  MergesRight'
<1> DEFINE rules == search.rules
           w == search.wanted
           q == coll.queue
           m == Head(q)
           P == HitsIn(0, Start)
           Q == HitsIn(Start, Start + Sizes[tick])
<1>1. /\ UNCHANGED <<docs, search, pc, tick>> /\ pc = "merge" /\ q # <<>>
      /\ \/ /\ \/ HasRoom(w, merged) /\ merged' = Put(rules, merged, m)
               \/ Displaces(rules, w, merged, m) /\ merged' = Replaced(rules, merged, m)
            /\ coll' = [coll EXCEPT !.queue = Tail(@)]
         \/ /\ Refuses(rules, w, merged, m)
            /\ coll' = [coll EXCEPT !.queue = <<>>] /\ merged' = merged
      /\ Given /\ Placed /\ coll \in Collectors
  BY DEF Merge, input, SearchInv, Typed
<1>2. /\ rules \in Seq(SortRule) /\ w \in Nat /\ q \in Seq(Hits)
      /\ merged \in Seq(Hits) /\ IsQueue(rules, merged) /\ Len(merged) <= w /\ Len(merged) \in Nat
      /\ Distinct(merged) /\ Distinct(q) /\ Sorted(rules, q)
  BY <1>1, GivenIs DEF Typed, Collectors, MergesRight
<1>3. /\ P \in SUBSET Hits /\ Q \in SUBSET Hits /\ IsFiniteSet(P) /\ IsFiniteSet(Q) /\ P \cap Q = {}
  BY <1>1, HitsInAre
<1>4. PICK Y : MergingRight(Y)
  BY <1>1 DEF MergesRight
<1>5. /\ Best(rules, w, Range(merged), P \cup Y) /\ Best(rules, w, Y \cup Range(q), Q)
      /\ Y \cap Range(q) = {}
  BY <1>4 DEF MergingRight
<1>6. Y \subseteq Q /\ Range(q) \subseteq Q
  BY <1>5 DEF Best
<1>7. /\ m \in Hits /\ Range(q) = Range(Tail(q)) \cup {m}
      /\ Distinct(Tail(q)) /\ m \notin Range(Tail(q))
      /\ Sorted(rules, Tail(q)) /\ \A x \in Range(Tail(q)) : ~LessThan(rules, m, x)
  BY <1>1, <1>2, TailIs
<1>8. /\ P \cup Y \in SUBSET Hits /\ IsFiniteSet(P \cup Y) /\ m \notin P \cup Y
      /\ Range(q) \in SUBSET Hits /\ IsFiniteSet(Range(q))
  <2>1. IsFiniteSet(Y) /\ IsFiniteSet(Range(q))
    BY <1>3, <1>6, FS_Subset
  <2>2. IsFiniteSet(P \cup Y)
    BY <1>3, <2>1, FS_Union
  <2> QED
    BY <1>3, <1>5, <1>6, <1>7, <2>1, <2>2
<1>9. Cardinality(Range(merged)) = Len(merged)
  BY <1>2, RangeIs
<1>10. MergeSetting(m, P \cup Y, Range(q))
  <2>1. m \in Range(q) /\ \A x \in Range(q) : x = m \/ ~LessThan(rules, m, x)
    BY <1>7
  <2> HIDE DEF m, q, P
  <2> QED
    BY <1>2, <1>5, <1>7, <1>8, <1>9, <2>1 DEF MergeSetting
<1>11. Start' = Start /\ \A a, b : HitsIn(a, b)' = HitsIn(a, b)
  BY <1>1, SameHitsIn DEF Start
<1>12. pc' = "merge" /\ ~Collecting'
  BY <1>1 DEF Collecting
<1> HIDE DEF m, q, P, Q, rules, w
<1>13. CASE /\ \/ HasRoom(w, merged) /\ merged' = Put(rules, merged, m)
               \/ Displaces(rules, w, merged, m) /\ merged' = Replaced(rules, merged, m)
            /\ coll' = [coll EXCEPT !.queue = Tail(@)]
  <2>1. Distinct(merged') /\ Best(rules, w, Range(merged'), (P \cup Y) \cup {m})
    BY <1>10, <1>13, Inserted DEF rules, w
  <2>2. coll'.queue = Tail(q)
    BY <1>1, <1>13 DEF Collectors, q
  <2> DEFINE Z == Y \cup {m}
  <2>3. P \cup Z = (P \cup Y) \cup {m} /\ Z \cup Range(Tail(q)) = Y \cup Range(q)
        /\ Z \cap Range(Tail(q)) = {}
    BY <1>5, <1>7
  <2>4. /\ Best(rules, w, Range(merged'), P \cup Z) /\ Best(rules, w, Z \cup Range(coll'.queue), Q)
        /\ Z \cap Range(coll'.queue) = {}
    BY <1>5, <2>1, <2>2, <2>3
  <2> HIDE DEF Z
  <2>5. /\ Best(rules, w, Range(merged'), HitsIn(0, Start)' \cup Z)
        /\ Best(rules, w, Z \cup Range(coll'.queue), HitsIn(Start, Start + Sizes[tick])')
    BY <1>1, <1>11, <2>4 DEF P, Q
  <2>6. \E y : MergingRight(y)'
    BY <1>1, <2>4, <2>5 DEF MergingRight, Best, rules, w
  <2> QED
    BY <1>1, <1>7, <1>12, <2>1, <2>2, <2>6 DEF MergesRight, rules
<1>14. CASE /\ Refuses(rules, w, merged, m)
            /\ coll' = [coll EXCEPT !.queue = <<>>] /\ merged' = merged
  <2>1. coll'.queue = <<>> /\ Range(coll'.queue) = {}
    BY <1>1, <1>14, EmptyQueue DEF Collectors
  <2>2. Best(rules, w, Range(merged), (P \cup Y) \cup Range(q))
    BY <1>10, <1>14, RestRefused DEF rules, w
  <2> DEFINE Z == Y \cup Range(q)
  <2>3. P \cup Z = (P \cup Y) \cup Range(q) /\ Z \cup {} = Z
    OBVIOUS
  <2>4. /\ Best(rules, w, Range(merged'), P \cup Z) /\ Best(rules, w, Z \cup Range(coll'.queue), Q)
        /\ Z \cap Range(coll'.queue) = {}
    BY <1>5, <1>14, <2>1, <2>2, <2>3
  <2> HIDE DEF Z
  <2>5. /\ Best(rules, w, Range(merged'), HitsIn(0, Start)' \cup Z)
        /\ Best(rules, w, Z \cup Range(coll'.queue), HitsIn(Start, Start + Sizes[tick])')
    BY <1>1, <1>11, <2>4 DEF P, Q
  <2>6. \E y : MergingRight(y)'
    BY <1>1, <2>4, <2>5 DEF MergingRight, Best, rules, w
  <2>7. Distinct(coll'.queue) /\ Sorted(rules, coll'.queue)
    <3>1. DOMAIN <<>> = {}
      OBVIOUS
    <3> QED
      BY <2>1, <3>1 DEF Distinct, Sorted
  <2> QED
    BY <1>1, <1>2, <1>12, <1>14, <2>6, <2>7 DEF MergesRight, rules
<1> QED
  BY <1>1, <1>13, <1>14 DEF rules, w, m, q

LEMMA MergedMerges ==
  ASSUME SearchInv, Typed, MergesRight, ScoresKept, Merged
  PROVE  MergesRight'
<1> DEFINE rules == search.rules
           w == search.wanted
           P == HitsIn(0, Start)
           Q == HitsIn(Start, Start + Sizes[tick])
           best == PopAll(rules, merged)
<1>1. /\ UNCHANGED <<docs, search>> /\ pc = "merge" /\ coll.queue = <<>>
      /\ Given /\ Placed /\ rules \in Seq(SortRule) /\ w \in Nat
      /\ merged \in Seq(Hits) /\ IsQueue(rules, merged) /\ Distinct(merged)
  BY GivenIs DEF Merged, input, SearchInv, Typed, MergesRight
<1>2. /\ P \in SUBSET Hits /\ Q \in SUBSET Hits /\ IsFiniteSet(P) /\ IsFiniteSet(Q)
      /\ P \cup Q = HitsIn(0, Start + Sizes[tick])
  BY <1>1, HitsInAre
<1>3. PICK Y : MergingRight(Y)
  BY <1>1 DEF MergesRight
<1>4. Best(rules, w, Range(merged), P \cup Y) /\ Best(rules, w, Y, Q)
  <2>1. Range(coll.queue) = {}
    BY <1>1, EmptyQueue
  <2>2. Y \cup {} = Y
    OBVIOUS
  <2> QED
    BY <1>3, <2>1, <2>2 DEF MergingRight
<1>5. Best(rules, w, Range(merged), P \cup Q)
  <2> HIDE DEF P, Q, rules, w
  <2> QED
    BY <1>1, <1>2, <1>4, BestOfBest
<1>6. \A a, b : HitsIn(a, b)' = HitsIn(a, b)
  BY <1>1, SameHitsIn
<1>7. CASE tick < Len(Layout)
  <2>1. pc' = "segment" /\ Collecting' /\ merged' = merged /\ Start' = Start + Sizes[tick]
    BY <1>7, NextSearchable
  <2>2. HitsIn(0, Start)' = P \cup Q
    BY <1>2, <1>6, <2>1
  <2> HIDE DEF P, Q
  <2>3. Best(rules, w, Range(merged), HitsIn(0, Start))'
    BY <1>1, <1>5, <2>1, <2>2 DEF Best
  <2> QED
    BY <1>1, <2>1, <2>3 DEF MergesRight
<1>8. CASE ~ (tick < Len(Layout))
  <2>1. pc' = "done" /\ merged' = best
    BY <1>8 DEF Merged
  <2>2. tick = Len(Layout) /\ DocMax = Start + Sizes[tick]
    <3>1. tick \in DOMAIN Layout /\ DOMAIN Layout = 1..Len(Layout) /\ Len(Layout) \in Nat
      BY <1>1, SearchAssumption DEF Placed
    <3>2. tick = Len(Layout)
      BY <1>8, <3>1
    <3> QED
      BY <3>1, <3>2, Offsets DEF Start
  <2>3. Range(best) = Range(merged) /\ Distinct(best) /\ Sorted(rules, best)
    BY <1>1, PopAllIs DEF Listed, IsQueue
  <2>4. HitsIn(0, DocMax)' = P \cup Q
    BY <1>2, <1>6, <2>2
  <2> HIDE DEF P, Q, best
  <2>5. Best(rules, w, Range(merged), HitsIn(0, DocMax))'
    BY <1>1, <1>5, <2>1, <2>3, <2>4 DEF Best
  <2>6. ~Collecting'
    BY <2>1 DEF Collecting
  <2> QED
    BY <1>1, <2>1, <2>3, <2>5, <2>6 DEF MergesRight
<1> QED
  BY <1>7, <1>8

LEMMA OthersMerge ==
  ASSUME MergesRight, ScoresKept, UNCHANGED <<docs, search, tick, merged>>,
         \/ Collecting /\ Collecting'
         \/ UNCHANGED <<pc, coll>>
  PROVE  MergesRight'
<1>1. /\ \A a, b : HitsIn(a, b)' = HitsIn(a, b)
      /\ Start' = Start
  BY SameHitsIn DEF Start
<1>2. CASE Collecting /\ Collecting'
  BY <1>1, <1>2 DEF MergesRight, Best, Collecting
<1>3. CASE UNCHANGED <<pc, coll>>
  <2>1. HitsIn(0, Start)' = HitsIn(0, Start) /\ HitsIn(0, DocMax)' = HitsIn(0, DocMax)
        /\ HitsIn(Start, Start + Sizes[tick])' = HitsIn(Start, Start + Sizes[tick])
    BY <1>1
  <2>2. \A Y : MergingRight(Y)' <=> MergingRight(Y)
    BY <1>3, <2>1 DEF MergingRight, Best
  <2> QED
    BY <1>1, <1>3, <2>1, <2>2 DEF MergesRight, Best, Collecting
<1> QED
  BY <1>2, <1>3

LEMMA InitMerges == Init => MergesRight
<1> SUFFICES ASSUME Init PROVE MergesRight
  OBVIOUS
<1>1. pc = "segment" /\ merged = <<>> /\ Given /\ tick = 1
  BY DEF Init, Given
<1>2. search.wanted \in Nat
  BY <1>1, GivenIs
<1>3. Start = 0
  BY <1>1, Offsets DEF Start
<1>4. HitsIn(0, Start) = {}
  BY <1>3 DEF HitsIn, TrueHits, LiveIn
<1> QED
  BY <1>1, <1>2, <1>4, NoneKept, EmptyQueue DEF MergesRight

LEMMA StepMerges ==
  SearchInv /\ Typed /\ CollectsRight /\ MergesRight /\ [Next]_vars => MergesRight'
<1> SUFFICES ASSUME SearchInv, Typed, CollectsRight, MergesRight, [Next]_vars, ScoresKept'
             PROVE  MergesRight'
  BY DEF MergesRight
<1>1. ScoresKept
  <2>1. UNCHANGED <<docs, search>>
    BY DEF Next, vars, input, EnterSegment, SkipSegment, CatchUp, SkipDeleted, AdvancePast, NextMatch,
           Hit, Exhausted, TopDocs, Merge, Merged
  <2> QED
    BY <2>1, SameHits
<1>2. CASE \/ EnterSegment \/ SkipSegment \/ Exhausted \/ Hit
           \/ CatchUp \/ SkipDeleted \/ AdvancePast \/ NextMatch
  <2>1. UNCHANGED <<docs, search, tick, merged>> /\ Collecting /\ Collecting'
    BY <1>2 DEF EnterSegment, SkipSegment, Exhausted, Hit, CatchUp, SkipDeleted, AdvancePast, NextMatch,
                input, Matcher, Collecting
  <2> QED
    BY <1>1, <2>1, OthersMerge
<1>3. CASE TopDocs
  <2>1. QueueInv
    BY <1>1, <1>3 DEF CollectsRight, TopDocs, Collecting
  <2> QED
    BY <1>1, <1>3, <2>1, TopDocsMerges
<1>4. CASE Merge
  BY <1>1, <1>4, MergeMerges
<1>5. CASE Merged
  BY <1>1, <1>5, MergedMerges
<1>6. CASE UNCHANGED vars
  BY <1>1, <1>6, OthersMerge DEF vars, input
<1> QED
  BY <1>2, <1>3, <1>4, <1>5, <1>6 DEF Next

LEMMA MergesGive ==
  ASSUME SearchInv, Typed, MergesRight, ScoresKept, TotalRight
  PROVE  ResultIsBest
<1> SUFFICES ASSUME pc = "done"
             PROVE  /\ AreBest(Range(merged), {TrueHit(g) : g \in {h \in 1..DocMax : Live(h)}})
                    /\ \A i, j \in DOMAIN merged : i < j => ~Before(merged[j], merged[i])
  BY DEF ResultIsBest, TotalRight
<1> DEFINE all == {h \in 1..DocMax : Live(h)}
<1>1. /\ Given /\ all \in SUBSET (1..DocMax)
      /\ Best(search.rules, search.wanted, Range(merged), HitsIn(0, DocMax))
      /\ Sorted(search.rules, merged)
  BY DEF Typed, MergesRight
<1>2. HitsIn(0, DocMax) = TrueHits(all) /\ TrueHits(all) = {TrueHit(g) : g \in all}
  <2>1. LiveIn(0, DocMax) = all
    BY DEF LiveIn
  <2> QED
    BY <2>1 DEF HitsIn, TrueHits
<1>3. TrueHits(all) \in SUBSET ValuedHits /\ IsFiniteSet(TrueHits(all))
  BY <1>1, TrueHitsAre
<1> HIDE DEF all
<1>4. AreBest(Range(merged), TrueHits(all))
  BY <1>1, <1>2, <1>3, AreBestIs
<1>5. \A i \in DOMAIN merged : merged[i] \in ValuedHits
  BY <1>1, <1>2, <1>3 DEF Best, Range
<1>6. \A i, j \in DOMAIN merged : i < j => ~Before(merged[j], merged[i])
  BY <1>1, <1>5, BeforeIs DEF Sorted
<1> QED
  BY <1>2, <1>4, <1>6 DEF all

\* What PolySearcher_top_docs returns, from any division of any documents into
\* Searchables and segments, by any rules: the best of all live matches, as
\* many as are wanted, the better first, and the number of all.  With the same
\* exception.
THEOREM ResultAlwaysBest == Spec => [](ScoresKept => ResultIsBest)
<1>1. Init => SearchInv /\ Typed /\ CollectsRight /\ MergesRight
  BY InitRight, InitTyped, InitCollects, InitMerges
<1>2. SearchInv /\ Typed /\ CollectsRight /\ MergesRight /\ [Next]_vars
        => (SearchInv /\ Typed /\ CollectsRight /\ MergesRight)'
  BY StepRight, StepTyped, StepCollects, StepMerges
<1>3. SearchInv /\ Typed /\ MergesRight /\ TotalRight => (ScoresKept => ResultIsBest)
  BY MergesGive
<1> QED
  BY <1>1, <1>2, <1>3, TotalHitsRight, PTL DEF Spec

-----------------------------------------------------------------------------
(* Single Matchers, as the behaviours of MCSearching use them: what          *)
(* MatchersProofs proves holds of them, for any children.                   *)
One == INSTANCE MatchersProofs WITH DocMax <- SegmentMax, pc <- step

-----------------------------------------------------------------------------
\* An instance of Matchers.tla says what another does.
LEMMA ConjunctionSame == Single!ConjunctionStep => One!ConjunctionStep
BY DEF
        Single!ConjunctionStep, One!ConjunctionStep, Single!AndSeed, One!AndSeed,
        Single!PhraseSeed, One!PhraseSeed, Single!Scoot, One!Scoot,
        Single!Reconcile, One!Reconcile, Single!SeedWith, One!SeedWith,
        Single!Bar, One!Bar, Single!Agreed, One!Agreed,
        Single!NextTarget, One!NextTarget, Single!Ask, One!Ask, Single!At, One!At,
        Single!AtFirst, One!AtFirst, Single!First, One!First,
        Single!HighestOf, One!HighestOf, Single!Kid, One!Kid,
        Single!Ended, One!Ended, Single!Target, One!Target,
        Single!Goto, One!Goto, Single!Return, One!Return,
        Single!client, One!client, Single!child, One!child

LEMMA SiftSame ==
  ASSUME NEW heap
  PROVE  Single!SiftDown(heap) = One!SiftDown(heap)
BY DEF
        Single!SiftDown, One!SiftDown, Single!SiftTurn, One!SiftTurn,
        Single!Settled, One!Settled, Single!Lesser, One!Lesser,
        Single!Swap, One!Swap, Single!Range, One!Range

LEMMA TopAdvanceSame ==
  ASSUME NEW target
  PROVE  Single!TopAdvance(target) <=> One!TopAdvance(target)
BY SiftSame DEF
        Single!TopAdvance, One!TopAdvance, Single!Top, One!Top,
        Single!AdjustRoot, One!AdjustRoot, Single!Ask, One!Ask, Single!At, One!At,
        Single!First, One!First, Single!Ended, One!Ended

LEMMA DisjunctionSame == Single!DisjunctionStep => One!DisjunctionStep
BY TopAdvanceSame DEF
        Single!DisjunctionStep, One!DisjunctionStep, Single!TopNext, One!TopNext,
        Single!PastLast, One!PastLast, Single!AdvanceTop, One!AdvanceTop,
        Single!Spent, One!Spent, Single!CatchUp, One!CatchUp,
        Single!Current, One!Current, Single!Accumulate, One!Accumulate,
        Single!TopIsAt, One!TopIsAt, Single!Top, One!Top,
        Single!Target, One!Target, Single!Goto, One!Goto,
        Single!Return, One!Return, Single!client, One!client,
        Single!child, One!child

LEMMA ExclusionSame == Single!ExclusionStep => One!ExclusionStep
BY DEF
        Single!ExclusionStep, One!ExclusionStep, Single!Negate, One!Negate,
        Single!Require, One!Require, Single!Score, One!Score,
        Single!OptionalDue, One!OptionalDue, Single!Stale, One!Stale,
        Single!Ask, One!Ask, Single!At, One!At, Single!First, One!First,
        Single!Ended, One!Ended, Single!Target, One!Target,
        Single!Goto, One!Goto, Single!Return, One!Return,
        Single!client, One!client, Single!child, One!child

LEMMA CardinalitySame ==
  ASSUME NEW S
  PROVE  Single!Cardinality(S) = One!Cardinality(S)
BY DEF Single!Cardinality, One!Cardinality

LEMMA PostingSame ==
  ASSUME NEW k, NEW n
  PROVE  Single!Posting(k, n) = One!Posting(k, n)
BY CardinalitySame DEF Single!Posting, One!Posting

LEMMA PostingsSame == Single!PostingsStep => One!PostingsStep
<1>1. \A k : Single!Skips(k) = One!Skips(k)
  BY PostingSame, CardinalitySame DEF Single!Skips, One!Skips, Single!DocFreq, One!DocFreq
<1>2. \A k, n : Single!Delta(k, n) = One!Delta(k, n)
  BY PostingSame DEF Single!Delta, One!Delta
<1> QED
  BY <1>1, <1>2, CardinalitySame DEF
        Single!PostingsStep, One!PostingsStep, Single!NextSegment, One!NextSegment,
        Single!Try, One!Try, Single!Skip, One!Skip, Single!SkipDone, One!SkipDone,
        Single!Jump, One!Jump, Single!Scan, One!Scan, Single!Ahead, One!Ahead,
        Single!DocFreq, One!DocFreq, Single!DocBase, One!DocBase,
        Single!WithSub, One!WithSub, Single!Sub, One!Sub, Single!Here, One!Here,
        Single!Target, One!Target, Single!Goto, One!Goto,
        Single!Return, One!Return, Single!client, One!client,
        Single!child, One!child

LEMMA CallSame ==
  ASSUME NEW t, NEW isNext
  PROVE  Single!Call(t, isNext) => One!Call(t, isNext)
BY DEF
        Single!Call, One!Call, Single!ConjunctionCall, One!ConjunctionCall,
        Single!MatcherCall, One!MatcherCall, Single!ScorerCall, One!ScorerCall,
        Single!NotCall, One!NotCall, Single!ReqOptCall, One!ReqOptCall,
        Single!PostingsCall, One!PostingsCall, Single!Callable, One!Callable,
        Single!Top, One!Top, Single!Here, One!Here, Single!Goto, One!Goto,
        Single!child, One!child

LEMMA InitSame == Single!Init => One!Init
BY DEF
        Single!Init, One!Init, Single!AndInit, One!AndInit,
        Single!PhraseInit, One!PhraseInit, Single!DisjunctionInit, One!DisjunctionInit,
        Single!NotInit, One!NotInit, Single!ReqOptInit, One!ReqOptInit,
        Single!PostingsInit, One!PostingsInit, Single!Sought, One!Sought,
        Single!DocBase, One!DocBase, Single!AtFirst, One!AtFirst, Single!At, One!At,
        Single!First, One!First, Single!Ended, One!Ended, Single!Kid, One!Kid,
        Single!DocId, One!DocId

LEMMA NextSame == [EitherNext]_<<scope, vars, matcherVars>> => [One!Next]_(One!vars)
<1>1. Single!Next => One!Next
  <2>1. Single!Step => One!Step
    BY ConjunctionSame, DisjunctionSame, ExclusionSame, PostingsSame DEF Single!Step, One!Step
  <2>2. Single!LastDoc = One!LastDoc
    BY DEF Single!LastDoc, One!LastDoc
  <2> QED
    BY <2>1, <2>2, CallSame DEF Single!Next, One!Next
<1> QED
  BY <1>1 DEF EitherNext, matcherVars, One!vars, One!client, One!child

-----------------------------------------------------------------------------
LEMMA Constants == One!Parameters
BY PairsAssumption DEF One!Parameters, One!DocId

LEMMA EitherInvariant == EitherSpec => []One!MatchersInv
<1>1. EitherInit => One!MatchersInv
  <2>1. ASSUME NoMatcher PROVE One!MatchersInv
    BY <2>1 DEF NoMatcher, One!MatchersInv, One!Labels
  <2>2. ASSUME Single!Init PROVE One!MatchersInv
    BY <2>2, Constants, InitSame, One!InitRight
  <2> QED
    BY <2>1, <2>2 DEF EitherInit
<1>2. One!MatchersInv /\ [EitherNext]_<<scope, vars, matcherVars>> => One!MatchersInv'
  <2>1. SegmentMax \in Nat
    BY PairsAssumption
  <2> QED
    BY <2>1, NextSame, One!NextKeeps
<1> QED
  BY <1>1, <1>2, PTL DEF EitherSpec

\* A Matcher never calls Next or Advance of a child that has been exhausted,
\* nor Advance for a document that is not past the one the child is at.
THEOREM EitherCallsLegal == EitherSpec => []LegalCalls
<1>1. One!MatchersInv => LegalCalls
  BY DEF One!MatchersInv, LegalCalls, Single!LegalCalls
<1> QED
  BY <1>1, EitherInvariant, PTL

\* The score of a document is that of all children that match it, and of no
\* other.
THEOREM EitherScoresRight == EitherSpec => []ScoreRight
<1>1. One!MatchersInv => ScoreRight
  BY DEF One!MatchersInv, One!ScoreKept, One!Scored, ScoreRight, Single!ScoreRight,
         One!Kid, Single!Kid
<1> QED
  BY <1>1, EitherInvariant, PTL

\* The compound Matchers give the documents that Matcher.bp promises.
THEOREM EitherImplements == EitherSpec /\ kind # "postings" => ImplementsMatcher
<1>1. EitherInit /\ kind # "postings" => One!Init
  BY InitSame DEF EitherInit, NoMatcher
<1>2. One!Spec /\ kind # "postings" => One!ImplementsMatcher
  BY Constants, One!MatchersImplement
<1>3. EitherSpec /\ kind # "postings" => One!Spec
  BY <1>1, NextSame, PTL DEF EitherSpec, One!Spec
<1>4. One!Meaning = Single!Meaning /\ One!Meaning' = Single!Meaning'
  BY CardinalitySame DEF One!Meaning, Single!Meaning, One!ConjunctionMeaning,
         Single!ConjunctionMeaning, One!DisjunctionMeaning, Single!DisjunctionMeaning,
         One!ExclusionMeaning, Single!ExclusionMeaning, One!PostingsMeaning,
         Single!PostingsMeaning, One!Kid, Single!Kid, One!DocId, Single!DocId,
         One!DocBase, Single!DocBase
<1>5. One!Contract!Init => Single!Contract!Init
  BY DEF One!Contract!Init, Single!Contract!Init
<1>6. [One!Contract!Next]_(One!Contract!vars) => [Single!Contract!Next]_(Single!Contract!vars)
  BY <1>4 DEF One!Contract!Next, Single!Contract!Next, One!Contract!Call,
         Single!Contract!Call, One!Contract!Return, Single!Contract!Return,
         One!Contract!Exhausted, Single!Contract!Exhausted, One!Contract!First,
         Single!Contract!First, One!Contract!vars, Single!Contract!vars
<1> QED
  BY <1>2, <1>3, <1>5, <1>6, PTL DEF One!ImplementsMatcher, ImplementsMatcher,
         Single!ImplementsMatcher, One!Contract!Spec, Single!Contract!Spec
=============================================================================
