--------------------------- MODULE MatchersProofs ---------------------------
(* Matchers.tla for any documents and any children: every class keeps to    *)
(* the contract of Matcher.bp, as a matcher and as a caller of its children.*)
EXTENDS Matchers, FiniteSetTheorems, WellFoundedInduction, TLAPS

-----------------------------------------------------------------------------
(* Least and greatest elements                                              *)

LEMMA Least ==
  ASSUME NEW S \in SUBSET Nat, S # {}
  PROVE  \E m \in S : \A n \in S : m <= n
<1>1. IsWellFoundedOn(OpToRel(<, Nat), Nat)
  BY NatLessThanWellFounded
<1>2. PICK m \in S : \A n \in S : <<n, m>> \notin OpToRel(<, Nat)
  BY <1>1, WFMin
<1>3. \A n \in S : ~ (n < m)
  BY <1>2 DEF OpToRel
<1> QED
  BY <1>3

LEMMA FirstIs ==
  ASSUME NEW D \in SUBSET Nat, NEW target \in Nat
  PROVE  \/ /\ First(D, target) = 0
            /\ \A d \in D : d < target
         \/ /\ First(D, target) \in D /\ First(D, target) >= target
            /\ \A d \in D : d >= target => First(D, target) <= d
<1> DEFINE rest == {d \in D : d >= target}
<1>1. CASE rest = {}
  BY <1>1 DEF First
<1>2. CASE rest # {}
  <2>1. \E m \in rest : \A n \in rest : m <= n
    BY <1>2, Least
  <2> QED
    BY <1>2, <2>1 DEF First
<1> QED
  BY <1>1, <1>2

\* What is least is first.
LEMMA FirstIsLeast ==
  ASSUME NEW D \in SUBSET Nat, NEW target \in Nat, NEW d \in D, d >= target,
         \A e \in D : e >= target => d <= e
  PROVE  First(D, target) = d
<1>1. d \in Nat /\ \A e \in D : e \in Nat
  OBVIOUS
<1>2. First(D, target) \in D /\ First(D, target) >= target /\ First(D, target) <= d
  BY <1>1, FirstIs
<1>3. d <= First(D, target) /\ First(D, target) \in Nat
  BY <1>1, <1>2
<1> HIDE DEF First
<1> QED
  BY <1>1, <1>2, <1>3

LEMMA FirstIsNone ==
  ASSUME NEW D \in SUBSET Nat, NEW target \in Nat, \A e \in D : e < target
  PROVE  First(D, target) = 0
<1>1. {d \in D : d >= target} = {}
  <2>1. ASSUME NEW e \in D PROVE ~ (e >= target)
    <3>1. e \in Nat /\ e < target
      OBVIOUS
    <3> QED
      BY <3>1
  <2> QED
    BY <2>1
<1> QED
  BY <1>1 DEF First

LEMMA HighestIs ==
  ASSUME NEW N \in Nat, NEW S \in SUBSET (0..N), S # {}
  PROVE  HighestOf(S) \in S /\ \A e \in S : e <= HighestOf(S)
<1> DEFINE T == {n \in Nat : N - n \in S}
<1>1. T # {}
  <2>1. PICK e \in S : TRUE
    OBVIOUS
  <2>2. N - e \in Nat /\ N - (N - e) = e
    BY <2>1
  <2> QED
    BY <2>1, <2>2
<1>2. PICK m \in T : \A n \in T : m <= n
  <2>1. T \in SUBSET Nat
    OBVIOUS
  <2> HIDE DEF T
  <2> QED
    BY <1>1, <2>1, Least
<1>3. N - m \in S /\ m \in Nat
  BY <1>2
<1>4. ASSUME NEW e \in S PROVE e <= N - m
  <2>1. e \in 0..N /\ N - e \in Nat /\ N - (N - e) = e
    OBVIOUS
  <2>2. m <= N - e
    BY <1>2, <2>1
  <2> QED
    BY <1>3, <2>1, <2>2
<1> QED
  BY <1>3, <1>4 DEF HighestOf

-----------------------------------------------------------------------------
(* The heap of an ORMatcher                                                 *)

Nodes(n) == [1..n -> [kid : Nat, doc : Nat]]

\* A heap without the order: n children, each once.
IsHeap(heap, n) ==
    /\ heap \in Nodes(n)
    /\ \A i, j \in 1..n : heap[i].kid = heap[j].kid => i = j

\* Node p is not above a lesser child.
InOrder(heap, p) ==
    \A j \in {2 * p, 2 * p + 1} : j <= Len(heap) => heap[p].doc <= heap[j].doc

\* Only node i may be greater than its children, and they are not less than
\* its parent.
InOrderBut(heap, i) ==
    /\ \A p \in 1..Len(heap) : p # i => InOrder(heap, p)
    /\ \A p \in 1..Len(heap), j \in 1..Len(heap) :
          (i = 2 * p \/ i = 2 * p + 1) /\ (j = 2 * i \/ j = 2 * i + 1) => heap[p].doc <= heap[j].doc

SameNodes(heap, other) ==
    /\ \A i \in DOMAIN heap : \E j \in DOMAIN other : heap[i] = other[j]
    /\ \A j \in DOMAIN other : \E i \in DOMAIN heap : heap[i] = other[j]

LEMMA NodesAre ==
  ASSUME NEW n \in Nat, NEW heap \in Nodes(n)
  PROVE  /\ Len(heap) = n /\ DOMAIN heap = 1..n /\ heap \in Seq([kid : Nat, doc : Nat])
         /\ \A i \in 1..n : heap[i].doc \in Nat /\ heap[i].kid \in Nat
<1> DEFINE Node == [kid : Nat, doc : Nat]
<1>1. heap \in [1..n -> Node]
  BY DEF Nodes
<1>2. \A i \in 1..n : heap[i].doc \in Nat /\ heap[i].kid \in Nat
  BY <1>1
<1> HIDE DEF Node
<1>3. DOMAIN heap = 1..n /\ heap \in Seq(Node) /\ Len(heap) = n
  BY <1>1
<1> QED
  BY <1>2, <1>3 DEF Node

LEMMA RootLeast ==
  ASSUME NEW n \in Nat, NEW heap, IsHeap(heap, n), \A p \in 1..n : InOrder(heap, p)
  PROVE  \A i \in 1..n : heap[1].doc <= heap[i].doc
<1>1. /\ Len(heap) = n /\ \A i \in 1..n : heap[i].doc \in Nat
      /\ \A p \in 1..n, j \in 1..n : (j = 2 * p \/ j = 2 * p + 1) => heap[p].doc <= heap[j].doc
  <2>1. Len(heap) = n /\ \A i \in 1..n : heap[i].doc \in Nat
    BY NodesAre DEF IsHeap
  <2>2. ASSUME NEW p \in 1..n, NEW j \in 1..n, j = 2 * p \/ j = 2 * p + 1
        PROVE  heap[p].doc <= heap[j].doc
    <3>1. InOrder(heap, p) /\ j <= Len(heap)
      BY <2>1
    <3> QED
      BY <2>2, <3>1 DEF InOrder
  <2> QED
    BY <2>1, <2>2
<1> DEFINE bad == {i \in 1..n : heap[i].doc < heap[1].doc}
<1>2. SUFFICES ASSUME bad # {} PROVE FALSE
  BY <1>1
<1>3. PICK i \in bad : \A j \in bad : i <= j
  <2>1. bad \in SUBSET Nat
    OBVIOUS
  <2> HIDE DEF bad
  <2> QED
    BY <1>2, <2>1, Least
<1>4. i \in 1..n /\ heap[i].doc < heap[1].doc /\ i # 1
  BY <1>1, <1>3
<1>5. PICK p \in 1..n : p < i /\ (i = 2 * p \/ i = 2 * p + 1)
  <2>1. /\ i \div 2 \in 1..n /\ i \div 2 < i
        /\ (i = 2 * (i \div 2) \/ i = 2 * (i \div 2) + 1)
    BY <1>4
  <2> QED
    BY <2>1
<1>6. heap[p].doc <= heap[i].doc
  BY <1>1, <1>4, <1>5
<1>7. p \in bad
  BY <1>1, <1>4, <1>5, <1>6
<1> HIDE DEF bad
<1> QED
  BY <1>3, <1>4, <1>5, <1>7

LEMMA Swapped ==
  ASSUME NEW n \in Nat, NEW heap, IsHeap(heap, n), NEW i \in 1..n, NEW j \in 1..n
  PROVE  /\ IsHeap(Swap(heap, i, j), n)
         /\ SameNodes(Swap(heap, i, j), heap)
         /\ DOMAIN Swap(heap, i, j) = 1..n
         /\ \A k \in 1..n : Swap(heap, i, j)[k] = IF k = j THEN heap[i] ELSE IF k = i THEN heap[j] ELSE heap[k]
<1>1. heap \in [1..n -> [kid : Nat, doc : Nat]] /\ DOMAIN heap = 1..n
  BY DEF IsHeap, Nodes
<1>2. Swap(heap, i, j) = [k \in 1..n |-> IF k = j THEN heap[i] ELSE IF k = i THEN heap[j] ELSE heap[k]]
  BY <1>1 DEF Swap
<1>3. Swap(heap, i, j) \in Nodes(n)
  BY <1>1, <1>2 DEF Nodes
<1>4. \A k, l \in 1..n : Swap(heap, i, j)[k].kid = Swap(heap, i, j)[l].kid => k = l
  BY <1>2 DEF IsHeap
<1>5. SameNodes(Swap(heap, i, j), heap)
  BY <1>1, <1>2 DEF SameNodes
<1> QED
  BY <1>2, <1>3, <1>4, <1>5 DEF IsHeap

\* A child is never at a node before its parent, so the sift ends.
LEMMA LesserIs ==
  ASSUME NEW n \in Nat, NEW heap \in Nodes(n), NEW i \in 1..n
  PROVE  /\ Lesser(heap, i) \in {2 * i, 2 * i + 1}
         /\ ~Settled(heap, i) =>
               /\ Lesser(heap, i) \in (i + 1)..n
               /\ heap[Lesser(heap, i)].doc < heap[i].doc
               /\ \A j \in {2 * i, 2 * i + 1} : j <= n => heap[Lesser(heap, i)].doc <= heap[j].doc
         /\ Settled(heap, i) => InOrder(heap, i)
<1>1. Len(heap) = n /\ \A k \in 1..n : heap[k].doc \in Nat
  BY NodesAre
<1>2. 2 * i \in Nat /\ 2 * i > i
  OBVIOUS
<1>3. CASE 2 * i + 1 <= n /\ heap[2 * i + 1].doc < heap[2 * i].doc
  <2>1. Lesser(heap, i) = 2 * i + 1
    BY <1>1, <1>3 DEF Lesser
  <2> QED
    BY <1>1, <1>2, <1>3, <2>1 DEF Settled, InOrder
<1>4. CASE ~ (2 * i + 1 <= n /\ heap[2 * i + 1].doc < heap[2 * i].doc)
  <2>1. Lesser(heap, i) = 2 * i
    BY <1>1, <1>4 DEF Lesser
  <2> QED
    BY <1>1, <1>2, <1>4, <2>1 DEF Settled, InOrder
<1> QED
  BY <1>3, <1>4

\* What the loop of S_sift_down does from a node of a heap.
Places(heap) == [heap : [DOMAIN heap -> Range(heap)], node : DOMAIN heap]
Sifts(f, dom) ==
    f = [at \in dom |-> IF Settled(at.heap, at.node) THEN at.heap ELSE f[SiftTurn(at)]]

LEMMA PlacesAre ==
  ASSUME NEW n \in Nat, NEW heap \in Nodes(n), NEW at \in Places(heap)
  PROVE  at.heap \in [1..n -> Range(heap)] /\ at.heap \in Nodes(n) /\ at.node \in 1..n
<1>1. DOMAIN heap = 1..n /\ Range(heap) \subseteq [kid : Nat, doc : Nat]
  BY DEF Nodes, Range
<1> QED
  BY <1>1 DEF Places, Nodes

\* The loop goes down, so it ends.
LEMMA GoesDown ==
  ASSUME NEW n \in Nat, NEW heap \in Nodes(n), NEW at \in Places(heap),
         ~Settled(at.heap, at.node)
  PROVE  SiftTurn(at) \in Places(heap) /\ SiftTurn(at).node >= at.node + 1
<1>1. at.heap \in [1..n -> Range(heap)] /\ at.heap \in Nodes(n) /\ at.node \in 1..n
  BY PlacesAre
<1> DEFINE j == Lesser(at.heap, at.node)
<1>2. j \in (at.node + 1)..n
  BY <1>1, LesserIs
<1>3. Swap(at.heap, at.node, j) \in [1..n -> Range(heap)] /\ DOMAIN heap = 1..n
  <2>1. DOMAIN heap = 1..n /\ j \in 1..n
    BY <1>1, <1>2, NodesAre
  <2> HIDE DEF j
  <2> QED
    BY <1>1, <2>1 DEF Swap
<1>4. SiftTurn(at) = [heap |-> Swap(at.heap, at.node, j), node |-> j]
  BY DEF SiftTurn
<1> HIDE DEF j
<1>5. SiftTurn(at).node = j /\ SiftTurn(at) \in [heap : [1..n -> Range(heap)], node : 1..n]
  BY <1>1, <1>2, <1>3, <1>4
<1> QED
  BY <1>1, <1>2, <1>3, <1>5 DEF Places

LEMMA SiftExists ==
  ASSUME NEW n \in Nat, NEW heap \in Nodes(n)
  PROVE  \E f : Sifts(f, Places(heap))
<1> DEFINE Level(m) == {at \in Places(heap) : at.node + m > n}
           bad == {m \in 0..n : ~ \E f : Sifts(f, Level(m))}
<1>1. Level(n) = Places(heap)
  BY PlacesAre
<1>2. SUFFICES ASSUME bad # {} PROVE FALSE
  <2>1. n \notin bad
    BY <1>2
  <2> QED
    BY <1>1, <2>1
<1>3. PICK m \in bad : \A l \in bad : m <= l
  <2>1. bad \in SUBSET Nat
    OBVIOUS
  <2> HIDE DEF bad
  <2> QED
    BY <1>2, <2>1, Least
<1>4. m \in 0..n /\ ~ \E f : Sifts(f, Level(m))
  OBVIOUS
<1>5. m # 0
  <2>1. Level(0) = {}
    BY PlacesAre
  <2>2. Sifts([at \in {} |-> 0], {})
    BY DEF Sifts
  <2> QED
    BY <1>4, <2>1, <2>2
<1>6. m - 1 \in 0..n /\ m - 1 \notin bad
  <2>1. m - 1 \in 0..n /\ ~ (m <= m - 1)
    BY <1>4, <1>5
  <2> HIDE DEF bad
  <2> QED
    BY <1>3, <2>1
<1>7. PICK f : Sifts(f, Level(m - 1))
  BY <1>6
<1> DEFINE g == [at \in Level(m) |-> IF Settled(at.heap, at.node) THEN at.heap ELSE f[SiftTurn(at)]]
<1>8. ASSUME NEW at \in Level(m), ~Settled(at.heap, at.node)
      PROVE  SiftTurn(at) \in Level(m - 1) /\ SiftTurn(at) \in Level(m)
  <2>1. SiftTurn(at) \in Places(heap) /\ SiftTurn(at).node >= at.node + 1
    BY <1>8, GoesDown
  <2>2. at.node \in 1..n /\ SiftTurn(at).node \in 1..n /\ at.node + m > n
    BY <2>1, PlacesAre
  <2> QED
    BY <1>4, <1>5, <2>1, <2>2
<1>9. ASSUME NEW at \in Level(m - 1)
      PROVE  f[at] = IF Settled(at.heap, at.node) THEN at.heap ELSE f[SiftTurn(at)]
  BY <1>7 DEF Sifts
<1>10. ASSUME NEW at \in Level(m), ~Settled(at.heap, at.node)
       PROVE  g[SiftTurn(at)] = f[SiftTurn(at)]
  <2> DEFINE x == SiftTurn(at)
  <2>1. x \in Level(m) /\ f[x] = IF Settled(x.heap, x.node) THEN x.heap ELSE f[SiftTurn(x)]
    BY <1>8, <1>9, <1>10
  <2> HIDE DEF x, Level
  <2>2. g[x] = f[x]
    BY <2>1
  <2> QED
    BY <2>2 DEF x
<1>11. Sifts(g, Level(m))
  <2> HIDE DEF Level
  <2>1. g = [at \in Level(m) |-> IF Settled(at.heap, at.node) THEN at.heap ELSE g[SiftTurn(at)]]
    BY <1>10
  <2> HIDE DEF g
  <2> QED
    BY <2>1 DEF Sifts
<1> QED
  BY <1>4, <1>11

LEMMA TurnKeeps ==
  ASSUME NEW n \in Nat, NEW h, IsHeap(h, n), NEW i \in 1..n, InOrderBut(h, i), ~Settled(h, i)
  PROVE  /\ IsHeap(Swap(h, i, Lesser(h, i)), n)
         /\ SameNodes(Swap(h, i, Lesser(h, i)), h)
         /\ InOrderBut(Swap(h, i, Lesser(h, i)), Lesser(h, i))
<1> DEFINE j == Lesser(h, i)
           g == Swap(h, i, j)
<1>1. h \in Nodes(n) /\ Len(h) = n /\ \A k \in 1..n : h[k].doc \in Nat
  BY NodesAre DEF IsHeap
<1>2. /\ j \in {2 * i, 2 * i + 1} /\ j \in (i + 1)..n /\ h[j].doc < h[i].doc
      /\ \A k \in {2 * i, 2 * i + 1} : k <= n => h[j].doc <= h[k].doc
  BY <1>1, LesserIs
<1>3. j \in 1..n
  BY <1>2
<1> HIDE DEF j
<1>4. /\ IsHeap(g, n) /\ SameNodes(g, h)
      /\ \A k \in 1..n : g[k] = IF k = j THEN h[i] ELSE IF k = i THEN h[j] ELSE h[k]
  BY <1>3, Swapped
<1>5. Len(g) = n
  BY <1>4, NodesAre DEF IsHeap
<1> HIDE DEF g
<1>6. \A p \in 1..n, k \in 1..n : p # i /\ (k = 2 * p \/ k = 2 * p + 1) => h[p].doc <= h[k].doc
  BY <1>1 DEF InOrderBut, InOrder
<1>7. \A p \in 1..n, k \in 1..n :
         (i = 2 * p \/ i = 2 * p + 1) /\ (k = 2 * i \/ k = 2 * i + 1) => h[p].doc <= h[k].doc
  BY <1>1 DEF InOrderBut
<1>8. ASSUME NEW p \in 1..n, NEW k \in 1..n, p # j, k = 2 * p \/ k = 2 * p + 1
      PROVE  g[p].doc <= g[k].doc
  <2>1. CASE p = i
    <3>1. g[p] = h[j] /\ k # i /\ k \in {2 * i, 2 * i + 1}
      BY <1>2, <1>4, <1>8, <2>1
    <3>2. CASE k = j
      BY <1>1, <1>2, <1>3, <1>4, <3>1, <3>2
    <3>3. CASE k # j
      <4>1. g[k] = h[k] /\ h[j].doc <= h[k].doc
        BY <1>2, <1>4, <3>1, <3>3
      <4> QED
        BY <3>1, <4>1
    <3> QED
      BY <3>2, <3>3
  <2>2. CASE p # i /\ k = i
    <3>1. g[p] = h[p] /\ g[k] = h[j]
      BY <1>2, <1>4, <1>8, <2>2
    <3>2. h[p].doc <= h[j].doc
      BY <1>2, <1>3, <1>7, <1>8, <2>2
    <3> QED
      BY <3>1, <3>2
  <2>3. CASE p # i /\ k # i
    <3>1. k # j
      BY <1>2, <1>8, <2>3
    <3> QED
      BY <1>4, <1>6, <1>8, <2>3, <3>1
  <2> QED
    BY <2>1, <2>2, <2>3
<1>9. ASSUME NEW p \in 1..n, NEW k \in 1..n,
             j = 2 * p \/ j = 2 * p + 1, k = 2 * j \/ k = 2 * j + 1
      PROVE  g[p].doc <= g[k].doc
  <2>1. p = i /\ k # i /\ k # j /\ i # j
    BY <1>2, <1>9
  <2>2. g[p] = h[j] /\ g[k] = h[k]
    BY <1>4, <2>1
  <2> QED
    BY <1>3, <1>6, <1>9, <2>1, <2>2
<1>10. InOrderBut(g, j)
  <2>1. ASSUME NEW p \in 1..n, p # j PROVE InOrder(g, p)
    <3>1. ASSUME NEW k \in {2 * p, 2 * p + 1}, k <= n PROVE g[p].doc <= g[k].doc
      <4>1. k \in 1..n
        BY <3>1
      <4> QED
        BY <1>8, <2>1, <3>1, <4>1
    <3> QED
      BY <1>5, <3>1 DEF InOrder
  <2> QED
    BY <1>5, <1>9, <2>1 DEF InOrderBut
<1> QED
  BY <1>4, <1>10 DEF g, j

LEMMA SameNodesTrans ==
  ASSUME NEW a, NEW b, NEW c, SameNodes(a, b), SameNodes(b, c)
  PROVE  SameNodes(a, c)
BY DEF SameNodes

\* S_sift_down puts a heap in order whose root alone may be out of place.
LEMMA SiftsDown ==
  ASSUME NEW n \in Nat, n # 0, NEW heap, IsHeap(heap, n), InOrderBut(heap, 1)
  PROVE  /\ IsHeap(SiftDown(heap), n)
         /\ SameNodes(SiftDown(heap), heap)
         /\ \A p \in 1..n : InOrder(SiftDown(heap), p)
<1> DEFINE Before(at) == /\ IsHeap(at.heap, n) /\ SameNodes(at.heap, heap)
                         /\ InOrderBut(at.heap, at.node)
           After(h) == /\ IsHeap(h, n) /\ SameNodes(h, heap)
                       /\ \A p \in 1..n : InOrder(h, p)
           root == [heap |-> heap, node |-> 1]
<1>1. heap \in Nodes(n) /\ DOMAIN heap = 1..n
  BY NodesAre DEF IsHeap
<1>2. PICK f : Sifts(f, Places(heap)) /\ SiftDown(heap) = f[root]
  <2>1. \E f : Sifts(f, Places(heap))
    BY <1>1, SiftExists
  <2> QED
    BY <2>1 DEF Sifts, SiftDown, Places
<1>3. ASSUME NEW at \in Places(heap)
      PROVE  f[at] = IF Settled(at.heap, at.node) THEN at.heap ELSE f[SiftTurn(at)]
  BY <1>2 DEF Sifts
<1>4. ASSUME NEW at \in Places(heap), Before(at), Settled(at.heap, at.node)
      PROVE  After(f[at])
  <2>1. f[at] = at.heap
    BY <1>3, <1>4
  <2>2. at.heap \in Nodes(n) /\ Len(at.heap) = n /\ at.node \in 1..n
    BY <1>1, PlacesAre, NodesAre
  <2>3. InOrder(at.heap, at.node)
    BY <1>4, <2>2, LesserIs
  <2>4. \A p \in 1..n : InOrder(at.heap, p)
    BY <1>4, <2>2, <2>3 DEF InOrderBut
  <2> QED
    BY <1>4, <2>1, <2>4
<1>5. ASSUME NEW at \in Places(heap), Before(at), ~Settled(at.heap, at.node)
      PROVE  /\ SiftTurn(at) \in Places(heap) /\ SiftTurn(at).node >= at.node + 1
             /\ Before(SiftTurn(at)) /\ f[at] = f[SiftTurn(at)]
  <2>1. SiftTurn(at) \in Places(heap) /\ SiftTurn(at).node >= at.node + 1
    BY <1>1, <1>5, GoesDown
  <2>2. at.node \in 1..n
    BY <1>1, PlacesAre
  <2> DEFINE j == Lesser(at.heap, at.node)
             g == Swap(at.heap, at.node, j)
  <2>3. SiftTurn(at) = [heap |-> g, node |-> j]
    BY DEF SiftTurn
  <2>4. IsHeap(g, n) /\ SameNodes(g, at.heap) /\ InOrderBut(g, j)
    BY <1>5, <2>2, TurnKeeps
  <2>5. SameNodes(g, heap)
    BY <1>5, <2>4, SameNodesTrans
  <2> HIDE DEF g, j
  <2>6. SiftTurn(at).heap = g /\ SiftTurn(at).node = j
    BY <2>3
  <2>7. Before(SiftTurn(at))
    BY <2>4, <2>5, <2>6
  <2> QED
    BY <1>3, <1>5, <2>1, <2>7
<1> DEFINE bad == {m \in 0..n : \E at \in Places(heap) :
                                   at.node + m = n /\ Before(at) /\ ~After(f[at])}
<1>6. root \in Places(heap) /\ Before(root)
  <2>1. heap \in [DOMAIN heap -> Range(heap)] /\ 1 \in DOMAIN heap
    BY <1>1 DEF Range, Nodes
  <2>2. SameNodes(heap, heap)
    BY DEF SameNodes
  <2> QED
    BY <2>1, <2>2 DEF Places
<1> HIDE DEF Before, After
<1>7. SUFFICES ASSUME bad # {} PROVE FALSE
  <2>1. root.node + (n - 1) = n /\ n - 1 \in 0..n
    OBVIOUS
  <2>2. After(f[root])
    BY <1>6, <1>7, <2>1
  <2> QED
    BY <1>2, <2>2 DEF After
<1>8. PICK m \in bad : \A l \in bad : m <= l
  <2>1. bad \in SUBSET Nat
    OBVIOUS
  <2> HIDE DEF bad
  <2> QED
    BY <1>7, <2>1, Least
<1>9. PICK at \in Places(heap) : at.node + m = n /\ Before(at) /\ ~After(f[at])
  OBVIOUS
<1>10. m \in 0..n
  OBVIOUS
<1> DEFINE x == SiftTurn(at)
<1>11. x \in Places(heap) /\ x.node >= at.node + 1 /\ Before(x) /\ f[at] = f[x]
  BY <1>4, <1>5, <1>9
<1>12. at.node \in 1..n /\ x.node \in 1..n
  BY <1>1, <1>11, PlacesAre
<1> HIDE DEF x
<1>13. n - x.node \in bad
  <2>1. n - x.node \in 0..n /\ x.node + (n - x.node) = n
    BY <1>12
  <2> QED
    BY <1>9, <1>11, <2>1
<1>14. n - x.node < m
  BY <1>9, <1>10, <1>11, <1>12
<1> HIDE DEF bad
<1> QED
  BY <1>8, <1>10, <1>12, <1>13, <1>14

\* The nodes of the heap are the children that are not exhausted, with the
\* documents that they are at.
Agree(heap, at) ==
    /\ \A i \in DOMAIN heap :
          heap[i].kid \in Kid /\ heap[i].doc = at[heap[i].kid] /\ heap[i].doc # Ended
    /\ \A k \in Kid : at[k] # Ended => \E i \in DOMAIN heap : heap[i].kid = k

HeapRight(heap, at) ==
    /\ IsHeap(heap, Len(heap))
    /\ \A p \in 1..Len(heap) : InOrder(heap, p)
    /\ Agree(heap, at)

LEMMA AgreeAlso ==
  ASSUME NEW a, NEW b, NEW at, SameNodes(a, b), Agree(b, at)
  PROVE  Agree(a, at)
BY DEF SameNodes, Agree

LEMMA EmptyRight ==
  ASSUME NEW at, \A k \in Kid : at[k] = Ended
  PROVE  HeapRight(<<>>, at)
<1>1. Len(<<>>) = 0 /\ 1..0 = {} /\ DOMAIN <<>> = {}
  OBVIOUS
<1>2. <<>> \in Nodes(0)
  BY <1>1 DEF Nodes
<1> QED
  BY <1>1, <1>2 DEF HeapRight, IsHeap, Agree

\* S_adjust_root, when the child at the root has gone on to document d or is
\* exhausted.
LEMMA Adjusts ==
  ASSUME NEW heap, heap # <<>>, NEW at, HeapRight(heap, at), NEW d \in Nat, Kid \subseteq Nat,
         DOMAIN at = Kid
  PROVE  HeapRight(AdjustRoot(heap, d), [at EXCEPT ![heap[1].kid] = d])
<1> DEFINE n == Len(heap)
           new == [at EXCEPT ![heap[1].kid] = d]
<1>1. heap \in Nodes(n) /\ n \in Nat /\ n # 0
  <2>1. heap \in Nodes(Len(heap)) /\ Len(heap) \in Nat
    BY DEF HeapRight, IsHeap, Nodes
  <2>2. heap \in Seq([kid : Nat, doc : Nat])
    BY <2>1, NodesAre
  <2> QED
    BY <2>1, <2>2
<1> HIDE DEF n
<1>2. /\ DOMAIN heap = 1..n /\ Len(heap) = n
      /\ \A i \in 1..n : heap[i] = [kid |-> heap[i].kid, doc |-> heap[i].doc]
                         /\ heap[i].doc \in Nat /\ heap[i].kid \in Nat
  BY <1>1, NodesAre DEF Nodes
<1>3. /\ \A i, j \in 1..n : heap[i].kid = heap[j].kid => i = j
      /\ \A p \in 1..n, j \in 1..n : (j = 2 * p \/ j = 2 * p + 1) => heap[p].doc <= heap[j].doc
      /\ \A i \in 1..n : /\ heap[i].kid \in Kid /\ heap[i].doc = at[heap[i].kid]
                         /\ heap[i].doc # Ended
      /\ \A k \in Kid : at[k] # Ended => \E i \in 1..n : heap[i].kid = k
  <2>1. IsHeap(heap, n) /\ (\A p \in 1..n : InOrder(heap, p)) /\ Agree(heap, at)
    BY <1>2 DEF HeapRight
  <2>2. ASSUME NEW p \in 1..n, NEW j \in 1..n, j = 2 * p \/ j = 2 * p + 1
        PROVE  heap[p].doc <= heap[j].doc
    <3>1. InOrder(heap, p) /\ j <= Len(heap)
      BY <1>2, <2>1
    <3> QED
      BY <2>2, <3>1 DEF InOrder
  <2>3. \A i, j \in 1..n : heap[i].kid = heap[j].kid => i = j
    BY <2>1 DEF IsHeap
  <2> QED
    BY <1>2, <2>1, <2>2, <2>3 DEF Agree
<1>4. \A k \in Kid : new[k] = IF k = heap[1].kid THEN d ELSE at[k]
  OBVIOUS
<1>5. SUFFICES HeapRight(AdjustRoot(heap, d), new)
  OBVIOUS
<1> HIDE DEF new
<1>6. ASSUME NEW m \in Nat, m # 0, NEW h, IsHeap(h, m), Agree(h, new),
             \A p \in 2..m, j \in 1..m : (j = 2 * p \/ j = 2 * p + 1) => h[p].doc <= h[j].doc
      PROVE  HeapRight(SiftDown(h), new)
  <2>1. Len(h) = m
    BY <1>6, NodesAre DEF IsHeap
  <2>2. \A p \in 1..m : p # 1 => InOrder(h, p)
    <3> SUFFICES ASSUME NEW p \in 2..m, NEW j \in {2 * p, 2 * p + 1}, j <= m
                 PROVE  h[p].doc <= h[j].doc
      BY <2>1 DEF InOrder
    <3>1. j \in 1..m
      OBVIOUS
    <3> QED
      BY <1>6, <3>1
  <2>3. InOrderBut(h, 1)
    BY <2>1, <2>2 DEF InOrderBut
  <2>4. /\ IsHeap(SiftDown(h), m) /\ SameNodes(SiftDown(h), h)
        /\ \A p \in 1..m : InOrder(SiftDown(h), p)
    BY <1>6, <2>3, SiftsDown
  <2>5. Len(SiftDown(h)) = m
    BY <2>4, NodesAre DEF IsHeap
  <2> QED
    BY <1>6, <2>4, <2>5, AgreeAlso DEF HeapRight
<1>7. CASE d # Ended
  <2> DEFINE h == [heap EXCEPT ![1].doc = d]
  <2>1. h = [i \in 1..n |-> IF i = 1 THEN [kid |-> heap[1].kid, doc |-> d] ELSE heap[i]]
    <3>1. heap \in [1..n -> [kid : Nat, doc : Nat]] /\ 1 \in 1..n
      BY <1>1 DEF Nodes
    <3>2. [heap[1] EXCEPT !.doc = d] = [kid |-> heap[1].kid, doc |-> d]
      BY <3>1
    <3> QED
      BY <3>1, <3>2
  <2>2. \A i \in 1..n : /\ h[i].kid = heap[i].kid
                        /\ h[i].doc = IF i = 1 THEN d ELSE heap[i].doc
    BY <2>1
  <2>3. h \in Nodes(n) /\ DOMAIN h = 1..n
    BY <1>1, <2>1 DEF Nodes
  <2>4. AdjustRoot(heap, d) = SiftDown(h)
    <3>1. h # <<>>
      BY <1>1, <2>3
    <3> HIDE DEF h
    <3> QED
      BY <1>7, <3>1 DEF AdjustRoot, h
  <2> HIDE DEF h
  <2>5. IsHeap(h, n)
    BY <1>3, <2>2, <2>3 DEF IsHeap
  <2>6. Agree(h, new)
    <3>1. 1 \in 1..n
      BY <1>1
    <3>2. ASSUME NEW i \in 1..n
          PROVE  h[i].kid \in Kid /\ h[i].doc = new[h[i].kid] /\ h[i].doc # Ended
      <4>1. CASE i = 1
        <5>1. h[i].kid = heap[1].kid /\ h[i].doc = d /\ heap[1].kid \in Kid
          BY <1>3, <2>2, <3>1, <4>1
        <5> QED
          BY <1>4, <1>7, <5>1
      <4>2. CASE i # 1
        <5>1. h[i].kid = heap[i].kid /\ h[i].doc = heap[i].doc /\ heap[i].kid # heap[1].kid
          BY <1>3, <2>2, <3>1, <4>2
        <5>2. heap[i].kid \in Kid /\ heap[i].doc = at[heap[i].kid] /\ heap[i].doc # Ended
          BY <1>3
        <5>3. new[heap[i].kid] = at[heap[i].kid]
          BY <1>4, <5>1, <5>2
        <5> QED
          BY <5>1, <5>2, <5>3
      <4> QED
        BY <4>1, <4>2
    <3>3. ASSUME NEW k \in Kid, new[k] # Ended
          PROVE  \E i \in 1..n : h[i].kid = k
      <4>1. CASE k = heap[1].kid
        BY <2>2, <3>1, <4>1
      <4>2. CASE k # heap[1].kid
        <5>1. at[k] # Ended
          BY <1>4, <3>3, <4>2
        <5>2. PICK i \in 1..n : heap[i].kid = k
          BY <1>3, <5>1
        <5> QED
          BY <2>2, <5>2
      <4> QED
        BY <4>1, <4>2
    <3> QED
      BY <2>3, <3>2, <3>3 DEF Agree
  <2>7. \A p \in 2..n, j \in 1..n : (j = 2 * p \/ j = 2 * p + 1) => h[p].doc <= h[j].doc
    <3> SUFFICES ASSUME NEW p \in 2..n, NEW j \in 1..n, j = 2 * p \/ j = 2 * p + 1
                 PROVE  h[p].doc <= h[j].doc
      OBVIOUS
    <3>1. p \in 1..n /\ p # 1 /\ j # 1
      BY <1>1
    <3>2. h[p].doc = heap[p].doc /\ h[j].doc = heap[j].doc
      BY <2>2, <3>1
    <3> QED
      BY <1>3, <3>1, <3>2
  <2> QED
    BY <1>1, <1>6, <2>4, <2>5, <2>6, <2>7
<1>8. CASE d = Ended
  <2> DEFINE h == SubSeq([heap EXCEPT ![1] = heap[n]], 1, n - 1)
  <2>1. h = [i \in 1..(n - 1) |-> IF i = 1 THEN heap[n] ELSE heap[i]]
    <3>1. heap \in Seq([kid : Nat, doc : Nat]) /\ n \in 1..n
      BY <1>1, NodesAre
    <3>2. [heap EXCEPT ![1] = heap[n]] = [i \in 1..n |-> IF i = 1 THEN heap[n] ELSE heap[i]]
      BY <1>1, <1>2
    <3>3. [heap EXCEPT ![1] = heap[n]] \in Seq([kid : Nat, doc : Nat])
      <4> DEFINE Node == [kid : Nat, doc : Nat]
      <4>1. heap \in [1..n -> Node]
        BY <1>1 DEF Nodes
      <4> HIDE DEF Node
      <4>2. heap[n] \in Node /\ \A i \in 1..n : heap[i] \in Node
        BY <3>1, <4>1
      <4>3. [i \in 1..n |-> IF i = 1 THEN heap[n] ELSE heap[i]] \in Seq(Node)
        BY <1>1, <4>2
      <4> QED
        BY <3>2, <4>3 DEF Node
    <3> DEFINE g == [heap EXCEPT ![1] = heap[n]]
    <3>4. Len(g) = n /\ \A i \in 1..n : g[i] = IF i = 1 THEN heap[n] ELSE heap[i]
      BY <1>1, <1>2
    <3> HIDE DEF g
    <3>5. SubSeq(g, 1, n - 1) = [i \in 1..(n - 1) |-> g[i]]
      BY <1>1, <3>3, <3>4 DEF g
    <3>6. [i \in 1..(n - 1) |-> g[i]] = [i \in 1..(n - 1) |-> IF i = 1 THEN heap[n] ELSE heap[i]]
      BY <1>1, <3>4
    <3> QED
      BY <3>5, <3>6 DEF g
  <2> HIDE DEF h
  <2>2. AdjustRoot(heap, d) = IF h = <<>> THEN <<>> ELSE SiftDown(h)
    BY <1>2, <1>8 DEF AdjustRoot, h
  <2>3. CASE n = 1
    <3>1. h = <<>>
      BY <2>1, <2>3
    <3>2. \A k \in Kid : new[k] = Ended
      BY <1>3, <1>4, <1>8, <2>3
    <3> QED
      BY <2>2, <3>1, <3>2, EmptyRight
  <2>4. CASE n # 1
    <3>1. n - 1 \in Nat /\ n - 1 # 0 /\ 1 \in 1..(n - 1) /\ n \in 1..n
      BY <1>1, <2>4
    <3>2. DOMAIN h = 1..(n - 1) /\ h # <<>>
      BY <2>1, <3>1
    <3>3. h \in Nodes(n - 1)
      BY <1>1, <2>1, <3>1 DEF Nodes
    <3>4. \A i \in 1..(n - 1) : h[i] = heap[IF i = 1 THEN n ELSE i]
      BY <2>1
    <3>5. \A i, j \in 1..(n - 1) : h[i].kid = h[j].kid => i = j
      <4> SUFFICES ASSUME NEW i \in 1..(n - 1), NEW j \in 1..(n - 1), h[i].kid = h[j].kid
                   PROVE  i = j
        OBVIOUS
      <4> DEFINE x == IF i = 1 THEN n ELSE i
                 y == IF j = 1 THEN n ELSE j
      <4>1. x \in 1..n /\ y \in 1..n /\ heap[x].kid = heap[y].kid
        BY <1>1, <3>1, <3>4
      <4>2. x = y
        BY <1>3, <4>1
      <4> QED
        BY <1>1, <4>2
    <3>6. Agree(h, new)
      <4>1. ASSUME NEW i \in 1..(n - 1)
            PROVE  h[i].kid \in Kid /\ h[i].doc = new[h[i].kid] /\ h[i].doc # Ended
        <5> DEFINE x == IF i = 1 THEN n ELSE i
        <5>1. x \in 1..n /\ x # 1 /\ h[i] = heap[x] /\ 1 \in 1..n
          BY <1>1, <3>1, <3>4
        <5> HIDE DEF x
        <5>2. heap[x].kid # heap[1].kid
          BY <1>3, <5>1
        <5> QED
          <6>1. heap[x].kid \in Kid /\ heap[x].doc = at[heap[x].kid] /\ heap[x].doc # Ended
            BY <1>3, <5>1
          <6>2. new[heap[x].kid] = at[heap[x].kid]
            BY <1>4, <5>2, <6>1
          <6> QED
            BY <5>1, <6>1, <6>2
      <4>2. ASSUME NEW k \in Kid, new[k] # Ended
            PROVE  \E i \in 1..(n - 1) : h[i].kid = k
        <5>1. PICK x \in 1..n : heap[x].kid = k
          BY <1>3, <1>4, <1>8, <4>2
        <5>2. x # 1
          BY <1>4, <1>8, <4>2, <5>1
        <5>3. CASE x = n
          BY <3>1, <3>4, <5>1, <5>3
        <5>4. CASE x # n
          <6>1. x \in 1..(n - 1) /\ h[x] = heap[x]
            BY <1>1, <3>4, <5>2, <5>4
          <6> QED
            BY <5>1, <6>1
        <5> QED
          BY <5>3, <5>4
      <4> QED
        BY <3>2, <4>1, <4>2 DEF Agree
    <3>7. \A p \in 2..(n - 1), j \in 1..(n - 1) :
             (j = 2 * p \/ j = 2 * p + 1) => h[p].doc <= h[j].doc
      <4> SUFFICES ASSUME NEW p \in 2..(n - 1), NEW j \in 1..(n - 1), j = 2 * p \/ j = 2 * p + 1
                   PROVE  h[p].doc <= h[j].doc
        OBVIOUS
      <4>1. p \in 1..n /\ j \in 1..n /\ p \in 1..(n - 1) /\ p # 1 /\ j # 1
        BY <1>1
      <4>2. h[p] = heap[p] /\ h[j] = heap[j]
        BY <3>4, <4>1
      <4> QED
        BY <1>3, <4>1, <4>2
    <3>8. IsHeap(h, n - 1)
      BY <3>3, <3>5 DEF IsHeap
    <3> QED
      BY <1>6, <2>2, <3>1, <3>2, <3>6, <3>7, <3>8
  <2> QED
    BY <2>3, <2>4
<1> QED
  BY <1>7, <1>8

-----------------------------------------------------------------------------
(* The inductive invariant                                                  *)

\* What the instances are: a Matcher has children, a RequiredOptionalScorer
\* two.
Parameters ==
    /\ DocMax \in Nat
    /\ \A pair \in Pairs :
          /\ pair[1] \in {"and", "phrase", "ormatcher", "orscorer", "not", "reqopt", "postings"}
          /\ pair[2] \in Seq(SUBSET DocId)
          /\ pair[1] # "postings" => pair[2] # <<>>
          /\ pair[1] = "reqopt" => Len(pair[2]) = 2

Labels ==
    \/ kind \in {"and", "phrase"} /\ pc \in {"idle", "seed", "scoot"}
    \/ kind = "ormatcher" /\ pc \in {"idle", "next", "advance"}
    \/ kind = "orscorer" /\ pc \in {"idle", "prime", "catchup", "current", "accumulate"}
    \/ kind = "not" /\ pc \in {"idle", "negate"}
    \/ kind = "reqopt" /\ pc \in {"idle", "require"}
    \/ kind = "postings" /\ pc \in {"idle", "segment", "try", "skip", "jump", "scan"}

Exhausted == asked # 0 /\ found = 0

\* What all classes but posting lists have in common.
Common ==
    /\ kids \in Seq(SUBSET DocId) /\ kids # <<>> /\ (kind = "reqopt" => Len(kids) = 2)
    /\ pos \in [Kid -> 0..Ended] /\ \A k \in Kid : pos[k] \in kids[k] \cup {0, Ended}
    /\ asked \in 0..Ended /\ found \in 0..DocMax
    /\ pc # "idle" => found < asked \/ pc = "prime"

\* No child has gone past a document from b on that it matches.
Behind(b) == \A k \in Kid : \A d \in kids[k] : d >= b => pos[k] <= d

\* No child of a conjunction has gone past a document on which all will agree.
NothingMissed ==
    \A d \in ConjunctionMeaning : d >= asked =>
        self.target <= d /\ self.highest <= d /\ \A k \in Kid : pos[k] <= d

AndRight ==
    /\ self \in [more : BOOLEAN, first : BOOLEAN, highest : 0..Ended, target : 0..Ended,
                 i : 1..(Len(kids) + 1), phrase : SUBSET DocId]
    /\ kind = "and" => self.phrase = DocId
    /\ self.first =>
          /\ \A k \in Kid : pos[k] = IF kind = "and" THEN AtFirst(k) ELSE 0
          /\ self.more <=> (kind = "phrase" \/ \A k \in Kid : kids[k] # {})
    /\ ~self.first /\ (pc = "seed" \/ (pc = "idle" /\ ~Exhausted)) =>
          self.more /\ found # 0 /\ \A k \in Kid : pos[k] = found
    /\ pc = "seed" => self.target = asked /\ self.highest = 0 /\ self.i = 1
    /\ pc = "scoot" =>
          /\ asked <= self.target /\ self.highest <= DocMax
          /\ ~self.first /\ self.more
          /\ \A k \in Kid : pos[k] \in kids[k]
          /\ NothingMissed

\* The children are where the heap says.
OrRight ==
    /\ self \in [heap : Seq([kid : Nat, doc : Nat]), doc : Nat, target : Nat, last : Nat]
    /\ HeapRight(self.heap, pos)
    /\ pc \in {"next", "advance", "prime", "accumulate"} => self.heap # <<>>

OrMatcherRight ==
    /\ pc = "idle" /\ ~Exhausted => self.heap # <<>> /\ Top.doc = found /\ Behind(found + 1)
    /\ pc # "idle" => Behind(asked) /\ self.target = asked
    /\ pc = "next" => self.last = found /\ asked = found + 1 /\ Top.doc >= found
    /\ pc = "advance" => Top.doc < asked

\* The scores taken so far: of the children that have gone past the document,
\* and of the one at the top.
Taken == {<<k, self.doc>> : k \in {c \in Kid : self.doc \in kids[c]
                                               /\ (pos[c] > self.doc \/ c = Top.kid)}}

OrScorerRight ==
    /\ pc = "prime" => asked = 0 /\ found = 0 /\ self.last = 0 /\ Behind(1)
    /\ pc = "idle" /\ ~Exhausted => Behind(found + 1) /\ \A k \in Kid : pos[k] > found
    /\ pc \in {"current", "catchup"} => Behind(asked) /\ self.target = asked
    /\ pc = "current" => \A k \in Kid : pos[k] >= asked
    /\ pc = "accumulate" =>
          /\ Top.doc = self.doc /\ self.doc \in DocId /\ self.doc = First(DisjunctionMeaning, asked)
          /\ Behind(self.doc + 1) /\ \A k \in Kid : pos[k] >= self.doc
          /\ parts = Taken

\* The next negation is where the child is, and no other comes before it.
NotRight ==
    /\ self \in [doc : 0..DocMax, nextNegation : 0..Ended, target : Nat]
    /\ self.nextNegation = pos[1]
    /\ \A d \in kids[1] : d > self.doc => pos[1] <= d
    /\ pc = "idle" /\ ~Exhausted => self.doc = found
    /\ pc = "negate" =>
          /\ asked <= self.doc + 1
          /\ \A d \in DocId \ kids[1] : d >= asked => d > self.doc

\* The optional matcher has not gone past a document that may still be scored.
ReqOptRight ==
    /\ self \in [firstTime : BOOLEAN, optional : BOOLEAN, scored : 0..DocMax, target : Nat]
    /\ self.optional <=> pos[2] # Ended
    /\ self.firstTime => pos[2] = 0
    /\ \A d \in kids[2] : d >= self.scored => pos[2] <= d
    /\ pc = "idle" /\ ~Exhausted => pos[1] = found /\ self.scored <= found
    /\ pc = "require" => pos[1] = found /\ self.scored <= found /\ self.target = asked

\* The classes of which the score is kept, and whether it is that of found.
Scored == kind \in {"and", "orscorer"} \/ (kind = "reqopt" /\ self.scored = found)
ScoreKept ==
    Scored /\ pc = "idle" /\ found # 0 =>
        parts = {<<k, found>> : k \in {c \in Kid : found \in kids[c]}}

MatchersInv ==
    /\ Labels /\ ~misuse
    /\ kind # "postings" => Common /\ ScoreKept
    /\ kind \in {"and", "phrase"} => AndRight
    /\ kind \in {"ormatcher", "orscorer"} => OrRight
    /\ kind = "ormatcher" => OrMatcherRight
    /\ kind = "orscorer" => OrScorerRight
    /\ kind = "not" => NotRight
    /\ kind = "reqopt" => ReqOptRight

\* What a step of a call may give the client.
Answered == found' = found \/ found' = First(Meaning, asked)

LEMMA KidsAre ==
  ASSUME DocMax \in Nat, Common
  PROVE  /\ Kid = 1..Len(kids) /\ Len(kids) \in Nat /\ 1 \in Kid /\ Kid \subseteq Nat
         /\ \A k \in Kid : kids[k] \in SUBSET DocId /\ kids[k] \in SUBSET Nat
         /\ Ended \in Nat /\ Ended = DocMax + 1 /\ DocId \subseteq Nat
         /\ \A k \in Kid : pos[k] \in Nat /\ pos[k] \in 0..Ended
         /\ \A k \in Kid : \A d \in kids[k] : d \in Nat /\ 1 <= d /\ d <= DocMax
<1>1. kids \in Seq(SUBSET DocId) /\ kids # <<>> /\ Kid = DOMAIN kids /\ pos \in [Kid -> 0..Ended]
  BY DEF Common, Kid
<1> DEFINE S == SUBSET DocId
<1>2. kids \in Seq(S)
  BY <1>1
<1> HIDE DEF S
<1>3. Kid = 1..Len(kids) /\ Len(kids) \in Nat /\ Len(kids) # 0 /\ \A k \in Kid : kids[k] \in S
  BY <1>1, <1>2
<1>4. DocId \subseteq Nat /\ Ended \in Nat /\ Ended = DocMax + 1
  BY DEF DocId, Ended
<1>5. \A k \in Kid : kids[k] \in SUBSET DocId
  BY <1>3 DEF S
<1>6. \A k \in Kid : \A d \in kids[k] : d \in DocId
  BY <1>5
<1>7. \A d \in DocId : d \in Nat /\ 1 <= d /\ d <= DocMax
  BY DEF DocId
<1>8. \A k \in Kid : pos[k] \in Nat /\ pos[k] \in 0..Ended
  BY <1>1, <1>4
<1>9. \A k \in Kid : kids[k] \in SUBSET Nat
  BY <1>4, <1>5
<1>10. \A k \in Kid : \A d \in kids[k] : d \in Nat /\ 1 <= d /\ d <= DocMax
  BY <1>6, <1>7
<1>11. 1 \in Kid /\ Kid \subseteq Nat
  BY <1>3
<1> QED
  BY <1>3, <1>4, <1>5, <1>8, <1>9, <1>10, <1>11

\* Where a child gets to.
LEMMA AtIs ==
  ASSUME DocMax \in Nat, Common, NEW k \in Kid, NEW t \in Nat
  PROVE  /\ At(k, t) \in Nat /\ At(k, t) \in kids[k] \cup {Ended} /\ At(k, t) \in 0..Ended
         /\ At(k, t) = Ended => First(kids[k], t) = 0 /\ \A d \in kids[k] : d < t
         /\ At(k, t) # Ended => First(kids[k], t) = At(k, t) /\ At(k, t) >= t
         /\ \A d \in kids[k] : d >= t => At(k, t) <= d
         /\ t <= Ended => At(k, t) >= t
         /\ First(kids[k], t) = 0 <=> At(k, t) = Ended
<1>1. /\ kids[k] \in SUBSET Nat /\ Ended \in Nat /\ Ended = DocMax + 1
      /\ \A d \in kids[k] : d \in Nat /\ 1 <= d /\ d <= DocMax
  BY KidsAre
<1> DEFINE f == First(kids[k], t)
<1>2. \/ f = 0 /\ \A d \in kids[k] : d < t
      \/ f \in kids[k] /\ f >= t /\ \A d \in kids[k] : d >= t => f <= d
  BY <1>1, FirstIs
<1>3. At(k, t) = IF f = 0 THEN Ended ELSE f
  BY DEF At
<1> HIDE DEF f
<1>4. CASE f = 0
  <2>1. At(k, t) = Ended /\ \A d \in kids[k] : d < t
    BY <1>1, <1>2, <1>3, <1>4
  <2>2. \A d \in kids[k] : ~ (d >= t)
    BY <1>1, <2>1
  <2> QED
    BY <1>1, <1>4, <2>1, <2>2 DEF f
<1>5. CASE f # 0
  <2>1. /\ At(k, t) = f /\ f \in kids[k] /\ f >= t /\ f \in Nat /\ f <= DocMax
        /\ \A d \in kids[k] : d >= t => f <= d
    BY <1>1, <1>2, <1>3, <1>5
  <2>2. f # Ended /\ f \in 0..Ended
    BY <1>1, <2>1
  <2> QED
    BY <1>5, <2>1, <2>2 DEF f
<1> QED
  BY <1>4, <1>5

\* A child that is asked as Matcher.bp requires goes on, the others stay.
LEMMA Asked ==
  ASSUME DocMax \in Nat, Common, ~misuse, NEW k \in Kid, NEW t \in Nat, t <= Ended,
         pos[k] < t, Ask(k, t)
  PROVE  /\ ~misuse'
         /\ pos' = [pos EXCEPT ![k] = At(k, t)]
         /\ pos' \in [Kid -> 0..Ended]
         /\ \A j \in Kid : pos'[j] \in kids[j] \cup {0, Ended}
         /\ pos'[k] = At(k, t) /\ pos'[k] >= t
         /\ \A j \in Kid : j # k => pos'[j] = pos[j]
<1>1. pos \in [Kid -> 0..Ended] /\ \A j \in Kid : pos[j] \in kids[j] \cup {0, Ended}
  BY DEF Common
<1>2. pos' = [pos EXCEPT ![k] = At(k, t)]
  BY DEF Ask
<1>3. At(k, t) \in kids[k] \cup {Ended} /\ At(k, t) \in 0..Ended /\ At(k, t) >= t
  BY AtIs
<1>4. pos[k] # Ended /\ ~ (t <= pos[k])
  <2>1. pos[k] \in Nat /\ Ended \in Nat
    BY KidsAre
  <2> QED
    BY <2>1
<1>5. ~misuse'
  BY <1>4 DEF Ask
<1> QED
  BY <1>1, <1>2, <1>3, <1>5

-----------------------------------------------------------------------------
(* NOTScorer                                                                *)

LEMMA NotStep ==
  ASSUME DocMax \in Nat, MatchersInv, kind = "not", Negate
  PROVE  MatchersInv' /\ Answered
<1> DEFINE doc == self.doc + 1
           negation == IF Stale(doc) THEN At(1, doc) ELSE self.nextNegation
<1>1. Common /\ NotRight /\ ~misuse /\ pc = "negate"
  BY DEF MatchersInv, Negate
<1>2. /\ kind' = kind /\ kids' = kids /\ asked' = asked /\ parts' = parts
      /\ IF Stale(doc) THEN Ask(1, doc) ELSE UNCHANGED <<pos, misuse>>
      /\ self' = [self EXCEPT !.doc = IF doc > DocMax THEN DocMax ELSE doc,
                              !.nextNegation = negation]
      /\ \/ doc > DocMax /\ pc' = "idle" /\ found' = 0
         \/ doc <= DocMax /\ doc # negation /\ pc' = "idle" /\ found' = doc
         \/ doc <= DocMax /\ doc = negation /\ pc' = "negate" /\ found' = found
  BY DEF Negate, client, child, Return, Goto
<1>3. /\ 1 \in Kid /\ kids[1] \in SUBSET DocId /\ Ended \in Nat /\ Ended = DocMax + 1
      /\ pos[1] \in Nat /\ \A d \in kids[1] : d \in Nat /\ 1 <= d /\ d <= DocMax
  BY <1>1, KidsAre
<1>4. /\ self \in [doc : 0..DocMax, nextNegation : 0..Ended, target : Nat]
      /\ self.nextNegation = pos[1] /\ self.doc \in 0..DocMax
      /\ \A d \in kids[1] : d > self.doc => pos[1] <= d
      /\ asked <= doc /\ \A d \in DocId \ kids[1] : d >= asked => d > self.doc
      /\ asked \in 0..Ended /\ found \in 0..DocMax /\ found < asked
  BY <1>1 DEF NotRight, Common
<1>5. doc \in Nat /\ 1 <= doc /\ doc <= Ended
  BY <1>3, <1>4
<1>6. /\ ~misuse' /\ pos' \in [Kid -> 0..Ended]
      /\ \A j \in Kid : pos'[j] \in kids[j] \cup {0, Ended}
      /\ pos'[1] = negation /\ pos'[1] >= doc
      /\ \A d \in kids[1] : d >= doc => pos'[1] <= d
  <2> HIDE DEF doc
  <2>1. CASE Stale(doc)
    <3>1. pos[1] < doc /\ Ask(1, doc) /\ negation = At(1, doc)
      BY <1>2, <1>4, <2>1 DEF Stale
    <3>2. \A d \in kids[1] : d >= doc => At(1, doc) <= d
      BY <1>1, <1>3, <1>5, AtIs
    <3> QED
      BY <1>1, <1>3, <1>5, <3>1, <3>2, Asked
  <2>2. CASE ~Stale(doc)
    <3>1. pos[1] >= doc /\ UNCHANGED <<pos, misuse>> /\ negation = pos[1]
      BY <1>2, <1>3, <1>4, <1>5, <2>2 DEF Stale
    <3>2. \A d \in kids[1] : d >= doc => pos[1] <= d
      BY <1>3, <1>4 DEF doc
    <3> QED
      BY <1>1, <3>1, <3>2 DEF Common
  <2> QED
    BY <2>1, <2>2
<1>7. pos'[1] \in 0..Ended
  BY <1>3, <1>6
<1>8. \A d \in DocId \ kids[1] : d >= asked => d >= doc
  BY <1>3, <1>4 DEF DocId
<1>9. doc <= DocMax => (doc = negation <=> doc \in kids[1])
  BY <1>3, <1>5, <1>6
<1>10. Meaning = DocId \ kids[1] /\ Meaning \in SUBSET Nat
  BY DEF Meaning, ExclusionMeaning, DocId
<1>11. self' = [doc |-> IF doc > DocMax THEN DocMax ELSE doc, nextNegation |-> negation,
                target |-> self.target]
  BY <1>2, <1>4
<1> HIDE DEF doc, negation
<1>12. /\ self'.doc = (IF doc > DocMax THEN DocMax ELSE doc) /\ self'.nextNegation = negation
       /\ self' \in [doc : 0..DocMax, nextNegation : 0..Ended, target : Nat]
  BY <1>3, <1>4, <1>5, <1>6, <1>7, <1>11
<1>13. \A d \in kids[1] : d > self'.doc => pos'[1] <= d
  BY <1>3, <1>5, <1>6, <1>12
<1>14. pc' \in {"idle", "negate"} /\ found' \in 0..DocMax /\ (pc' # "idle" => found' < asked)
  BY <1>2, <1>4, <1>5
<1>15. Common' /\ Labels' /\ ~misuse' /\ ScoreKept'
  BY <1>1, <1>2, <1>6, <1>14 DEF Common, Labels, ScoreKept, Scored, Ended, Kid, DocId
<1>16. /\ pc' = "idle" /\ ~Exhausted' => self'.doc = found'
       /\ pc' = "negate" => /\ asked <= self'.doc + 1
                            /\ \A d \in DocId \ kids[1] : d >= asked => d > self'.doc
  <2>1. ASSUME doc <= DocMax, doc = negation, NEW d \in DocId \ kids[1], d >= asked
        PROVE  d > doc
    <3>1. d >= doc /\ doc \in kids[1] /\ d # doc /\ d \in Nat
      BY <1>8, <1>9, <2>1 DEF DocId
    <3> QED
      BY <1>5, <3>1
  <2>2. self'.doc = doc \/ (doc > DocMax /\ pc' = "idle" /\ found' = 0)
    BY <1>2, <1>5, <1>12
  <2>3. asked # 0
    BY <1>4
  <2> QED
    BY <1>2, <1>4, <1>5, <2>1, <2>2, <2>3 DEF Exhausted
<1>17. NotRight'
  BY <1>2, <1>6, <1>12, <1>13, <1>16 DEF NotRight, Ended, DocId, Exhausted
<1>18. Answered
  <2>1. CASE doc > DocMax
    <3>1. \A e \in Meaning : e < asked
      BY <1>3, <1>4, <1>5, <1>8, <1>10, <2>1 DEF DocId
    <3>2. First(Meaning, asked) = 0
      BY <1>4, <1>10, <3>1, FirstIsNone
    <3> QED
      BY <1>2, <1>3, <1>5, <2>1, <3>2 DEF Answered
  <2>2. CASE doc <= DocMax /\ doc # negation
    <3>1. doc \in Meaning /\ doc >= asked
      BY <1>4, <1>5, <1>9, <1>10, <2>2 DEF DocId, doc
    <3>2. \A e \in Meaning : e >= asked => doc <= e
      BY <1>5, <1>8, <1>10 DEF DocId
    <3>3. First(Meaning, asked) = doc
      BY <1>4, <1>10, <3>1, <3>2, FirstIsLeast
    <3> QED
      BY <1>2, <1>5, <2>2, <3>3 DEF Answered
  <2>3. CASE doc <= DocMax /\ doc = negation
    BY <1>2, <1>5, <2>3 DEF Answered
  <2> QED
    BY <1>5, <2>1, <2>2, <2>3
<1> QED
  BY <1>2, <1>15, <1>17, <1>18 DEF MatchersInv

-----------------------------------------------------------------------------
(* RequiredOptionalScorer                                                   *)

LEMMA RequireStep ==
  ASSUME DocMax \in Nat, MatchersInv, kind = "reqopt", Require
  PROVE  MatchersInv' /\ Answered
<1>1. Common /\ ReqOptRight /\ ~misuse /\ pc = "require"
  BY DEF MatchersInv, Require
<1>2. /\ kind' = kind /\ kids' = kids /\ asked' = asked /\ parts' = parts /\ self' = self
      /\ Ask(1, asked) /\ pc' = "idle" /\ found' = First(kids[1], asked)
      /\ pos[1] = found /\ self.scored <= found
  BY <1>1 DEF Require, client, Return, Target, ReqOptRight
<1>3. /\ 1 \in Kid /\ 2 \in Kid /\ kids[1] \in SUBSET Nat /\ Ended \in Nat /\ Ended = DocMax + 1
      /\ asked \in Nat /\ asked <= Ended /\ found < asked /\ found \in Nat
      /\ self.scored \in Nat
      /\ \A d \in kids[1] : d \in Nat /\ 1 <= d /\ d <= DocMax
  BY <1>1, KidsAre DEF Common, ReqOptRight
<1>4. /\ ~misuse' /\ pos' \in [Kid -> 0..Ended]
      /\ \A j \in Kid : pos'[j] \in kids[j] \cup {0, Ended}
      /\ pos'[1] = At(1, asked) /\ pos'[2] = pos[2]
  <2>1. pos[1] < asked
    BY <1>2, <1>3
  <2> QED
    BY <1>1, <1>2, <1>3, <2>1, Asked
<1>5. /\ found' \in 0..DocMax
      /\ found' # 0 => pos'[1] = found' /\ found' >= asked
  <2>1. /\ At(1, asked) \in kids[1] \cup {Ended}
        /\ At(1, asked) # Ended => First(kids[1], asked) = At(1, asked) /\ At(1, asked) >= asked
        /\ First(kids[1], asked) = 0 <=> At(1, asked) = Ended
    BY <1>1, <1>3, AtIs
  <2>2. CASE At(1, asked) = Ended
    BY <1>2, <1>3, <2>1, <2>2
  <2>3. CASE At(1, asked) # Ended
    <3>1. found' = At(1, asked) /\ found' \in kids[1] /\ found' >= asked
      BY <1>2, <2>1, <2>3
    <3> QED
      BY <1>3, <1>4, <3>1
  <2> QED
    BY <2>2, <2>3
<1>6. found' # 0 => self.scored < found'
  BY <1>2, <1>3, <1>5
<1>7. Common' /\ Labels' /\ ScoreKept'
  BY <1>1, <1>2, <1>3, <1>4, <1>5, <1>6 DEF Common, Labels, ScoreKept, Scored, Ended, Kid, DocId
<1>8. ReqOptRight'
  <2>1. asked # 0
    BY <1>3
  <2>2. self.scored <= found' \/ found' = 0
    BY <1>3, <1>5, <1>6
  <2> QED
    BY <1>1, <1>2, <1>4, <1>5, <2>1, <2>2 DEF ReqOptRight, Exhausted, Ended
<1>9. Answered
  BY <1>2 DEF Answered, Meaning, ExclusionMeaning
<1> QED
  BY <1>2, <1>4, <1>7, <1>8, <1>9 DEF MatchersInv

LEMMA ScoreStep ==
  ASSUME DocMax \in Nat, MatchersInv, kind = "reqopt", Score
  PROVE  MatchersInv' /\ Answered
<1>1. Common /\ ReqOptRight /\ ~misuse /\ pc = "idle" /\ found # 0
  BY DEF MatchersInv, Score
<1>2. /\ kind' = kind /\ kids' = kids /\ asked' = asked /\ pc' = pc /\ found' = found
      /\ IF OptionalDue THEN Ask(2, pos[1]) ELSE UNCHANGED <<pos, misuse>>
      /\ self' = [self EXCEPT !.firstTime = FALSE, !.scored = pos[1],
                              !.optional = @ /\ pos'[2] # Ended]
      /\ parts' = {<<k, pos'[k]>> : k \in IF self'.optional /\ pos'[2] = pos[1]
                                          THEN {1, 2} ELSE {1}}
  BY <1>1 DEF Score, client, child
<1>3. /\ pos[1] = found /\ self.scored <= found
      /\ self \in [firstTime : BOOLEAN, optional : BOOLEAN, scored : 0..DocMax, target : Nat]
      /\ self.optional <=> pos[2] # Ended
      /\ self.firstTime => pos[2] = 0
      /\ \A d \in kids[2] : d >= self.scored => pos[2] <= d
      /\ found \in 0..DocMax
  BY <1>1 DEF ReqOptRight, Exhausted, Common
<1>4. /\ 1 \in Kid /\ 2 \in Kid /\ Kid = {1, 2} /\ Ended \in Nat /\ Ended = DocMax + 1
      /\ \A k \in Kid : \A d \in kids[k] : d \in Nat /\ 1 <= d /\ d <= DocMax
      /\ pos[2] \in Nat /\ found \in Nat /\ found <= DocMax /\ self.scored \in Nat
  <2>1. Kid = 1..2
    BY <1>1, KidsAre DEF Common
  <2> QED
    BY <1>1, <1>3, <2>1, KidsAre
<1>5. /\ ~misuse' /\ pos' \in [Kid -> 0..Ended]
      /\ \A j \in Kid : pos'[j] \in kids[j] \cup {0, Ended}
      /\ pos'[1] = found /\ pos'[2] \in Nat
      /\ \A d \in kids[2] : d >= found => pos'[2] <= d
      /\ pos'[2] >= found
      /\ pos[2] = Ended => pos'[2] = Ended
  <2>1. CASE OptionalDue
    <3>1. pos[2] < found /\ Ask(2, found) /\ pos[2] # Ended
      BY <1>1, <1>2, <1>3, <1>4, <2>1 DEF OptionalDue
    <3>2. /\ ~misuse' /\ pos' \in [Kid -> 0..Ended]
          /\ \A j \in Kid : pos'[j] \in kids[j] \cup {0, Ended}
          /\ pos'[2] = At(2, found) /\ pos'[1] = pos[1]
      BY <1>1, <1>4, <3>1, Asked
    <3>3. At(2, found) \in Nat /\ At(2, found) >= found /\ \A d \in kids[2] : d >= found => At(2, found) <= d
      BY <1>1, <1>4, AtIs
    <3> QED
      BY <1>3, <3>1, <3>2, <3>3
  <2>2. CASE ~OptionalDue
    <3>1. pos' = pos /\ misuse' = misuse
      BY <1>2, <2>2
    <3>2. pos[2] >= found
      BY <1>3, <1>4, <2>2 DEF OptionalDue
    <3>3. \A d \in kids[2] : d >= found => pos[2] <= d
      BY <1>3, <1>4
    <3> QED
      BY <1>1, <1>3, <1>4, <3>1, <3>2, <3>3 DEF Common
  <2> QED
    BY <2>1, <2>2
<1>6. self' = [firstTime |-> FALSE, optional |-> self.optional /\ pos'[2] # Ended,
               scored |-> found, target |-> self.target]
  BY <1>2, <1>3
<1>7. /\ self'.firstTime = FALSE /\ self'.scored = found
      /\ self'.optional <=> pos'[2] # Ended
  BY <1>3, <1>5, <1>6
<1>8. self' \in [firstTime : BOOLEAN, optional : BOOLEAN, scored : 0..DocMax, target : Nat]
  BY <1>3, <1>6
<1>9. ReqOptRight'
  BY <1>1, <1>2, <1>4, <1>5, <1>7, <1>8 DEF ReqOptRight, Exhausted, Ended
<1>10. parts' = {<<k, found>> : k \in {c \in Kid : found \in kids[c]}}
  <2>1. found \in kids[1]
    BY <1>1, <1>3, <1>4, <1>5
  <2>2. (self'.optional /\ pos'[2] = pos[1]) <=> found \in kids[2]
    <3>1. ASSUME found \in kids[2] PROVE pos'[2] = found /\ pos'[2] # Ended
      BY <1>4, <1>5, <3>1
    <3>2. ASSUME pos'[2] = found PROVE found \in kids[2]
      BY <1>1, <1>4, <1>5, <3>2
    <3> QED
      BY <1>3, <1>7, <3>1, <3>2
  <2>3. CASE found \in kids[2]
    <3>1. parts' = {<<k, pos'[k]>> : k \in {1, 2}} /\ pos'[1] = found /\ pos'[2] = found
      BY <1>2, <1>3, <1>5, <2>2, <2>3
    <3>2. {c \in Kid : found \in kids[c]} = {1, 2}
      BY <1>4, <2>1, <2>3
    <3> QED
      BY <3>1, <3>2
  <2>4. CASE found \notin kids[2]
    <3>1. parts' = {<<k, pos'[k]>> : k \in {1}} /\ pos'[1] = found
      BY <1>2, <1>5, <2>2, <2>4
    <3>2. {c \in Kid : found \in kids[c]} = {1}
      BY <1>4, <2>1, <2>4
    <3> QED
      BY <3>1, <3>2
  <2> QED
    BY <2>3, <2>4
<1>11. Common' /\ Labels' /\ ScoreKept'
  BY <1>1, <1>2, <1>5, <1>10 DEF Common, Labels, ScoreKept, Ended, Kid, DocId
<1>12. Answered
  BY <1>2 DEF Answered
<1> QED
  BY <1>2, <1>5, <1>9, <1>11, <1>12 DEF MatchersInv

-----------------------------------------------------------------------------
(* ANDScorer and PhraseScorer                                               *)

\* What a step of a conjunction has to show.
LEMMA ConjunctionKeeps ==
  ASSUME DocMax \in Nat, MatchersInv, kind \in {"and", "phrase"},
         kind' = kind, kids' = kids, asked' = asked, ~misuse',
         pos' \in [Kid -> 0..Ended], \A j \in Kid : pos'[j] \in kids[j] \cup {0, Ended},
         \/ pc' = "scoot" /\ found' = found /\ pc # "idle"
         \/ pc' = "idle" /\ found' \in 0..DocMax,
         AndRight', ScoreKept'
  PROVE  MatchersInv'
<1>1. Common
  BY DEF MatchersInv
<1>2. pc' \in {"idle", "scoot"} /\ found' \in 0..DocMax /\ (pc' # "idle" => found' < asked)
  <2>1. pc # "idle" => found < asked \/ pc = "prime"
    BY <1>1 DEF Common
  <2>2. pc # "prime"
    BY DEF MatchersInv, Labels
  <2> QED
    BY <1>1, <2>1, <2>2 DEF Common
<1>3. Common'
  BY <1>1, <1>2 DEF Common, Ended, Kid, DocId
<1> QED
  BY <1>2, <1>3 DEF MatchersInv, Labels

LEMMA ConjunctionIs ==
  ASSUME DocMax \in Nat, MatchersInv, kind \in {"and", "phrase"}
  PROVE  /\ Common /\ AndRight /\ ~misuse
         /\ Meaning = ConjunctionMeaning /\ ConjunctionMeaning \in SUBSET Nat
         /\ \A d \in ConjunctionMeaning : d \in DocId /\ d \in self.phrase /\ \A k \in Kid : d \in kids[k]
         /\ asked \in Nat /\ asked <= Ended /\ found \in Nat /\ found <= DocMax
         /\ pc # "idle" => found < asked /\ asked # 0
<1>1. Common /\ AndRight /\ ~misuse /\ pc # "prime"
  BY DEF MatchersInv, Labels
<1>2. Meaning = ConjunctionMeaning
  BY DEF Meaning
<1>3. self.phrase \subseteq DocId
  BY <1>1 DEF AndRight
<1>4. DocId \subseteq Nat /\ Ended \in Nat
  BY <1>1, KidsAre
<1>5. asked \in Nat /\ asked <= Ended /\ found \in Nat /\ found <= DocMax /\ (pc # "idle" => found < asked)
  BY <1>1, <1>4 DEF Common
<1>6. \A d \in ConjunctionMeaning : d \in DocId /\ d \in self.phrase /\ \A k \in Kid : d \in kids[k]
  BY <1>3 DEF ConjunctionMeaning
<1>7. ConjunctionMeaning \in SUBSET Nat
  BY <1>4, <1>6
<1>8. found < asked => asked # 0
  BY <1>5
<1> QED
  BY <1>1, <1>2, <1>5, <1>6, <1>7, <1>8

\* The first child is sent on.
LEMMA SeedsWith ==
  ASSUME DocMax \in Nat, MatchersInv, kind \in {"and", "phrase"},
         pc = "seed", ~self.first, NEW t \in Nat, found < t, t <= asked,
         SeedWith(t), UNCHANGED <<client, parts>>
  PROVE  MatchersInv' /\ Answered
<1> DEFINE d == First(kids[1], t)
<1>1. /\ kind' = kind /\ kids' = kids /\ asked' = asked /\ parts' = parts
      /\ Ask(1, t) /\ self' = [self EXCEPT !.highest = d, !.more = d # 0]
      /\ IF d = 0 THEN pc' = "idle" /\ found' = 0 ELSE pc' = "scoot" /\ found' = found
  BY DEF SeedWith, client, Return, Goto
<1>2. /\ Common /\ AndRight /\ ~misuse
      /\ Meaning = ConjunctionMeaning /\ ConjunctionMeaning \in SUBSET Nat
      /\ \A e \in ConjunctionMeaning : \A k \in Kid : e \in kids[k]
      /\ asked \in Nat /\ asked <= Ended /\ found \in Nat /\ found <= DocMax /\ asked # 0
  BY ConjunctionIs
<1>3. /\ 1 \in Kid /\ Kid = 1..Len(kids) /\ Len(kids) \in Nat /\ Ended = DocMax + 1 /\ Ended \in Nat
      /\ \A k \in Kid : \A e \in kids[k] : e \in Nat /\ 1 <= e /\ e <= DocMax
  BY <1>2, KidsAre
<1>4. /\ self \in [more : BOOLEAN, first : BOOLEAN, highest : 0..Ended, target : 0..Ended,
                   i : 1..(Len(kids) + 1), phrase : SUBSET DocId]
      /\ kind = "and" => self.phrase = DocId
      /\ self.more /\ found # 0 /\ \A k \in Kid : pos[k] = found
      /\ self.target = asked
  BY <1>2 DEF AndRight
<1>5. \A k \in Kid : pos[k] \in kids[k]
  BY <1>2, <1>3, <1>4 DEF Common
<1>6. pos[1] < t /\ t <= Ended
  BY <1>2, <1>3, <1>4
<1>7. /\ ~misuse' /\ pos' \in [Kid -> 0..Ended]
      /\ \A j \in Kid : pos'[j] \in kids[j] \cup {0, Ended}
      /\ pos'[1] = At(1, t) /\ \A j \in Kid : j # 1 => pos'[j] = pos[j]
  BY <1>1, <1>2, <1>3, <1>6, Asked
<1>8. /\ d = 0 => \A e \in kids[1] : e < t
      /\ d # 0 => d = At(1, t) /\ d \in kids[1]
      /\ \A e \in kids[1] : e >= t => At(1, t) <= e
  <2>1. /\ At(1, t) \in kids[1] \cup {Ended}
        /\ At(1, t) = Ended => \A e \in kids[1] : e < t
        /\ At(1, t) # Ended => d = At(1, t)
        /\ d = 0 <=> At(1, t) = Ended
        /\ \A e \in kids[1] : e >= t => At(1, t) <= e
    BY <1>2, <1>3, AtIs
  <2> QED
    BY <2>1
<1>9. self' = [more |-> d # 0, first |-> self.first, highest |-> d, target |-> self.target,
               i |-> self.i, phrase |-> self.phrase]
  BY <1>1, <1>4
<1>10. d \in 0..Ended /\ (d # 0 => d <= DocMax)
  BY <1>3, <1>8
<1>11. ConjunctionMeaning' = ConjunctionMeaning
  BY <1>1, <1>9 DEF ConjunctionMeaning, Kid
<1> HIDE DEF d
<1>12. /\ self'.more = (d # 0) /\ self'.first = self.first /\ self'.highest = d
       /\ self'.target = self.target /\ self'.phrase = self.phrase
       /\ self' \in [more : BOOLEAN, first : BOOLEAN, highest : 0..Ended, target : 0..Ended,
                     i : 1..(Len(kids) + 1), phrase : SUBSET DocId]
  BY <1>4, <1>9, <1>10
<1>13. CASE d = 0
  <2>1. pc' = "idle" /\ found' = 0 /\ Exhausted'
    BY <1>1, <1>2, <1>13 DEF Exhausted
  <2>2. AndRight'
    BY <1>1, <1>4, <1>12, <2>1 DEF AndRight, Ended, Kid, DocId
  <2>3. \A e \in Meaning : e < asked
    BY <1>2, <1>3, <1>8, <1>13
  <2>4. Answered
    BY <1>2, <2>1, <2>3, FirstIsNone DEF Answered
  <2>5. ScoreKept'
    BY <2>1 DEF ScoreKept
  <2> QED
    BY <1>1, <1>7, <2>1, <2>2, <2>4, <2>5, ConjunctionKeeps
<1>14. CASE d # 0
  <2>1. pc' = "scoot" /\ found' = found
    BY <1>1, <1>14
  <2>2. \A k \in Kid : pos'[k] \in kids[k]
    BY <1>5, <1>7, <1>8, <1>14
  <2>3. ASSUME NEW e \in ConjunctionMeaning, e >= asked
        PROVE  asked <= e /\ d <= e /\ \A k \in Kid : pos'[k] <= e
    <3>1. e \in Nat /\ e >= t /\ e >= found /\ e \in kids[1]
      BY <1>2, <1>3, <2>3
    <3>2. d <= e /\ pos'[1] <= e
      BY <1>7, <1>8, <1>14, <3>1
    <3> QED
      BY <1>4, <1>7, <2>3, <3>1, <3>2
  <2>4. NothingMissed'
    BY <1>1, <1>4, <1>11, <1>12, <2>3 DEF NothingMissed, Kid
  <2>5. AndRight'
    <3>1. asked <= self'.target /\ self'.highest <= DocMax
      BY <1>2, <1>4, <1>10, <1>12, <1>14
    <3> QED
      BY <1>1, <1>4, <1>12, <1>14, <2>1, <2>2, <2>4, <3>1 DEF AndRight, Ended, Kid, DocId
  <2>6. ScoreKept' /\ Answered
    BY <2>1 DEF ScoreKept, Answered
  <2> QED
    BY <1>1, <1>7, <2>1, <2>5, <2>6, ConjunctionKeeps
<1> QED
  BY <1>13, <1>14

\* What the children are at when each is at its first document.
LEMMA AtFirsts ==
  ASSUME DocMax \in Nat, Common
  PROVE  /\ [k \in Kid |-> AtFirst(k)] \in [Kid -> 0..Ended]
         /\ \A k \in Kid : AtFirst(k) \in kids[k] \cup {Ended} /\ AtFirst(k) \in Nat
         /\ \A k \in Kid : kids[k] # {} => AtFirst(k) \in kids[k]
         /\ \A k \in Kid : \A d \in kids[k] : AtFirst(k) <= d
<1>1. Ended \in Nat /\ Ended = DocMax + 1
      /\ \A k \in Kid : \A d \in kids[k] : d \in Nat /\ 1 <= d /\ d <= DocMax
  BY KidsAre
<1>2. ASSUME NEW k \in Kid
      PROVE  /\ AtFirst(k) \in Nat /\ AtFirst(k) \in 0..Ended /\ AtFirst(k) \in kids[k] \cup {Ended}
             /\ AtFirst(k) = Ended => \A d \in kids[k] : d < 1
             /\ \A d \in kids[k] : d >= 1 => AtFirst(k) <= d
  BY AtIs DEF AtFirst
<1>3. ASSUME NEW k \in Kid, kids[k] # {} PROVE AtFirst(k) \in kids[k]
  <2>1. PICK d \in kids[k] : TRUE
    BY <1>3
  <2>2. ~ (d < 1)
    BY <1>1
  <2> QED
    BY <1>2, <2>1, <2>2
<1>4. ASSUME NEW k \in Kid, NEW d \in kids[k] PROVE AtFirst(k) <= d
  <2>1. d >= 1
    BY <1>1
  <2> QED
    BY <1>2, <2>1
<1> QED
  BY <1>2, <1>3, <1>4

\* All children are at their first documents, and the loop begins, or a
\* child has none.
LEMMA SeedsAll ==
  ASSUME DocMax \in Nat, MatchersInv, kind \in {"and", "phrase"}, pc = "seed", self.first,
         kind' = kind, kids' = kids, asked' = asked, misuse' = misuse, parts' = parts,
         pos' = [k \in Kid |-> AtFirst(k)],
         NEW h \in 0..Ended, \E k \in Kid : h = 0 \/ h = AtFirst(k),
         IF \E k \in Kid : kids[k] = {} THEN pc' = "idle" /\ found' = 0 ELSE pc' = "scoot" /\ found' = found,
         self' = [self EXCEPT !.first = IF kind = "phrase" \/ pc' = "scoot" THEN FALSE ELSE @,
                              !.highest = h]
  PROVE  MatchersInv' /\ Answered
<1>1. /\ Common /\ AndRight /\ ~misuse
      /\ Meaning = ConjunctionMeaning /\ ConjunctionMeaning \in SUBSET Nat
      /\ \A e \in ConjunctionMeaning : \A k \in Kid : e \in kids[k]
      /\ asked \in Nat /\ asked <= Ended /\ found \in Nat /\ found <= DocMax /\ asked # 0
  BY ConjunctionIs
<1>2. /\ 1 \in Kid /\ Kid = 1..Len(kids) /\ Len(kids) \in Nat /\ Ended = DocMax + 1 /\ Ended \in Nat
      /\ \A k \in Kid : \A e \in kids[k] : e \in Nat /\ 1 <= e /\ e <= DocMax
  BY <1>1, KidsAre
<1>3. /\ self \in [more : BOOLEAN, first : BOOLEAN, highest : 0..Ended, target : 0..Ended,
                   i : 1..(Len(kids) + 1), phrase : SUBSET DocId]
      /\ kind = "and" => self.phrase = DocId
      /\ self.more <=> (kind = "phrase" \/ \A k \in Kid : kids[k] # {})
      /\ self.target = asked
      /\ \A k \in Kid : pos[k] = IF kind = "and" THEN AtFirst(k) ELSE 0
  BY <1>1 DEF AndRight
<1>4. /\ pos' \in [Kid -> 0..Ended]
      /\ \A k \in Kid : pos'[k] = AtFirst(k)
      /\ \A k \in Kid : AtFirst(k) \in kids[k] \cup {Ended} /\ AtFirst(k) \in Nat
      /\ \A k \in Kid : kids[k] # {} => AtFirst(k) \in kids[k]
      /\ \A k \in Kid : \A d \in kids[k] : AtFirst(k) <= d
  BY <1>1, AtFirsts
<1>5. \/ /\ self' = [more |-> self.more, first |-> FALSE, highest |-> h, target |-> self.target,
                     i |-> self.i, phrase |-> self.phrase]
      \/ /\ self' = [more |-> self.more, first |-> self.first, highest |-> h, target |-> self.target,
                     i |-> self.i, phrase |-> self.phrase]
         /\ kind = "and" /\ pc' # "scoot"
  BY <1>3
<1>6. /\ self'.more = self.more /\ self'.highest = h
      /\ self'.target = asked /\ self'.phrase = self.phrase
      /\ self'.first => kind = "and" /\ pc' # "scoot"
      /\ self' \in [more : BOOLEAN, first : BOOLEAN, highest : 0..Ended, target : 0..Ended,
                    i : 1..(Len(kids) + 1), phrase : SUBSET DocId]
  BY <1>3, <1>5
<1>7. ConjunctionMeaning' = ConjunctionMeaning
  BY <1>6 DEF ConjunctionMeaning, Kid
<1>8. CASE \E k \in Kid : kids[k] = {}
  <2>1. pc' = "idle" /\ found' = 0 /\ Exhausted'
    BY <1>1, <1>8 DEF Exhausted
  <2>2. AndRight'
    BY <1>3, <1>4, <1>5, <1>6, <2>1 DEF AndRight, Ended, Kid, DocId, AtFirst, At
  <2>3. \A e \in Meaning : e < asked
    BY <1>1, <1>8
  <2>4. Answered
    BY <1>1, <2>1, <2>3, FirstIsNone DEF Answered
  <2>5. ScoreKept'
    BY <2>1 DEF ScoreKept
  <2> QED
    BY <1>1, <1>4, <2>1, <2>2, <2>4, <2>5, ConjunctionKeeps
<1>9. CASE ~ \E k \in Kid : kids[k] = {}
  <2>1. pc' = "scoot" /\ found' = found /\ self.more /\ ~self'.first
    BY <1>3, <1>6, <1>9
  <2>2. \A k \in Kid : pos'[k] \in kids[k]
    BY <1>4, <1>9
  <2>3. PICK l \in Kid : h = 0 \/ h = AtFirst(l)
    OBVIOUS
  <2>4. h <= DocMax
    BY <1>2, <1>4, <1>9, <2>3
  <2>5. ASSUME NEW e \in ConjunctionMeaning, e >= asked
        PROVE  asked <= e /\ h <= e /\ \A k \in Kid : pos'[k] <= e
    <3>1. e \in Nat /\ \A k \in Kid : AtFirst(k) <= e
      BY <1>1, <1>4
    <3> QED
      BY <1>1, <1>4, <2>3, <2>5, <3>1
  <2>6. NothingMissed'
    BY <1>6, <1>7, <2>5 DEF NothingMissed, Kid
  <2>7. AndRight'
    <3>1. asked <= self'.target /\ self'.highest <= DocMax
      BY <1>1, <1>6, <2>4
    <3> QED
      BY <1>3, <1>6, <2>1, <2>2, <2>6, <3>1 DEF AndRight, Ended, Kid, DocId
  <2>8. ScoreKept' /\ Answered
    BY <2>1 DEF ScoreKept, Answered
  <2> QED
    BY <1>1, <1>4, <2>1, <2>7, <2>8, ConjunctionKeeps
<1> QED
  BY <1>8, <1>9

LEMMA AndSeedStep ==
  ASSUME DocMax \in Nat, MatchersInv, AndSeed
  PROVE  MatchersInv' /\ Answered
<1>1. /\ kind = "and" /\ pc = "seed"
      /\ kind' = kind /\ kids' = kids /\ asked' = asked /\ parts' = parts
  BY DEF AndSeed, client
<1>2. /\ Common /\ AndRight /\ asked \in Nat /\ found \in Nat /\ found < asked
  BY <1>1, ConjunctionIs
<1>3. /\ self.target = asked /\ self.highest = 0
      /\ self.first => /\ self.more <=> \A k \in Kid : kids[k] # {}
                       /\ \A k \in Kid : pos[k] = AtFirst(k)
      /\ ~self.first => self.more
      /\ self \in [more : BOOLEAN, first : BOOLEAN, highest : 0..Ended, target : 0..Ended,
                   i : 1..(Len(kids) + 1), phrase : SUBSET DocId]
  BY <1>1, <1>2 DEF AndRight
<1>4. CASE self.more /\ ~self.first
  BY <1>1, <1>2, <1>3, <1>4, SeedsWith DEF AndSeed, Target
<1>5. CASE self.first
  <2>1. /\ pos' = pos /\ misuse' = misuse
        /\ \/ ~self.more /\ pc' = "idle" /\ found' = 0 /\ self' = self
           \/ self.more /\ self' = [self EXCEPT !.first = FALSE] /\ pc' = "scoot" /\ found' = found
    BY <1>5 DEF AndSeed, child, Goto, Return
  <2>2. pos' = [k \in Kid |-> AtFirst(k)]
    <3>1. pos \in [Kid -> 0..Ended]
      BY <1>2 DEF Common
    <3> QED
      BY <1>3, <1>5, <2>1, <3>1
  <2>3. self' = [self EXCEPT !.first = IF kind = "phrase" \/ pc' = "scoot" THEN FALSE ELSE @,
                             !.highest = 0]
    BY <1>1, <1>3, <1>5, <2>1
  <2>4. IF \E k \in Kid : kids[k] = {} THEN pc' = "idle" /\ found' = 0 ELSE pc' = "scoot" /\ found' = found
    BY <1>3, <1>5, <2>1
  <2>5. 0 \in 0..Ended /\ \E k \in Kid : 0 = 0 \/ 0 = AtFirst(k)
    BY <1>2, KidsAre
  <2> QED
    BY <1>1, <1>5, <2>1, <2>2, <2>3, <2>4, <2>5, SeedsAll
<1> QED
  BY <1>3, <1>4, <1>5

LEMMA PhraseSeedStep ==
  ASSUME DocMax \in Nat, MatchersInv, PhraseSeed
  PROVE  MatchersInv' /\ Answered
<1>1. /\ kind = "phrase" /\ pc = "seed"
      /\ kind' = kind /\ kids' = kids /\ asked' = asked /\ parts' = parts
  BY DEF PhraseSeed, client
<1>2. /\ Common /\ AndRight /\ asked \in Nat /\ found \in Nat /\ found < asked
      /\ Ended \in Nat /\ 1 \in Kid
  BY <1>1, ConjunctionIs, KidsAre
<1>3. /\ self \in [more : BOOLEAN, first : BOOLEAN, highest : 0..Ended, target : 0..Ended,
                   i : 1..(Len(kids) + 1), phrase : SUBSET DocId]
      /\ ~self.first => pos[1] = found
  BY <1>1, <1>2 DEF AndRight
<1>4. CASE ~self.first
  <2>1. SeedWith(found + 1)
    BY <1>3, <1>4 DEF PhraseSeed
  <2>2. found + 1 \in Nat /\ found < found + 1 /\ found + 1 <= asked
    BY <1>2
  <2> QED
    BY <1>1, <1>4, <2>1, <2>2, SeedsWith DEF PhraseSeed
<1>5. CASE self.first
  <2> DEFINE S == {AtFirst(k) : k \in Kid}
  <2>1. /\ pos' = [k \in Kid |-> AtFirst(k)] /\ misuse' = misuse
        /\ self' = [self EXCEPT !.first = FALSE, !.highest = HighestOf({pos'[k] : k \in Kid})]
        /\ IF \E k \in Kid : kids[k] = {} THEN pc' = "idle" /\ found' = 0 ELSE pc' = "scoot" /\ found' = found
    BY <1>5 DEF PhraseSeed, Goto, Return
  <2>2. {pos'[k] : k \in Kid} = S
    BY <2>1
  <2>3. S \in SUBSET (0..Ended) /\ S # {}
    BY <1>2, AtFirsts
  <2>4. HighestOf(S) \in S
    <3> HIDE DEF S
    <3> QED
      BY <1>2, <2>3, HighestIs
  <2>5. HighestOf(S) \in 0..Ended /\ \E k \in Kid : HighestOf(S) = 0 \/ HighestOf(S) = AtFirst(k)
    BY <2>3, <2>4
  <2>6. self' = [self EXCEPT !.first = IF kind = "phrase" \/ pc' = "scoot" THEN FALSE ELSE @,
                             !.highest = HighestOf(S)]
    BY <1>1, <2>1, <2>2
  <2> HIDE DEF S
  <2> QED
    BY <1>1, <1>5, <2>1, <2>5, <2>6, SeedsAll
<1> QED
  BY <1>3, <1>4, <1>5

LEMMA ScootStep ==
  ASSUME DocMax \in Nat, MatchersInv, kind \in {"and", "phrase"}, Scoot
  PROVE  MatchersInv' /\ Answered
<1> DEFINE i == self.i
           here == pos[i]
           bar == Bar
           d == IF here < bar THEN First(kids[i], bar) ELSE HighestOf({self.highest, here})
<1>1. /\ pc = "scoot" /\ i <= Len(kids)
      /\ kind' = kind /\ kids' = kids /\ asked' = asked /\ parts' = parts
      /\ IF here < bar THEN Ask(i, bar) ELSE UNCHANGED child
      /\ self' = [self EXCEPT !.target = bar, !.highest = d, !.more = d # 0, !.i = @ + 1]
      /\ IF d = 0 THEN pc' = "idle" /\ found' = 0 ELSE pc' = "scoot" /\ found' = found
  BY DEF Scoot, client, Return, Goto
<1>2. /\ Common /\ AndRight /\ ~misuse
      /\ Meaning = ConjunctionMeaning /\ ConjunctionMeaning \in SUBSET Nat
      /\ \A e \in ConjunctionMeaning : \A k \in Kid : e \in kids[k]
      /\ asked \in Nat /\ asked <= Ended /\ found \in Nat /\ found <= DocMax /\ asked # 0
  BY <1>1, ConjunctionIs
<1>3. /\ Kid = 1..Len(kids) /\ Len(kids) \in Nat /\ Ended = DocMax + 1 /\ Ended \in Nat
      /\ \A k \in Kid : \A e \in kids[k] : e \in Nat /\ 1 <= e /\ e <= DocMax
  BY <1>2, KidsAre
<1>4. /\ self \in [more : BOOLEAN, first : BOOLEAN, highest : 0..Ended, target : 0..Ended,
                   i : 1..(Len(kids) + 1), phrase : SUBSET DocId]
      /\ kind = "and" => self.phrase = DocId
      /\ asked <= self.target /\ self.highest <= DocMax
      /\ ~self.first /\ self.more
      /\ \A k \in Kid : pos[k] \in kids[k]
      /\ NothingMissed
  BY <1>1, <1>2 DEF AndRight
<1>5. i \in Kid /\ here \in kids[i] /\ here \in 1..DocMax /\ i \in 1..Len(kids) /\ here \in Nat
  <2>1. i \in Kid
    BY <1>1, <1>3, <1>4
  <2>2. here \in kids[i]
    BY <1>4, <2>1
  <2> QED
    BY <1>3, <2>1, <2>2
<1>6. /\ bar \in {self.highest, here, self.target} /\ bar \in Nat /\ bar <= Ended
      /\ self.highest <= bar /\ here <= bar /\ self.target <= bar
  <2> DEFINE S == {self.highest, here, self.target}
  <2>1. S \in SUBSET (0..Ended) /\ S # {}
    BY <1>3, <1>4, <1>5
  <2>2. bar = HighestOf(S)
    BY DEF Bar, Target
  <2>3. bar \in S /\ \A e \in S : e <= bar
    <3> HIDE DEF S, bar
    <3> QED
      BY <1>3, <2>1, <2>2, HighestIs
  <2> HIDE DEF bar
  <2> QED
    BY <1>3, <1>4, <1>5, <2>1, <2>3
<1> HIDE DEF bar
<1>7. /\ ~misuse' /\ pos' \in [Kid -> 0..Ended]
      /\ \A j \in Kid : pos'[j] \in kids[j] \cup {0, Ended}
      /\ \A j \in Kid : j # i => pos'[j] = pos[j]
      /\ pos'[i] = IF here < bar THEN At(i, bar) ELSE here
  <2>1. CASE here < bar
    BY <1>1, <1>2, <1>5, <1>6, <2>1, Asked
  <2>2. CASE ~ (here < bar)
    BY <1>1, <1>2, <2>2 DEF child, Common
  <2> QED
    BY <2>1, <2>2
<1>8. /\ At(i, bar) \in kids[i] \cup {Ended} /\ At(i, bar) \in Nat
      /\ At(i, bar) = Ended => \A e \in kids[i] : e < bar
      /\ At(i, bar) # Ended => First(kids[i], bar) = At(i, bar)
      /\ First(kids[i], bar) = 0 <=> At(i, bar) = Ended
      /\ \A e \in kids[i] : e >= bar => At(i, bar) <= e
  BY <1>2, <1>5, <1>6, AtIs
<1>9. ~ (here < bar) => here = bar /\ d = here
  <2>1. ASSUME ~ (here < bar) PROVE here = bar
    BY <1>5, <1>6, <2>1
  <2>2. ASSUME ~ (here < bar) PROVE HighestOf({self.highest, here}) = here
    <3> DEFINE S == {self.highest, here}
    <3>1. S \in SUBSET (0..Ended) /\ S # {} /\ self.highest <= here /\ here \in S
      BY <1>3, <1>4, <1>5, <1>6, <2>1, <2>2
    <3>2. HighestOf(S) \in S /\ \A e \in S : e <= HighestOf(S)
      <4> HIDE DEF S
      <4> QED
        BY <1>3, <3>1, HighestIs
    <3> DEFINE h == HighestOf(S)
    <3>3. h \in {self.highest, here} /\ here <= h
      BY <3>1, <3>2
    <3> HIDE DEF h
    <3>4. h = here
      BY <1>3, <1>4, <1>5, <3>1, <3>3
    <3> QED
      BY <3>4 DEF h
  <2> QED
    BY <2>1, <2>2
<1>10. /\ d # 0 => d \in kids[i] /\ d = pos'[i] /\ d <= DocMax
       /\ d \in 0..Ended
       /\ d = 0 => \A e \in kids[i] : e < bar
       /\ \A e \in kids[i] : e >= bar => d <= e
  <2>1. CASE here < bar
    <3>1. d = First(kids[i], bar) /\ pos'[i] = At(i, bar)
      BY <1>7, <2>1
    <3> HIDE DEF d, here, i
    <3>2. d = 0 => \A e \in kids[i] : e < bar
      BY <1>8, <3>1
    <3>3. d # 0 => d = pos'[i] /\ d \in kids[i] /\ \A e \in kids[i] : e >= bar => d <= e
      BY <1>8, <3>1
    <3>4. \A e \in kids[i] : e \in Nat /\ 1 <= e /\ e <= DocMax
      BY <1>3, <1>5
    <3> QED
      BY <1>3, <3>2, <3>3, <3>4
  <2>2. CASE ~ (here < bar)
    <3>1. d = here /\ here = bar /\ pos'[i] = here
      BY <1>7, <1>9, <2>2
    <3> HIDE DEF d, here, i
    <3> QED
      BY <1>3, <1>5, <3>1
  <2> QED
    BY <2>1, <2>2
<1>11. self' = [more |-> d # 0, first |-> self.first, highest |-> d, target |-> bar,
                i |-> self.i + 1, phrase |-> self.phrase]
  BY <1>1, <1>4
<1>12. ConjunctionMeaning' = ConjunctionMeaning
  BY <1>1, <1>11 DEF ConjunctionMeaning, Kid
<1> HIDE DEF d
<1>13. /\ self'.more = (d # 0) /\ self'.first = self.first /\ self'.highest = d
       /\ self'.target = bar /\ self'.phrase = self.phrase
       /\ self' \in [more : BOOLEAN, first : BOOLEAN, highest : 0..Ended, target : 0..Ended,
                     i : 1..(Len(kids) + 1), phrase : SUBSET DocId]
  BY <1>3, <1>4, <1>5, <1>6, <1>10, <1>11
<1>14. ASSUME NEW e \in ConjunctionMeaning, e >= asked
       PROVE  e \in Nat /\ e \in kids[i] /\ bar <= e /\ \A k \in Kid : pos[k] <= e
  <2>1. e \in Nat /\ e \in kids[i] /\ self.target <= e /\ self.highest <= e /\ \A k \in Kid : pos[k] <= e
    BY <1>2, <1>4, <1>5, <1>14 DEF NothingMissed
  <2> QED
    BY <1>5, <1>6, <2>1
<1>15. CASE d = 0
  <2>1. pc' = "idle" /\ found' = 0 /\ Exhausted'
    BY <1>1, <1>2, <1>15 DEF Exhausted
  <2>2. AndRight'
    BY <1>1, <1>4, <1>13, <2>1 DEF AndRight, Ended, Kid, DocId
  <2>3. ASSUME NEW e \in Meaning PROVE e < asked
    <3>1. e \in Nat /\ e \in ConjunctionMeaning
      BY <1>2
    <3>2. CASE e >= asked
      <4>1. bar <= e /\ e < bar
        BY <1>10, <1>14, <1>15, <3>1, <3>2
      <4> QED
        BY <1>6, <3>1, <4>1
    <3> QED
      BY <1>2, <3>1, <3>2
  <2>4. Answered
    BY <1>2, <2>1, <2>3, FirstIsNone DEF Answered
  <2>5. ScoreKept'
    BY <2>1 DEF ScoreKept
  <2> QED
    BY <1>1, <1>7, <2>1, <2>2, <2>4, <2>5, ConjunctionKeeps
<1>16. CASE d # 0
  <2>1. pc' = "scoot" /\ found' = found
    BY <1>1, <1>16
  <2>2. \A k \in Kid : pos'[k] \in kids[k]
    BY <1>4, <1>5, <1>7, <1>10, <1>16
  <2>3. ASSUME NEW e \in ConjunctionMeaning, e >= asked
        PROVE  bar <= e /\ d <= e /\ \A k \in Kid : pos'[k] <= e
    <3>1. e \in Nat /\ e \in kids[i] /\ bar <= e /\ \A k \in Kid : pos[k] <= e
      BY <1>14, <2>3
    <3>2. d <= e /\ d = pos'[i]
      BY <1>6, <1>10, <1>16, <3>1
    <3>3. ASSUME NEW k \in Kid PROVE pos'[k] <= e
      BY <1>5, <1>7, <3>1, <3>2
    <3> QED
      BY <3>1, <3>2, <3>3
  <2>4. NothingMissed'
    BY <1>1, <1>12, <1>13, <2>3 DEF NothingMissed, Kid
  <2>5. AndRight'
    <3>1. asked <= self'.target /\ self'.highest <= DocMax
      BY <1>2, <1>4, <1>6, <1>10, <1>13, <1>16
    <3> QED
      BY <1>1, <1>4, <1>13, <1>16, <2>1, <2>2, <2>4, <3>1 DEF AndRight, Ended, Kid, DocId
  <2>6. ScoreKept' /\ Answered
    BY <2>1 DEF ScoreKept, Answered
  <2> QED
    BY <1>1, <1>7, <2>1, <2>5, <2>6, ConjunctionKeeps
<1> QED
  BY <1>15, <1>16

LEMMA ReconcileStep ==
  ASSUME DocMax \in Nat, MatchersInv, kind \in {"and", "phrase"}, Reconcile
  PROVE  MatchersInv' /\ Answered
<1>1. /\ pc = "scoot" /\ kind' = kind /\ kids' = kids /\ asked' = asked
      /\ pos' = pos /\ misuse' = misuse
  BY DEF Reconcile, client, child
<1>2. /\ Common /\ AndRight /\ ~misuse
      /\ Meaning = ConjunctionMeaning /\ ConjunctionMeaning \in SUBSET Nat
      /\ \A e \in ConjunctionMeaning : e \in self.phrase /\ \A k \in Kid : e \in kids[k]
      /\ asked \in Nat /\ asked <= Ended /\ found \in Nat /\ found <= DocMax /\ asked # 0
  BY <1>1, ConjunctionIs
<1>3. /\ 1 \in Kid /\ Kid = 1..Len(kids) /\ Len(kids) \in Nat /\ Ended = DocMax + 1 /\ Ended \in Nat
      /\ \A k \in Kid : \A e \in kids[k] : e \in Nat /\ 1 <= e /\ e <= DocMax
  BY <1>2, KidsAre
<1>4. /\ self \in [more : BOOLEAN, first : BOOLEAN, highest : 0..Ended, target : 0..Ended,
                   i : 1..(Len(kids) + 1), phrase : SUBSET DocId]
      /\ kind = "and" => self.phrase = DocId
      /\ asked <= self.target /\ self.highest <= DocMax
      /\ ~self.first /\ self.more
      /\ \A k \in Kid : pos[k] \in kids[k]
      /\ NothingMissed
  BY <1>1, <1>2 DEF AndRight
<1>5. /\ pos' \in [Kid -> 0..Ended]
      /\ \A j \in Kid : pos'[j] \in kids[j] \cup {0, Ended}
  BY <1>1, <1>2 DEF Common
<1>6. Agreed => /\ \A k \in Kid : self.highest \in kids[k]
                /\ self.highest \in 1..DocMax /\ self.target <= self.highest
  <2>1. ASSUME Agreed PROVE self.target <= self.highest /\ \A k \in Kid : self.highest \in kids[k]
    <3>1. /\ self.target \in Nat /\ self.highest \in Nat /\ self.highest >= self.target
          /\ \A k \in Kid : pos[k] = self.highest
      BY <1>3, <1>4, <2>1 DEF Agreed, Target
    <3> QED
      BY <1>4, <3>1
  <2> QED
    BY <1>3, <2>1
<1>7. CASE Agreed /\ self.highest \in self.phrase
  <2> DEFINE h == self.highest
  <2>1. pc' = "idle" /\ found' = h /\ parts' = {<<k, pos[k]>> : k \in Kid} /\ self' = self
    BY <1>7 DEF Reconcile, Return
  <2>2. h \in Meaning /\ h \in Nat /\ h >= asked /\ h # 0 /\ h \in 0..DocMax /\ asked <= h
    BY <1>2, <1>3, <1>4, <1>6, <1>7 DEF ConjunctionMeaning
  <2>3. \A e \in Meaning : e >= asked => h <= e
    BY <1>2, <1>4 DEF NothingMissed
  <2>4. First(Meaning, asked) = h
    <3> HIDE DEF h
    <3> QED
      BY <1>2, <2>2, <2>3, FirstIsLeast
  <2>5. Answered
    BY <2>1, <2>4 DEF Answered
  <2>6. \A k \in Kid : pos[k] = h
    BY <1>7 DEF Agreed
  <2>7. ScoreKept'
    <3>1. {c \in Kid : h \in kids[c]} = Kid
      BY <1>6, <1>7
    <3>2. parts' = {<<k, h>> : k \in Kid}
      BY <2>1, <2>6
    <3> HIDE DEF h
    <3> QED
      BY <1>1, <2>1, <3>1, <3>2 DEF ScoreKept, Kid
  <2>8. AndRight'
    <3>1. found' # 0 /\ \A k \in Kid : pos'[k] = found'
      BY <1>1, <2>1, <2>2, <2>6
    <3> QED
      BY <1>1, <1>4, <2>1, <3>1 DEF AndRight, Ended, Kid, DocId
  <2> QED
    BY <1>1, <1>2, <1>5, <2>1, <2>2, <2>5, <2>7, <2>8, ConjunctionKeeps
<1>8. CASE ~ (Agreed /\ self.highest \in self.phrase)
  <2>1. /\ pc' = "scoot" /\ found' = found /\ parts' = parts
        /\ self' = [self EXCEPT !.i = 1, !.target = NextTarget]
    BY <1>8 DEF Reconcile, Goto
  <2>2. /\ NextTarget = IF Agreed THEN self.target + 1 ELSE self.target
        /\ NextTarget \in 0..Ended /\ asked <= NextTarget
    <3>1. NextTarget = IF Agreed THEN self.target + 1 ELSE self.target
      BY DEF NextTarget, Target
    <3>2. CASE Agreed
      BY <1>2, <1>3, <1>4, <1>6, <3>1, <3>2
    <3>3. CASE ~Agreed
      BY <1>4, <3>1, <3>3
    <3> QED
      BY <3>1, <3>2, <3>3
  <2> DEFINE t == NextTarget
  <2>3. self' = [more |-> self.more, first |-> self.first, highest |-> self.highest,
                 target |-> t, i |-> 1, phrase |-> self.phrase]
    BY <1>4, <2>1
  <2>4. ConjunctionMeaning' = ConjunctionMeaning
    BY <1>1, <2>3 DEF ConjunctionMeaning, Kid
  <2> HIDE DEF t
  <2>5. /\ self'.more = self.more /\ self'.first = self.first /\ self'.highest = self.highest
        /\ self'.target = t /\ self'.phrase = self.phrase
        /\ self' \in [more : BOOLEAN, first : BOOLEAN, highest : 0..Ended, target : 0..Ended,
                      i : 1..(Len(kids) + 1), phrase : SUBSET DocId]
    BY <1>3, <1>4, <2>2, <2>3 DEF t
  <2>6. ASSUME NEW e \in ConjunctionMeaning, e >= asked
        PROVE  t <= e /\ self.highest <= e /\ \A k \in Kid : pos[k] <= e
    <3>1. e \in Nat /\ e \in self.phrase /\ self.target <= e /\ self.highest <= e /\ \A k \in Kid : pos[k] <= e
      BY <1>2, <1>4, <2>6 DEF NothingMissed
    <3>2. CASE Agreed
      <4>1. e # self.highest
        BY <1>8, <3>1, <3>2
      <4>2. self.target + 1 <= e
        BY <1>3, <1>4, <1>6, <3>1, <3>2, <4>1
      <4> QED
        BY <2>2, <3>1, <3>2, <4>2 DEF t
    <3>3. CASE ~Agreed
      BY <2>2, <3>1, <3>3 DEF t
    <3> QED
      BY <3>2, <3>3
  <2>7. NothingMissed'
    BY <1>1, <2>4, <2>5, <2>6 DEF NothingMissed, Kid
  <2>8. AndRight'
    <3>1. asked <= self'.target /\ self'.highest <= DocMax
      BY <1>4, <2>2, <2>5 DEF t
    <3> QED
      BY <1>1, <1>4, <2>1, <2>5, <2>7, <3>1 DEF AndRight, Ended, Kid, DocId
  <2>9. ScoreKept' /\ Answered
    BY <2>1 DEF ScoreKept, Answered
  <2> QED
    BY <1>1, <1>2, <1>5, <2>1, <2>8, <2>9, ConjunctionKeeps
<1> QED
  BY <1>7, <1>8

-----------------------------------------------------------------------------
(* ORMatcher and ORScorer                                                   *)

\* The child at the top is at the least document of all.
LEMMA RootIs ==
  ASSUME DocMax \in Nat, Common, NEW heap, NEW p, HeapRight(heap, p), p \in [Kid -> 0..Ended],
         heap # <<>>
  PROVE  /\ heap[1].kid \in Kid /\ heap[1].doc = p[heap[1].kid]
         /\ heap[1].doc \in Nat /\ heap[1].doc <= DocMax
         /\ \A k \in Kid : heap[1].doc <= p[k]
<1> DEFINE n == Len(heap)
<1>1. heap \in Nodes(n) /\ n \in Nat /\ n # 0
  <2>1. heap \in Nodes(Len(heap)) /\ Len(heap) \in Nat
    BY DEF HeapRight, IsHeap, Nodes
  <2>2. heap \in Seq([kid : Nat, doc : Nat])
    BY <2>1, NodesAre
  <2> QED
    BY <2>1, <2>2
<1>2. IsHeap(heap, n) /\ (\A q \in 1..n : InOrder(heap, q)) /\ Agree(heap, p) /\ DOMAIN heap = 1..n
  <2>1. IsHeap(heap, n) /\ Agree(heap, p) /\ DOMAIN heap = 1..n
    BY <1>1, NodesAre DEF HeapRight
  <2> QED
    BY <2>1 DEF HeapRight
<1> HIDE DEF n
<1>3. \A i \in 1..n : heap[1].doc <= heap[i].doc /\ heap[i].doc \in Nat
  BY <1>1, <1>2, RootLeast, NodesAre
<1>4. 1 \in 1..n
  BY <1>1
<1>5. Ended \in Nat /\ Ended = DocMax + 1
  BY KidsAre
<1>6. /\ \A i \in 1..n : /\ heap[i].kid \in Kid /\ heap[i].doc = p[heap[i].kid]
                         /\ heap[i].doc # Ended
      /\ \A k \in Kid : p[k] # Ended => \E i \in 1..n : heap[i].kid = k
  BY <1>2 DEF Agree
<1>7. heap[1].doc <= DocMax
  <2>1. p[heap[1].kid] \in 0..Ended
    BY <1>4, <1>6
  <2> QED
    BY <1>3, <1>4, <1>5, <1>6, <2>1
<1>8. ASSUME NEW k \in Kid PROVE heap[1].doc <= p[k]
  <2>1. CASE p[k] = Ended
    BY <1>3, <1>4, <1>5, <1>7, <2>1
  <2>2. CASE p[k] # Ended
    BY <1>3, <1>6, <2>2
  <2> QED
    BY <2>1, <2>2
<1> QED
  BY <1>3, <1>4, <1>6, <1>7, <1>8

LEMMA NoRoot ==
  ASSUME NEW p, HeapRight(<<>>, p)
  PROVE  \A k \in Kid : p[k] = Ended
<1>1. DOMAIN <<>> = {} /\ Agree(<<>>, p)
  BY DEF HeapRight
<1> QED
  BY <1>1 DEF Agree

\* What is to be given when all children are exhausted.
LEMMA OrNone ==
  ASSUME DocMax \in Nat, Common, kind \in {"ormatcher", "orscorer"}, NEW p,
         \A k \in Kid : p[k] = Ended,
         \A k \in Kid : \A d \in kids[k] : d >= asked => p[k] <= d
  PROVE  First(Meaning, asked) = 0
<1>1. /\ Ended \in Nat /\ Ended = DocMax + 1 /\ asked \in Nat
      /\ \A k \in Kid : \A d \in kids[k] : d \in Nat /\ d <= DocMax
  BY KidsAre DEF Common
<1>2. Meaning = UNION {kids[k] : k \in Kid}
  BY DEF Meaning, DisjunctionMeaning
<1>3. ASSUME NEW d \in Meaning PROVE d \in Nat /\ d < asked
  <2>1. PICK k \in Kid : d \in kids[k]
    BY <1>2
  <2>2. d \in Nat /\ d <= DocMax /\ (d >= asked => Ended <= d)
    BY <1>1, <2>1
  <2> QED
    BY <1>1, <2>2
<1> QED
  BY <1>1, <1>3, FirstIsNone

\* What is to be given when no child is behind the one at document m.
LEMMA OrFirst ==
  ASSUME DocMax \in Nat, Common, kind \in {"ormatcher", "orscorer"}, NEW p,
         \A k \in Kid : p[k] \in Nat,
         \A k \in Kid : \A d \in kids[k] : d >= asked => p[k] <= d,
         NEW c \in Kid, p[c] \in kids[c], p[c] >= asked, \A k \in Kid : p[c] <= p[k]
  PROVE  First(Meaning, asked) = p[c]
<1>1. /\ asked \in Nat
      /\ \A k \in Kid : \A d \in kids[k] : d \in Nat /\ d <= DocMax
  BY KidsAre DEF Common
<1>2. Meaning = UNION {kids[k] : k \in Kid} /\ Meaning \in SUBSET Nat
  BY <1>1 DEF Meaning, DisjunctionMeaning
<1>3. ASSUME NEW d \in Meaning, d >= asked PROVE p[c] <= d
  <2>1. PICK k \in Kid : d \in kids[k]
    BY <1>2
  <2>2. d \in Nat /\ p[k] <= d /\ p[c] <= p[k] /\ p[k] \in Nat /\ p[c] \in Nat
    BY <1>1, <1>3, <2>1
  <2> QED
    BY <2>2
<1>4. p[c] \in Meaning
  BY <1>2
<1> QED
  BY <1>1, <1>2, <1>3, <1>4, FirstIsLeast

\* The child at the top is sent on to target t.
LEMMA TopAdvances ==
  ASSUME DocMax \in Nat, Common, OrRight, ~misuse, self.heap # <<>>,
         NEW t \in Nat, Top.doc < t, t <= Ended, kids' = kids, TopAdvance(t)
  PROVE  /\ ~misuse' /\ pos' \in [Kid -> 0..Ended]
         /\ \A j \in Kid : pos'[j] \in kids[j] \cup {0, Ended}
         /\ pos'[Top.kid] >= t /\ \A j \in Kid : j # Top.kid => pos'[j] = pos[j]
         /\ \A j \in Kid : Top.doc <= pos'[j]
         /\ HeapRight(self'.heap, pos') /\ HeapRight(self.heap, pos)'
         /\ self'.doc = self.doc /\ self'.target = self.target /\ self'.last = self.last
         /\ self' \in [heap : Seq([kid : Nat, doc : Nat]), doc : Nat, target : Nat, last : Nat]
         /\ \A b \in Nat : t <= b /\ Behind(b) =>
               \A k \in Kid : \A d \in kids[k] : d >= b => pos'[k] <= d
<1> DEFINE c == Top.kid
<1>1. /\ self \in [heap : Seq([kid : Nat, doc : Nat]), doc : Nat, target : Nat, last : Nat]
      /\ HeapRight(self.heap, pos) /\ pos \in [Kid -> 0..Ended]
      /\ Ask(c, t) /\ self' = [self EXCEPT !.heap = AdjustRoot(self.heap, pos'[c])]
  BY DEF OrRight, Common, TopAdvance
<1>2. /\ c \in Kid /\ Top.doc = pos[c] /\ Top.doc \in Nat
      /\ \A k \in Kid : Top.doc <= pos[k]
  BY <1>1, RootIs DEF Top
<1>3. /\ Kid \subseteq Nat /\ Ended \in Nat /\ \A k \in Kid : pos[k] \in Nat
      /\ \A k \in Kid : \A d \in kids[k] : d \in Nat
  BY KidsAre
<1> HIDE DEF c
<1>4. /\ ~misuse' /\ pos' = [pos EXCEPT ![c] = At(c, t)] /\ pos' \in [Kid -> 0..Ended]
      /\ \A j \in Kid : pos'[j] \in kids[j] \cup {0, Ended}
      /\ pos'[c] = At(c, t) /\ pos'[c] >= t
      /\ \A j \in Kid : j # c => pos'[j] = pos[j]
  BY <1>1, <1>2, Asked
<1>5. At(c, t) \in Nat /\ \A d \in kids[c] : d >= t => At(c, t) <= d
  BY <1>2, AtIs
<1>6. \A j \in Kid : Top.doc <= pos'[j]
  BY <1>2, <1>3, <1>4, <1>5
<1>7. HeapRight(AdjustRoot(self.heap, pos'[c]), pos')
  <2>1. DOMAIN pos = Kid /\ pos'[c] \in Nat /\ c = self.heap[1].kid
    BY <1>1, <1>4, <1>5 DEF c, Top
  <2>2. HeapRight(AdjustRoot(self.heap, pos'[c]), [pos EXCEPT ![self.heap[1].kid] = pos'[c]])
    BY <1>1, <1>3, <2>1, Adjusts
  <2> QED
    BY <1>4, <2>1, <2>2
<1> DEFINE h == AdjustRoot(self.heap, pos'[c])
<1>8. h \in Seq([kid : Nat, doc : Nat])
  <2>1. h \in Nodes(Len(h)) /\ Len(h) \in Nat
    BY <1>7 DEF HeapRight, IsHeap, Nodes
  <2> HIDE DEF h
  <2> QED
    BY <2>1, NodesAre
<1>9. self' = [heap |-> h, doc |-> self.doc, target |-> self.target, last |-> self.last]
  BY <1>1
<1> HIDE DEF h
<1>10. /\ self'.heap = h /\ self'.doc = self.doc /\ self'.target = self.target /\ self'.last = self.last
       /\ self' \in [heap : Seq([kid : Nat, doc : Nat]), doc : Nat, target : Nat, last : Nat]
  <2> DEFINE S == Seq([kid : Nat, doc : Nat])
  <2>1. self \in [heap : S, doc : Nat, target : Nat, last : Nat] /\ h \in S
    BY <1>1, <1>8
  <2> HIDE DEF S
  <2>2. self' \in [heap : S, doc : Nat, target : Nat, last : Nat]
    BY <1>9, <2>1
  <2> QED
    BY <1>9, <2>2 DEF S
<1>11. HeapRight(self'.heap, pos') /\ HeapRight(self.heap, pos)'
  <2>1. HeapRight(self'.heap, pos')
    BY <1>7, <1>10 DEF h
  <2> QED
    BY <2>1 DEF HeapRight, Agree, Kid, Ended
<1>12. ASSUME NEW b \in Nat, t <= b, Behind(b), NEW k \in Kid, NEW d \in kids[k], d >= b
       PROVE  pos'[k] <= d
  <2>1. d \in Nat /\ d >= t
    BY <1>3, <1>12
  <2>2. CASE k = c
    BY <1>4, <1>5, <2>1, <2>2
  <2>3. CASE k # c
    BY <1>4, <1>12, <2>3 DEF Behind
  <2> QED
    BY <2>2, <2>3
<1> QED
  BY <1>4, <1>6, <1>10, <1>11, <1>12 DEF c

LEMMA DisjunctionIs ==
  ASSUME DocMax \in Nat, MatchersInv, kind \in {"ormatcher", "orscorer"}
  PROVE  /\ Common /\ OrRight /\ ~misuse
         /\ HeapRight(self.heap, pos) /\ pos \in [Kid -> 0..Ended]
         /\ asked \in Nat /\ asked <= Ended /\ found \in Nat /\ found <= DocMax
         /\ Ended \in Nat /\ Ended = DocMax + 1 /\ Kid \subseteq Nat
         /\ \A k \in Kid : pos[k] \in Nat
         /\ \A k \in Kid : \A d \in kids[k] : d \in DocId /\ d \in Nat /\ 1 <= d /\ d <= DocMax
<1>1. Common /\ OrRight /\ ~misuse
  BY DEF MatchersInv
<1>2. HeapRight(self.heap, pos) /\ pos \in [Kid -> 0..Ended]
  BY <1>1 DEF OrRight, Common
<1>3. /\ Ended \in Nat /\ Ended = DocMax + 1 /\ Kid \subseteq Nat
      /\ \A k \in Kid : pos[k] \in Nat
      /\ \A k \in Kid : \A d \in kids[k] : d \in Nat /\ 1 <= d /\ d <= DocMax
  BY <1>1, KidsAre
<1>4. \A k \in Kid : \A d \in kids[k] : d \in DocId
  BY <1>3 DEF DocId
<1>5. asked \in Nat /\ asked <= Ended /\ found \in Nat /\ found <= DocMax
  BY <1>1, <1>3 DEF Common
<1> QED
  BY <1>1, <1>2, <1>3, <1>4, <1>5

\* What a step of a disjunction has to show.
LEMMA DisjunctionKeeps ==
  ASSUME DocMax \in Nat, MatchersInv, kind \in {"ormatcher", "orscorer"},
         kind' = kind, kids' = kids, asked' = asked, ~misuse',
         pos' \in [Kid -> 0..Ended], \A j \in Kid : pos'[j] \in kids[j] \cup {0, Ended},
         found' \in 0..DocMax, Labels', pc' \in {"idle", "prime"} \/ found' < asked,
         self' \in [heap : Seq([kid : Nat, doc : Nat]), doc : Nat, target : Nat, last : Nat],
         HeapRight(self.heap, pos)',
         pc' \in {"next", "advance", "prime", "accumulate"} => self'.heap # <<>>,
         kind = "ormatcher" => OrMatcherRight', kind = "orscorer" => OrScorerRight', ScoreKept'
  PROVE  MatchersInv'
<1>1. Common
  BY DEF MatchersInv
<1>2. Common'
  BY <1>1 DEF Common, Ended, Kid, DocId
<1>3. OrRight'
  BY DEF OrRight
<1> QED
  BY <1>2, <1>3 DEF MatchersInv

LEMMA TopNextStep ==
  ASSUME DocMax \in Nat, MatchersInv, kind \in {"ormatcher", "orscorer"}, TopNext
  PROVE  MatchersInv' /\ Answered
<1>1. /\ pc \in {"next", "prime"} /\ Top.doc = self.last /\ TopAdvance(Top.doc + 1)
      /\ kind' = kind /\ kids' = kids /\ asked' = asked /\ parts' = parts
      /\ \/ self'.heap = <<>> /\ pc = "next" /\ pc' = "idle" /\ found' = 0
         \/ self'.heap = <<>> /\ pc = "prime" /\ pc' = "idle" /\ found' = found
         \/ self'.heap # <<>> /\ pc' = pc /\ found' = found
  BY DEF TopNext, client, Return, Goto
<1>2. /\ Common /\ OrRight /\ ~misuse
      /\ HeapRight(self.heap, pos) /\ pos \in [Kid -> 0..Ended]
      /\ asked \in Nat /\ asked <= Ended /\ found \in Nat /\ found <= DocMax
      /\ Ended \in Nat /\ Ended = DocMax + 1
      /\ \A k \in Kid : \A d \in kids[k] : d \in Nat /\ 1 <= d
  BY DisjunctionIs
<1>3. /\ pc = "next" => kind = "ormatcher" /\ OrMatcherRight
      /\ pc = "prime" => kind = "orscorer" /\ OrScorerRight
      /\ self.heap # <<>>
  BY <1>1, <1>2 DEF MatchersInv, Labels, OrRight
<1>4. Top.doc \in Nat
  BY <1>2, <1>3, RootIs DEF Top
<1> DEFINE b == IF pc = "next" THEN asked ELSE 1
           t == Top.doc + 1
<1>5. /\ t \in Nat /\ Top.doc < t /\ t <= Ended
      /\ b \in Nat /\ t <= b /\ Behind(b) /\ Top.doc = found
      /\ pc = "next" => self.target = asked /\ self.last = found /\ asked = found + 1
      /\ pc = "prime" => asked = 0 /\ found = 0 /\ self.last = 0
  <2>1. CASE pc = "next"
    BY <1>1, <1>2, <1>3, <1>4, <2>1 DEF OrMatcherRight
  <2>2. CASE pc = "prime"
    BY <1>1, <1>2, <1>3, <1>4, <2>2 DEF OrScorerRight
  <2> QED
    BY <1>1, <2>1, <2>2
<1> HIDE DEF t
<1>6. /\ ~misuse' /\ pos' \in [Kid -> 0..Ended]
      /\ \A j \in Kid : pos'[j] \in kids[j] \cup {0, Ended}
      /\ \A j \in Kid : Top.doc <= pos'[j]
      /\ HeapRight(self'.heap, pos') /\ HeapRight(self.heap, pos)'
      /\ self'.doc = self.doc /\ self'.target = self.target /\ self'.last = self.last
      /\ self' \in [heap : Seq([kid : Nat, doc : Nat]), doc : Nat, target : Nat, last : Nat]
      /\ \A k \in Kid : \A d \in kids[k] : d >= b => pos'[k] <= d
  <2>1. TopAdvance(t)
    BY <1>1 DEF t
  <2> HIDE DEF b
  <2> QED
    BY <1>1, <1>2, <1>3, <1>5, <2>1, TopAdvances
<1>7. self'.heap # <<>> => /\ Top.doc <= self'.heap[1].doc
  BY <1>2, <1>6, RootIs
<1>8. self'.heap = <<>> => \A k \in Kid : pos'[k] = Ended
  BY <1>6, NoRoot
<1>9. /\ pc = "next" => Behind(asked)'
      /\ pc = "prime" => Behind(1)'
  BY <1>1, <1>6 DEF Behind, Kid, b
<1>10. CASE pc = "next"
  <2>1. CASE self'.heap = <<>>
    <3>1. pc' = "idle" /\ found' = 0 /\ Exhausted'
      <4>1. asked # 0
        BY <1>2, <1>5, <1>10
      <4> QED
        BY <1>1, <1>10, <2>1, <4>1 DEF Exhausted
    <3>2. found' = First(Meaning, asked)
      <4>1. \A k \in Kid : \A d \in kids[k] : d >= asked => pos'[k] <= d
        BY <1>6, <1>10 DEF b
      <4> QED
        BY <1>2, <1>8, <2>1, <3>1, <4>1, OrNone
    <3>3. OrMatcherRight' /\ Labels' /\ ScoreKept' /\ found' \in 0..DocMax
      BY <1>1, <1>2, <1>3, <1>10, <3>1 DEF OrMatcherRight, Labels, ScoreKept
    <3> QED
      BY <1>1, <1>3, <1>6, <1>10, <3>1, <3>2, <3>3, DisjunctionKeeps DEF Answered
  <2>2. CASE self'.heap # <<>>
    <3>1. pc' = "next" /\ found' = found
      BY <1>1, <1>10, <2>2
    <3>2. OrMatcherRight' /\ Labels' /\ ScoreKept' /\ found' \in 0..DocMax /\ found' < asked
      <4>1. self'.heap[1].doc >= found
        BY <1>5, <1>7, <2>2
      <4>2. OrMatcherRight'
        BY <1>1, <1>5, <1>6, <1>9, <1>10, <3>1, <4>1 DEF OrMatcherRight, Top
      <4> QED
        BY <1>1, <1>2, <1>3, <1>5, <1>10, <3>1, <4>2 DEF Labels, ScoreKept
    <3> QED
      BY <1>1, <1>3, <1>6, <1>10, <2>2, <3>1, <3>2, DisjunctionKeeps DEF Answered
  <2> QED
    BY <2>1, <2>2
<1>11. CASE pc = "prime"
  <2>1. found' = found /\ found' = 0 /\ asked' = 0 /\ (self'.heap = <<>> => pc' = "idle") /\ (self'.heap # <<>> => pc' = "prime")
    BY <1>1, <1>5, <1>11
  <2>2. self'.heap = <<>> => \A k \in Kid : pos'[k] > 0
    BY <1>2, <1>8
  <2>3. OrScorerRight'
    <3>1. found' + 1 = 1
      BY <2>1
    <3>2. Behind(found + 1)' /\ Behind(1)'
      BY <1>1, <1>6, <1>11, <3>1 DEF Behind, Kid, b
    <3> QED
      BY <1>1, <1>5, <1>6, <1>11, <2>1, <2>2, <3>2 DEF OrScorerRight, Kid
  <2>4. Labels' /\ ScoreKept' /\ found' \in 0..DocMax /\ pc' \in {"idle", "prime"}
    BY <1>1, <1>2, <1>3, <1>11, <2>1 DEF Labels, ScoreKept
  <2> QED
    BY <1>1, <1>3, <1>6, <1>11, <2>1, <2>3, <2>4, DisjunctionKeeps DEF Answered
<1> QED
  BY <1>1, <1>10, <1>11

LEMMA PastLastStep ==
  ASSUME DocMax \in Nat, MatchersInv, kind \in {"ormatcher", "orscorer"}, PastLast
  PROVE  MatchersInv' /\ Answered
<1>1. /\ pc \in {"next", "prime"} /\ Top.doc # self.last
      /\ IF pc = "next" THEN pc' = "idle" /\ found' = Top.doc ELSE pc' = "idle" /\ found' = found
      /\ kind' = kind /\ kids' = kids /\ asked' = asked /\ parts' = parts
      /\ pos' = pos /\ misuse' = misuse /\ self' = self
  BY DEF PastLast, client, child, Return, Goto
<1>2. /\ Common /\ OrRight /\ ~misuse
      /\ HeapRight(self.heap, pos) /\ pos \in [Kid -> 0..Ended]
      /\ asked \in Nat /\ asked <= Ended /\ found \in Nat /\ found <= DocMax
      /\ Ended \in Nat /\ Ended = DocMax + 1
      /\ \A k \in Kid : pos[k] \in Nat
      /\ \A k \in Kid : \A d \in kids[k] : d \in Nat /\ 1 <= d
  BY DisjunctionIs
<1>3. /\ pc = "next" => kind = "ormatcher" /\ OrMatcherRight
      /\ pc = "prime" => kind = "orscorer" /\ OrScorerRight
      /\ self.heap # <<>>
  BY <1>1, <1>2 DEF MatchersInv, Labels, OrRight
<1>4. /\ Top.kid \in Kid /\ Top.doc = pos[Top.kid] /\ Top.doc \in Nat /\ Top.doc <= DocMax
      /\ \A k \in Kid : Top.doc <= pos[k]
  BY <1>2, <1>3, RootIs DEF Top
<1>5. /\ \A j \in Kid : pos[j] \in kids[j] \cup {0, Ended}
      /\ self \in [heap : Seq([kid : Nat, doc : Nat]), doc : Nat, target : Nat, last : Nat]
      /\ HeapRight(self.heap, pos)'
  <2>1. HeapRight(self.heap, pos)'
    BY <1>1, <1>2 DEF HeapRight, Agree, Kid, Ended
  <2> QED
    BY <1>2, <2>1 DEF Common, OrRight
<1>6. CASE pc = "next"
  <2>1. Behind(asked) /\ self.last = found /\ asked = found + 1 /\ Top.doc >= found
    BY <1>3, <1>6 DEF OrMatcherRight
  <2>2. Top.doc >= asked /\ Top.doc # 0 /\ Top.doc # Ended
    BY <1>1, <1>2, <1>4, <2>1
  <2>3. pos[Top.kid] \in kids[Top.kid]
    BY <1>4, <1>5, <2>2
  <2>4. found' = First(Meaning, asked)
    <3> DEFINE c == Top.kid
    <3>1. c \in Kid /\ pos[c] \in kids[c] /\ pos[c] >= asked /\ \A k \in Kid : pos[c] <= pos[k]
      BY <1>4, <2>2, <2>3
    <3>2. First(Meaning, asked) = pos[c]
      <4> HIDE DEF c
      <4> QED
        BY <1>2, <1>3, <1>6, <2>1, <3>1, OrFirst DEF Behind
    <3> QED
      BY <1>1, <1>4, <1>6, <3>2
  <2>5. Behind(found + 1)'
    <3>1. \A k \in Kid : \A d \in kids[k] : d >= Top.doc + 1 => pos[k] <= d
      <4> SUFFICES ASSUME NEW k \in Kid, NEW d \in kids[k], d >= Top.doc + 1 PROVE pos[k] <= d
        OBVIOUS
      <4>1. d \in Nat /\ d >= asked
        BY <1>2, <1>4, <2>2
      <4> QED
        BY <2>1, <4>1 DEF Behind
    <3> QED
      BY <1>1, <1>6, <3>1 DEF Behind, Kid
  <2>6. OrMatcherRight'
    BY <1>1, <1>3, <1>6, <2>5 DEF OrMatcherRight, Top
  <2>7. Labels' /\ ScoreKept' /\ found' \in 0..DocMax
    BY <1>1, <1>3, <1>4, <1>6 DEF Labels, ScoreKept, Scored
  <2> QED
    BY <1>1, <1>2, <1>3, <1>5, <1>6, <2>4, <2>6, <2>7, DisjunctionKeeps DEF Answered
<1>7. CASE pc = "prime"
  <2>1. Behind(1) /\ asked = 0 /\ found = 0 /\ self.last = 0 /\ found' = 0 /\ pc' = "idle"
    BY <1>1, <1>3, <1>7 DEF OrScorerRight
  <2>2. \A k \in Kid : pos[k] > 0
    BY <1>1, <1>2, <1>4, <2>1
  <2>3. found' + 1 = 1
    BY <2>1
  <2>4. Behind(found + 1)'
    BY <1>1, <2>1, <2>3 DEF Behind, Kid
  <2>5. OrScorerRight'
    BY <1>1, <2>1, <2>2, <2>4 DEF OrScorerRight, Kid
  <2>6. Labels' /\ ScoreKept' /\ found' \in 0..DocMax
    BY <1>1, <1>2, <1>3, <1>7, <2>1 DEF Labels, ScoreKept
  <2> QED
    BY <1>1, <1>2, <1>3, <1>5, <1>7, <2>1, <2>5, <2>6, DisjunctionKeeps DEF Answered
<1> QED
  BY <1>1, <1>6, <1>7

LEMMA AdvanceTopStep ==
  ASSUME DocMax \in Nat, MatchersInv, kind \in {"ormatcher", "orscorer"}, AdvanceTop
  PROVE  MatchersInv' /\ Answered
<1>1. /\ pc = "advance" /\ TopAdvance(self.target)
      /\ kind' = kind /\ kids' = kids /\ asked' = asked /\ parts' = parts
      /\ \/ self'.heap = <<>> /\ pc' = "idle" /\ found' = 0
         \/ /\ self'.heap # <<>> /\ self'.heap[1].doc >= self.target
            /\ pc' = "idle" /\ found' = self'.heap[1].doc
         \/ self'.heap # <<>> /\ self'.heap[1].doc < self.target /\ pc' = pc /\ found' = found
  BY DEF AdvanceTop, client, Return, Target
<1>2. /\ Common /\ OrRight /\ ~misuse
      /\ HeapRight(self.heap, pos) /\ pos \in [Kid -> 0..Ended]
      /\ asked \in Nat /\ asked <= Ended /\ found \in Nat /\ found <= DocMax
      /\ Ended \in Nat /\ Ended = DocMax + 1
      /\ \A k \in Kid : \A d \in kids[k] : d \in Nat /\ 1 <= d
  BY DisjunctionIs
<1>3. /\ kind = "ormatcher" /\ Behind(asked) /\ self.target = asked /\ Top.doc < asked
      /\ self.heap # <<>> /\ found < asked /\ asked # 0
  <2>1. kind = "ormatcher" /\ OrMatcherRight /\ self.heap # <<>> /\ found < asked
    BY <1>1, <1>2 DEF MatchersInv, Labels, OrRight, Common
  <2> QED
    BY <1>1, <1>2, <2>1 DEF OrMatcherRight
<1>4. /\ ~misuse' /\ pos' \in [Kid -> 0..Ended]
      /\ \A j \in Kid : pos'[j] \in kids[j] \cup {0, Ended}
      /\ HeapRight(self'.heap, pos') /\ HeapRight(self.heap, pos)'
      /\ self'.doc = self.doc /\ self'.target = self.target /\ self'.last = self.last
      /\ self' \in [heap : Seq([kid : Nat, doc : Nat]), doc : Nat, target : Nat, last : Nat]
      /\ \A k \in Kid : \A d \in kids[k] : d >= asked => pos'[k] <= d
  <2>1. asked <= asked /\ TopAdvance(asked)
    BY <1>1, <1>2, <1>3
  <2> QED
    BY <1>1, <1>2, <1>3, <2>1, TopAdvances
<1>5. Behind(asked)'
  BY <1>1, <1>4 DEF Behind, Kid
<1>6. CASE self'.heap = <<>>
  <2>1. pc' = "idle" /\ found' = 0 /\ Exhausted'
    BY <1>1, <1>3, <1>6 DEF Exhausted
  <2>2. found' = First(Meaning, asked)
    BY <1>2, <1>3, <1>4, <1>6, <2>1, NoRoot, OrNone
  <2>3. OrMatcherRight' /\ Labels' /\ ScoreKept' /\ found' \in 0..DocMax
    BY <1>1, <1>2, <1>3, <2>1 DEF OrMatcherRight, Labels, ScoreKept
  <2> QED
    BY <1>1, <1>3, <1>4, <2>1, <2>2, <2>3, DisjunctionKeeps DEF Answered
<1>7. CASE self'.heap # <<>> /\ self'.heap[1].doc >= self.target
  <2> DEFINE c == self'.heap[1].kid
  <2>1. /\ c \in Kid /\ self'.heap[1].doc = pos'[c] /\ pos'[c] \in Nat
        /\ self'.heap[1].doc <= DocMax
        /\ \A k \in Kid : pos'[c] <= pos'[k]
    BY <1>2, <1>4, <1>7, RootIs
  <2>2. /\ pc' = "idle" /\ found' = pos'[c] /\ pos'[c] >= asked /\ self'.heap # <<>>
        /\ self'.heap[1].doc = found'
    <3> HIDE DEF c
    <3>1. ~ (self'.heap[1].doc < self.target)
      BY <1>2, <1>3, <1>7, <2>1
    <3>2. pc' = "idle" /\ found' = self'.heap[1].doc
      BY <1>1, <1>7, <3>1
    <3> QED
      BY <1>3, <1>7, <2>1, <3>2
  <2>3. found' = First(Meaning, asked)
    <3> HIDE DEF c
    <3>1. pos'[c] \in kids[c] /\ \A k \in Kid : pos'[k] \in Nat
      <4>1. pos'[c] # 0 /\ pos'[c] # Ended /\ pos'[c] \in Nat
        BY <1>2, <1>3, <2>1, <2>2
      <4> QED
        BY <1>2, <1>4, <2>1, <4>1
    <3> QED
      BY <1>2, <1>3, <1>4, <2>1, <2>2, <3>1, OrFirst
  <2> HIDE DEF c
  <2>4. Behind(found + 1)'
    <3>1. \A k \in Kid : \A d \in kids[k] : d >= found' + 1 => pos'[k] <= d
      <4> SUFFICES ASSUME NEW k \in Kid, NEW d \in kids[k], d >= found' + 1 PROVE pos'[k] <= d
        OBVIOUS
      <4>1. d \in Nat /\ d >= asked
        BY <1>2, <2>1, <2>2
      <4> QED
        BY <1>4, <4>1
    <3> QED
      BY <1>1, <3>1 DEF Behind, Kid
  <2>5. OrMatcherRight'
    BY <1>1, <2>2, <2>4 DEF OrMatcherRight, Top
  <2>6. Labels' /\ ScoreKept' /\ found' \in 0..DocMax
    BY <1>1, <1>3, <2>1, <2>2 DEF Labels, ScoreKept, Scored
  <2> QED
    BY <1>1, <1>3, <1>4, <2>2, <2>3, <2>5, <2>6, DisjunctionKeeps DEF Answered
<1>8. CASE self'.heap # <<>> /\ ~ (self'.heap[1].doc >= self.target)
  <2>1. pc' = "advance" /\ found' = found /\ self'.heap[1].doc < asked
    BY <1>1, <1>3, <1>8
  <2>2. OrMatcherRight'
    BY <1>1, <1>3, <1>4, <1>5, <2>1 DEF OrMatcherRight, Top
  <2>3. Labels' /\ ScoreKept' /\ found' \in 0..DocMax /\ found' < asked
    BY <1>1, <1>2, <1>3, <2>1 DEF Labels, ScoreKept
  <2> QED
    BY <1>1, <1>3, <1>4, <1>8, <2>1, <2>2, <2>3, DisjunctionKeeps DEF Answered
<1> QED
  BY <1>6, <1>7, <1>8

LEMMA SpentStep ==
  ASSUME DocMax \in Nat, MatchersInv, kind \in {"ormatcher", "orscorer"}, Spent
  PROVE  MatchersInv' /\ Answered
<1>1. /\ pc \in {"current", "catchup"} /\ self.heap = <<>> /\ pc' = "idle" /\ found' = 0
      /\ kind' = kind /\ kids' = kids /\ asked' = asked /\ parts' = parts
      /\ pos' = pos /\ misuse' = misuse /\ self' = self
  BY DEF Spent, client, child, Return
<1>2. /\ Common /\ OrRight /\ ~misuse
      /\ HeapRight(self.heap, pos) /\ pos \in [Kid -> 0..Ended] /\ asked \in Nat /\ found \in Nat
      /\ Ended \in Nat /\ Ended = DocMax + 1
  BY DisjunctionIs
<1>3. kind = "orscorer" /\ Behind(asked) /\ found < asked
  BY <1>1, <1>2 DEF MatchersInv, Labels, OrScorerRight, Common
<1>4. /\ \A j \in Kid : pos[j] \in kids[j] \cup {0, Ended}
      /\ self \in [heap : Seq([kid : Nat, doc : Nat]), doc : Nat, target : Nat, last : Nat]
      /\ HeapRight(self.heap, pos)'
  <2>1. HeapRight(self.heap, pos)'
    BY <1>1, <1>2 DEF HeapRight, Agree, Kid, Ended
  <2> QED
    BY <1>2, <2>1 DEF Common, OrRight
<1>5. found' = First(Meaning, asked)
  BY <1>1, <1>2, <1>3, NoRoot, OrNone DEF Behind
<1>6. Exhausted'
  BY <1>1, <1>2, <1>3 DEF Exhausted
<1>7. OrScorerRight'
  BY <1>1, <1>6 DEF OrScorerRight
<1>8. Labels' /\ ScoreKept' /\ found' \in 0..DocMax
  BY <1>1, <1>2, <1>3 DEF Labels, ScoreKept
<1> QED
  BY <1>1, <1>2, <1>3, <1>4, <1>5, <1>7, <1>8, DisjunctionKeeps DEF Answered

LEMMA CatchUpStep ==
  ASSUME DocMax \in Nat, MatchersInv, kind \in {"ormatcher", "orscorer"}, CatchUp
  PROVE  MatchersInv' /\ Answered
<1>1. /\ pc = "catchup" /\ self.heap # <<>>
      /\ kind' = kind /\ kids' = kids /\ asked' = asked /\ parts' = parts
      /\ \/ /\ Top.doc >= self.target /\ pc' = "current" /\ found' = found
            /\ pos' = pos /\ misuse' = misuse /\ self' = self
         \/ /\ Top.doc < self.target /\ TopAdvance(self.target)
            /\ \/ self'.heap = <<>> /\ pc' = "idle" /\ found' = 0
               \/ self'.heap # <<>> /\ pc' = pc /\ found' = found
  BY DEF CatchUp, client, child, Return, Goto, Target
<1>2. /\ Common /\ OrRight /\ ~misuse
      /\ HeapRight(self.heap, pos) /\ pos \in [Kid -> 0..Ended]
      /\ asked \in Nat /\ asked <= Ended /\ found \in Nat /\ found <= DocMax
      /\ Ended \in Nat /\ Ended = DocMax + 1 /\ \A k \in Kid : pos[k] \in Nat
  BY DisjunctionIs
<1>3. kind = "orscorer" /\ Behind(asked) /\ self.target = asked /\ found < asked
  BY <1>1, <1>2 DEF MatchersInv, Labels, OrScorerRight, Common
<1>4. CASE Top.doc >= self.target /\ pc' = "current"
  <2>1. /\ Top.doc \in Nat /\ \A k \in Kid : Top.doc <= pos[k]
    BY <1>1, <1>2, RootIs DEF Top
  <2>2. /\ pos' = pos /\ misuse' = misuse /\ self' = self /\ found' = found
    BY <1>1, <1>4
  <2>3. \A k \in Kid : pos[k] >= asked
    BY <1>2, <1>3, <1>4, <2>1
  <2>4. /\ \A j \in Kid : pos[j] \in kids[j] \cup {0, Ended}
        /\ self \in [heap : Seq([kid : Nat, doc : Nat]), doc : Nat, target : Nat, last : Nat]
        /\ HeapRight(self.heap, pos)'
    <3>1. HeapRight(self.heap, pos)'
      BY <1>1, <1>2, <2>2 DEF HeapRight, Agree, Kid, Ended
    <3> QED
      BY <1>2, <3>1 DEF Common, OrRight
  <2>5. Behind(asked)'
    BY <1>1, <1>3, <2>2 DEF Behind, Kid
  <2>6. OrScorerRight'
    BY <1>1, <1>3, <1>4, <2>2, <2>3, <2>5 DEF OrScorerRight, Kid
  <2>7. Labels' /\ ScoreKept' /\ found' \in 0..DocMax /\ found' < asked
    BY <1>1, <1>2, <1>3, <1>4, <2>2 DEF Labels, ScoreKept
  <2> QED
    BY <1>1, <1>2, <1>3, <1>4, <2>2, <2>4, <2>6, <2>7, DisjunctionKeeps DEF Answered
<1>5. CASE /\ Top.doc < self.target /\ TopAdvance(self.target)
           /\ \/ self'.heap = <<>> /\ pc' = "idle" /\ found' = 0
              \/ self'.heap # <<>> /\ pc' = pc /\ found' = found
  <2>1. /\ ~misuse' /\ pos' \in [Kid -> 0..Ended]
        /\ \A j \in Kid : pos'[j] \in kids[j] \cup {0, Ended}
        /\ HeapRight(self'.heap, pos') /\ HeapRight(self.heap, pos)'
        /\ self'.doc = self.doc /\ self'.target = self.target /\ self'.last = self.last
        /\ self' \in [heap : Seq([kid : Nat, doc : Nat]), doc : Nat, target : Nat, last : Nat]
        /\ \A k \in Kid : \A d \in kids[k] : d >= asked => pos'[k] <= d
    <3>1. asked <= asked /\ TopAdvance(asked) /\ Top.doc < asked
      BY <1>2, <1>3, <1>5
    <3> QED
      BY <1>1, <1>2, <1>3, <3>1, TopAdvances
  <2>2. CASE self'.heap = <<>>
    <3>1. pc' = "idle" /\ found' = 0 /\ Exhausted'
      BY <1>1, <1>2, <1>3, <1>5, <2>2 DEF Exhausted
    <3>2. found' = First(Meaning, asked)
      BY <1>2, <1>3, <2>1, <2>2, <3>1, NoRoot, OrNone
    <3>3. OrScorerRight' /\ Labels' /\ ScoreKept' /\ found' \in 0..DocMax
      BY <1>1, <1>2, <1>3, <3>1 DEF OrScorerRight, Labels, ScoreKept
    <3> QED
      BY <1>1, <1>3, <2>1, <3>1, <3>2, <3>3, DisjunctionKeeps DEF Answered
  <2>3. CASE self'.heap # <<>>
    <3>1. pc' = "catchup" /\ found' = found
      BY <1>1, <1>5, <2>3
    <3>2. Behind(asked)'
      BY <1>1, <2>1 DEF Behind, Kid
    <3>3. OrScorerRight'
      BY <1>1, <1>3, <2>1, <3>1, <3>2 DEF OrScorerRight
    <3>4. Labels' /\ ScoreKept' /\ found' \in 0..DocMax /\ found' < asked
      BY <1>1, <1>2, <1>3, <3>1 DEF Labels, ScoreKept
    <3> QED
      BY <1>1, <1>3, <2>1, <2>3, <3>1, <3>3, <3>4, DisjunctionKeeps DEF Answered
  <2> QED
    BY <2>2, <2>3
<1> QED
  BY <1>1, <1>4, <1>5

\* The score of the document begins with the child at the top.
LEMMA CurrentStep ==
  ASSUME DocMax \in Nat, MatchersInv, kind \in {"ormatcher", "orscorer"}, Current
  PROVE  MatchersInv' /\ Answered
<1>1. /\ pc = "current" /\ self.heap # <<>> /\ parts' = {<<Top.kid, pos[Top.kid]>>}
      /\ self' = [self EXCEPT !.doc = Top.doc] /\ pc' = "accumulate" /\ found' = found
      /\ kind' = kind /\ kids' = kids /\ asked' = asked /\ pos' = pos /\ misuse' = misuse
  BY DEF Current, client, child, Goto
<1>2. /\ Common /\ OrRight /\ ~misuse
      /\ HeapRight(self.heap, pos) /\ pos \in [Kid -> 0..Ended]
      /\ asked \in Nat /\ asked <= Ended /\ found \in Nat /\ found <= DocMax
      /\ Ended \in Nat /\ Ended = DocMax + 1 /\ \A k \in Kid : pos[k] \in Nat
      /\ \A k \in Kid : \A d \in kids[k] : d \in DocId /\ d \in Nat
  BY DisjunctionIs
<1>3. /\ kind = "orscorer" /\ Behind(asked) /\ self.target = asked /\ found < asked
      /\ \A k \in Kid : pos[k] >= asked
  BY <1>1, <1>2 DEF MatchersInv, Labels, OrScorerRight, Common
<1> DEFINE c == Top.kid
           m == Top.doc
<1>4. /\ c \in Kid /\ m = pos[c] /\ m \in Nat /\ m <= DocMax
      /\ \A k \in Kid : m <= pos[k]
  BY <1>1, <1>2, RootIs DEF Top
<1>5. /\ \A j \in Kid : pos[j] \in kids[j] \cup {0, Ended}
      /\ self \in [heap : Seq([kid : Nat, doc : Nat]), doc : Nat, target : Nat, last : Nat]
  BY <1>2 DEF Common, OrRight
<1>6. /\ self'.heap = self.heap /\ self'.doc = m /\ self'.target = self.target
      /\ self'.last = self.last
      /\ self' \in [heap : Seq([kid : Nat, doc : Nat]), doc : Nat, target : Nat, last : Nat]
  <2> DEFINE S == Seq([kid : Nat, doc : Nat])
  <2>1. self \in [heap : S, doc : Nat, target : Nat, last : Nat] /\ m \in Nat
    BY <1>4, <1>5
  <2> HIDE DEF S
  <2>2. self' = [heap |-> self.heap, doc |-> m, target |-> self.target, last |-> self.last]
    BY <1>1, <2>1
  <2> HIDE DEF m
  <2>3. self' \in [heap : S, doc : Nat, target : Nat, last : Nat]
    BY <2>1, <2>2
  <2> QED
    BY <2>2, <2>3 DEF S
<1>7. HeapRight(self.heap, pos)'
  BY <1>1, <1>2, <1>6 DEF HeapRight, Agree, Kid, Ended
<1>8. Top' = Top
  BY <1>6 DEF Top
<1> HIDE DEF c, m
<1>9. m >= asked /\ m # 0 /\ m # Ended /\ m \in kids[c] /\ m \in DocId
  <2>1. m >= asked /\ m # 0 /\ m # Ended
    BY <1>2, <1>3, <1>4
  <2>2. m \in kids[c]
    BY <1>4, <1>5, <2>1
  <2> QED
    BY <1>2, <1>4, <2>1, <2>2
<1>10. First(Meaning, asked) = m
  BY <1>2, <1>3, <1>4, <1>9, OrFirst DEF Behind
<1>11. First(DisjunctionMeaning, asked)' = m
  <2>1. Meaning = DisjunctionMeaning /\ DisjunctionMeaning' = DisjunctionMeaning
    BY <1>1, <1>3 DEF Meaning, DisjunctionMeaning, Kid
  <2> QED
    BY <1>1, <1>10, <2>1 DEF First
<1>12. Behind(self.doc + 1)'
  <2>1. \A k \in Kid : \A d \in kids[k] : d >= m + 1 => pos[k] <= d
    <3> SUFFICES ASSUME NEW k \in Kid, NEW d \in kids[k], d >= m + 1 PROVE pos[k] <= d
      OBVIOUS
    <3>1. d \in Nat /\ d >= asked
      BY <1>2, <1>4, <1>9
    <3> QED
      BY <1>3, <3>1 DEF Behind
  <2> QED
    BY <1>1, <1>6, <2>1 DEF Behind, Kid
<1>13. parts' = Taken'
  <2>1. \A k \in Kid : m \in kids[k] => ~ (pos[k] > m)
    BY <1>2, <1>3, <1>4, <1>9 DEF Behind
  <2>2. {k \in Kid : m \in kids[k] /\ (pos[k] > m \/ k = c)} = {c}
    BY <1>4, <1>9, <2>1
  <2>3. Taken' = {<<k, m>> : k \in {c}}
    BY <1>1, <1>6, <1>8, <2>2 DEF Taken, Kid, c
  <2>4. parts' = {<<c, m>>}
    BY <1>1, <1>4 DEF c
  <2> QED
    BY <2>3, <2>4
<1>14. OrScorerRight'
  <2>1. Top'.doc = self'.doc /\ self'.doc \in DocId' /\ self'.doc = First(DisjunctionMeaning, asked)'
    BY <1>6, <1>8, <1>9, <1>11 DEF DocId, m
  <2>2. \A k \in Kid' : pos'[k] >= self'.doc
    BY <1>1, <1>4, <1>6, <1>2 DEF Kid
  <2> QED
    BY <1>1, <1>12, <1>13, <2>1, <2>2 DEF OrScorerRight
<1>15. Labels' /\ ScoreKept' /\ found' \in 0..DocMax /\ found' < asked
  BY <1>1, <1>2, <1>3 DEF Labels, ScoreKept
<1> QED
  BY <1>1, <1>2, <1>3, <1>5, <1>6, <1>7, <1>14, <1>15, DisjunctionKeeps DEF Answered

\* The child at the top goes past the document, and the next one adds to the
\* score if it is at the document.
LEMMA AccumulateStep ==
  ASSUME DocMax \in Nat, MatchersInv, kind \in {"ormatcher", "orscorer"}, Accumulate
  PROVE  MatchersInv' /\ Answered
<1> DEFINE m == self.doc
           c == Top.kid
           t == Top.doc + 1
<1>1. /\ pc = "accumulate" /\ TopAdvance(t)
      /\ kind' = kind /\ kids' = kids /\ asked' = asked
      /\ \/ ~TopIsAt(self'.heap, m) /\ pc' = "idle" /\ found' = m /\ parts' = parts
         \/ /\ TopIsAt(self'.heap, m) /\ pc' = pc /\ found' = found
            /\ parts' = parts \cup {<<Top'.kid, pos'[Top'.kid]>>}
  BY DEF Accumulate, client, Return
<1>2. /\ Common /\ OrRight /\ ~misuse
      /\ HeapRight(self.heap, pos) /\ pos \in [Kid -> 0..Ended]
      /\ asked \in Nat /\ asked <= Ended /\ found \in Nat /\ found <= DocMax
      /\ Ended \in Nat /\ Ended = DocMax + 1 /\ \A k \in Kid : pos[k] \in Nat
      /\ \A k \in Kid : \A d \in kids[k] : d \in DocId /\ d \in Nat
  BY DisjunctionIs
<1>3. kind = "orscorer" /\ found < asked /\ self.heap # <<>>
  BY <1>1, <1>2 DEF MatchersInv, Labels, OrRight, Common
<1>4. /\ Top.doc = m /\ m \in DocId /\ m = First(DisjunctionMeaning, asked)
      /\ Behind(m + 1) /\ \A k \in Kid : pos[k] >= m
      /\ parts = {<<k, m>> : k \in {k \in Kid : m \in kids[k] /\ (pos[k] > m \/ k = c)}}
  <2>1. OrScorerRight
    BY <1>3 DEF MatchersInv
  <2> QED
    BY <1>1, <2>1 DEF OrScorerRight, Taken
<1>5. m \in Nat /\ m # 0 /\ m <= DocMax /\ m # Ended
  BY <1>2, <1>4 DEF DocId
<1>6. c \in Kid /\ pos[c] = m /\ m \in kids[c]
  <2>1. c \in Kid /\ pos[c] = m
    BY <1>2, <1>3, <1>4, RootIs DEF Top
  <2>2. pos[c] \in kids[c] \cup {0, Ended}
    BY <1>2, <2>1 DEF Common
  <2> QED
    BY <1>5, <2>1, <2>2
<1>7. t = m + 1 /\ t \in Nat /\ Top.doc < t /\ t <= Ended
  BY <1>2, <1>4, <1>5
<1> HIDE DEF t, m, c
<1>8. /\ ~misuse' /\ pos' \in [Kid -> 0..Ended]
      /\ \A j \in Kid : pos'[j] \in kids[j] \cup {0, Ended}
      /\ pos'[c] >= t /\ \A j \in Kid : j # c => pos'[j] = pos[j]
      /\ \A j \in Kid : m <= pos'[j]
      /\ HeapRight(self'.heap, pos') /\ HeapRight(self.heap, pos)'
      /\ self'.doc = m /\ self'.target = self.target /\ self'.last = self.last
      /\ self' \in [heap : Seq([kid : Nat, doc : Nat]), doc : Nat, target : Nat, last : Nat]
      /\ \A k \in Kid : \A d \in kids[k] : d >= t => pos'[k] <= d
  <2>1. Behind(t)
    BY <1>4, <1>7
  <2>2. t <= t /\ t \in Nat
    BY <1>7
  <2> QED
    BY <1>1, <1>2, <1>3, <1>4, <1>7, <2>1, <2>2, TopAdvances DEF c, m
<1>9. \A k \in Kid : pos'[k] \in Nat
  BY <1>2, <1>8
<1>10. self'.heap # <<>> => /\ self'.heap[1].kid \in Kid /\ self'.heap[1].doc = pos'[self'.heap[1].kid]
                            /\ \A k \in Kid : self'.heap[1].doc <= pos'[k]
  BY <1>2, <1>8, RootIs
<1>11. CASE ~TopIsAt(self'.heap, m)
  <2>1. pc' = "idle" /\ found' = m /\ parts' = parts
    BY <1>1, <1>11
  <2>2. \A k \in Kid : pos'[k] > m
    <3>1. CASE self'.heap = <<>>
      <4>1. \A k \in Kid : pos'[k] = Ended
        BY <1>8, <3>1, NoRoot
      <4> QED
        BY <1>2, <1>5, <4>1
    <3>2. CASE self'.heap # <<>>
      <4>1. self'.heap[1].doc # m /\ self'.heap[1].doc >= m /\ self'.heap[1].doc \in Nat
        BY <1>8, <1>9, <1>10, <1>11, <3>2 DEF TopIsAt
      <4>2. self'.heap[1].doc > m
        BY <1>5, <4>1
      <4> QED
        BY <1>5, <1>9, <1>10, <3>2, <4>1, <4>2
    <3> QED
      BY <3>1, <3>2
  <2>3. parts = {<<k, m>> : k \in {k \in Kid : m \in kids[k]}}
    <3>1. \A k \in Kid : pos[k] > m \/ k = c
      BY <1>8, <2>2
    <3>2. {k \in Kid : m \in kids[k] /\ (pos[k] > m \/ k = c)} = {k \in Kid : m \in kids[k]}
      BY <3>1
    <3> QED
      BY <1>4, <3>2
  <2>4. Answered
    BY <1>3, <1>4, <2>1 DEF Answered, Meaning
  <2>5. ScoreKept'
    BY <1>1, <2>1, <2>3 DEF ScoreKept, Kid
  <2>6. Behind(found + 1)'
    BY <1>1, <1>7, <1>8, <2>1 DEF Behind, Kid
  <2>7. OrScorerRight'
    BY <1>1, <2>1, <2>2, <2>6 DEF OrScorerRight, Kid
  <2>8. Labels' /\ found' \in 0..DocMax
    BY <1>1, <1>3, <1>5, <2>1 DEF Labels
  <2> QED
    BY <1>1, <1>3, <1>8, <2>1, <2>4, <2>5, <2>7, <2>8, DisjunctionKeeps
<1>12. CASE TopIsAt(self'.heap, m)
  <2> DEFINE e == self'.heap[1].kid
  <2>1. /\ self'.heap # <<>> /\ self'.heap[1].doc = m /\ e \in Kid /\ pos'[e] = m
        /\ pc' = "accumulate" /\ found' = found
        /\ parts' = parts \cup {<<e, m>>}
    <3>1. self'.heap # <<>> /\ self'.heap[1].doc = m
      BY <1>12 DEF TopIsAt
    <3> QED
      BY <1>1, <1>10, <1>12, <3>1 DEF Top
  <2> HIDE DEF e
  <2>2. e # c /\ m \in kids[e] /\ ~ (pos'[c] <= m)
    <3>1. ~ (pos'[c] <= m)
      BY <1>5, <1>6, <1>7, <1>8, <1>9
    <3>2. pos'[e] \in kids[e] \cup {0, Ended}
      BY <1>8, <2>1
    <3> QED
      BY <1>5, <2>1, <3>1, <3>2
  <2>3. parts' = {<<k, m>> : k \in {k \in Kid : m \in kids[k] /\ (pos'[k] > m \/ k = e)}}
    <3>1. \A k \in Kid : pos'[k] > m <=> (pos[k] > m \/ k = c)
      <4> SUFFICES ASSUME NEW k \in Kid PROVE pos'[k] > m <=> (pos[k] > m \/ k = c)
        OBVIOUS
      <4>1. CASE k = c
        BY <1>5, <1>6, <1>7, <1>8, <1>9, <4>1
      <4>2. CASE k # c
        BY <1>8, <4>2
      <4> QED
        BY <4>1, <4>2
    <3> DEFINE S == {k \in Kid : m \in kids[k] /\ (pos[k] > m \/ k = c)}
    <3>2. {k \in Kid : m \in kids[k] /\ (pos'[k] > m \/ k = e)} = S \cup {e}
      BY <2>1, <2>2, <3>1
    <3>3. {<<k, m>> : k \in S \cup {e}} = {<<k, m>> : k \in S} \cup {<<e, m>>}
      <4> HIDE DEF S
      <4> QED
        OBVIOUS
    <3> QED
      BY <1>4, <2>1, <3>2, <3>3
  <2>4. parts' = Taken'
    BY <1>1, <1>8, <2>3 DEF Taken, Top, Kid, e
  <2>5. First(DisjunctionMeaning, asked)' = m
    <3>1. DisjunctionMeaning' = DisjunctionMeaning
      BY <1>1 DEF DisjunctionMeaning, Kid
    <3> QED
      BY <1>1, <1>4, <3>1 DEF First
  <2>6. Behind(self.doc + 1)'
    BY <1>1, <1>7, <1>8 DEF Behind, Kid
  <2>7. OrScorerRight'
    <3>1. Top'.doc = self'.doc /\ self'.doc \in DocId' /\ self'.doc = First(DisjunctionMeaning, asked)'
      BY <1>4, <1>8, <2>1, <2>5 DEF Top, DocId
    <3>2. \A k \in Kid' : pos'[k] >= self'.doc
      BY <1>1, <1>5, <1>8, <1>9 DEF Kid
    <3> QED
      BY <2>1, <2>4, <2>6, <3>1, <3>2 DEF OrScorerRight
  <2>8. Labels' /\ ScoreKept' /\ found' \in 0..DocMax /\ found' < asked
    BY <1>1, <1>2, <1>3, <2>1 DEF Labels, ScoreKept
  <2>9. Answered
    BY <2>1 DEF Answered
  <2> QED
    BY <1>1, <1>3, <1>8, <2>1, <2>7, <2>8, <2>9, DisjunctionKeeps
<1> QED
  BY <1>11, <1>12

-----------------------------------------------------------------------------
(* The calls, the start, and every step                                     *)

\* Next or Advance is called.
LEMMA CallStep ==
  ASSUME DocMax \in Nat, MatchersInv, kind # "postings",
         NEW t \in found + 1 .. LastDoc + 1, NEW isNext \in BOOLEAN, Call(t, isNext)
  PROVE  MatchersInv' /\ ~Exhausted /\ asked' > found /\ found' = found /\ Meaning' = Meaning
<1>1. /\ pc = "idle" /\ ~Exhausted /\ (isNext => t = found + 1) /\ asked' = t
      /\ kind' = kind /\ kids' = kids /\ parts' = parts /\ LastDoc = DocMax
  BY DEF Call, Callable, Exhausted, LastDoc
<1>2. Common /\ Labels /\ ~misuse
  BY DEF MatchersInv
<1>3. /\ Ended \in Nat /\ Ended = DocMax + 1 /\ found \in Nat /\ found <= DocMax
      /\ \A k \in Kid : pos[k] \in Nat
      /\ \A k \in Kid : \A d \in kids[k] : d \in Nat
      /\ 1 \in Kid
  BY <1>2, KidsAre DEF Common
<1>4. t \in Nat /\ t > found /\ t <= Ended /\ t \in 0..Ended /\ t # 0 /\ t - 1 \in 0..DocMax /\ t - 1 >= found
  BY <1>1, <1>3
<1>5. ASSUME pos' = pos, misuse' = misuse, found' = found, pc' # "idle", Labels'
      PROVE  Common' /\ ~misuse' /\ ScoreKept' /\ Labels'
  BY <1>1, <1>2, <1>4, <1>5 DEF Common, ScoreKept, Ended, Kid, DocId
<1>6. CASE kind \in {"and", "phrase"}
  <2>1. /\ self' = [self EXCEPT !.target = t, !.highest = 0, !.i = 1]
        /\ pc' = "seed" /\ found' = found /\ pos' = pos /\ misuse' = misuse
    BY <1>6 DEF Call, ConjunctionCall, MatcherCall, ScorerCall, NotCall, ReqOptCall,
                PostingsCall, Goto, child
  <2>2. AndRight
    BY <1>6 DEF MatchersInv
  <2>3. /\ self \in [more : BOOLEAN, first : BOOLEAN, highest : 0..Ended, target : 0..Ended,
                     i : 1..(Len(kids) + 1), phrase : SUBSET DocId]
        /\ kind = "and" => self.phrase = DocId
        /\ self.first =>
              /\ \A k \in Kid : pos[k] = IF kind = "and" THEN AtFirst(k) ELSE 0
              /\ self.more <=> (kind = "phrase" \/ \A k \in Kid : kids[k] # {})
        /\ ~self.first => self.more /\ found # 0 /\ \A k \in Kid : pos[k] = found
    BY <1>1, <2>2 DEF AndRight
  <2>4. self' = [more |-> self.more, first |-> self.first, highest |-> 0, target |-> t,
                 i |-> 1, phrase |-> self.phrase]
    BY <2>1, <2>3
  <2>5. 1 \in 1..(Len(kids) + 1) /\ 0 \in 0..Ended
    BY <1>2, <1>3, KidsAre
  <2>6. /\ self'.more = self.more /\ self'.first = self.first /\ self'.highest = 0
        /\ self'.target = t /\ self'.i = 1 /\ self'.phrase = self.phrase
        /\ self' \in [more : BOOLEAN, first : BOOLEAN, highest : 0..Ended, target : 0..Ended,
                      i : 1..(Len(kids) + 1), phrase : SUBSET DocId]
    BY <1>4, <2>3, <2>4, <2>5
  <2>7. \A k \in Kid : AtFirst(k)' = AtFirst(k)
    BY <1>1 DEF AtFirst, At, First, Ended
  <2>8. AndRight'
    BY <1>1, <2>1, <2>3, <2>6, <2>7 DEF AndRight, Ended, Kid, DocId
  <2>9. Labels' /\ pc' # "idle"
    BY <1>1, <1>6, <2>1 DEF Labels
  <2>10. Meaning' = Meaning
    BY <1>1, <1>6, <2>6 DEF Meaning, ConjunctionMeaning, Kid
  <2> QED
    BY <1>1, <1>3, <1>4, <1>5, <1>6, <2>1, <2>8, <2>9, <2>10 DEF MatchersInv
<1>7. CASE kind \in {"ormatcher", "orscorer"}
  <2>1. /\ pc' = IF kind = "ormatcher" THEN (IF isNext THEN "next" ELSE "advance")
                 ELSE (IF isNext THEN "current" ELSE "catchup")
        /\ found' = found /\ pos' = pos /\ misuse' = misuse
        /\ self' = IF kind = "ormatcher" THEN [self EXCEPT !.target = t, !.last = Top.doc]
                   ELSE [self EXCEPT !.target = t]
    BY <1>7 DEF Call, MatcherCall, ScorerCall, NotCall, ReqOptCall, PostingsCall, Goto, child
  <2>2. OrRight /\ HeapRight(self.heap, pos) /\ pos \in [Kid -> 0..Ended]
    BY <1>2, <1>7 DEF MatchersInv, OrRight, Common
  <2>3. kind = "ormatcher" => self.heap # <<>> /\ Top.doc = found /\ Behind(found + 1)
    BY <1>1, <1>7 DEF MatchersInv, OrMatcherRight
  <2>4. kind = "orscorer" => Behind(found + 1) /\ \A k \in Kid : pos[k] > found
    BY <1>1, <1>7 DEF MatchersInv, OrScorerRight
  <2>5. /\ self'.heap = self.heap /\ self'.target = t
        /\ kind = "ormatcher" => self'.last = found
        /\ self' \in [heap : Seq([kid : Nat, doc : Nat]), doc : Nat, target : Nat, last : Nat]
    <3> DEFINE S == Seq([kid : Nat, doc : Nat])
    <3>1. self \in [heap : S, doc : Nat, target : Nat, last : Nat]
      BY <2>2 DEF OrRight
    <3> HIDE DEF S
    <3>2. CASE kind = "ormatcher"
      <4>1. self' = [self EXCEPT !.target = t, !.last = found]
        BY <2>1, <2>3, <3>2
      <4>2. self' = [heap |-> self.heap, doc |-> self.doc, target |-> t, last |-> found]
        BY <3>1, <4>1
      <4>3. self' \in [heap : S, doc : Nat, target : Nat, last : Nat]
        BY <1>3, <1>4, <3>1, <4>2
      <4> QED
        BY <4>2, <4>3 DEF S
    <3>3. CASE kind # "ormatcher"
      <4>1. self' = [heap |-> self.heap, doc |-> self.doc, target |-> t, last |-> self.last]
        BY <2>1, <3>1, <3>3
      <4>2. self' \in [heap : S, doc : Nat, target : Nat, last : Nat]
        BY <1>4, <3>1, <4>1
      <4> QED
        BY <3>3, <4>1, <4>2 DEF S
    <3> QED
      BY <3>2, <3>3
  <2>6. HeapRight(self.heap, pos)'
    BY <1>1, <2>1, <2>2, <2>5 DEF HeapRight, Agree, Kid, Ended
  <2>7. OrRight'
    BY <1>7, <2>1, <2>3, <2>5, <2>6 DEF OrRight
  <2>8. Behind(asked)'
    <3>1. \A k \in Kid : \A d \in kids[k] : d >= t => pos[k] <= d
      <4> SUFFICES ASSUME NEW k \in Kid, NEW d \in kids[k], d >= t PROVE pos[k] <= d
        OBVIOUS
      <4>1. d \in Nat /\ d >= found + 1
        BY <1>3, <1>4
      <4> QED
        BY <1>7, <2>3, <2>4, <4>1 DEF Behind
    <3> QED
      BY <1>1, <2>1, <3>1 DEF Behind, Kid
  <2>9. kind = "ormatcher" => OrMatcherRight'
    <3> SUFFICES ASSUME kind = "ormatcher" PROVE OrMatcherRight'
      OBVIOUS
    <3>1. Top'.doc = found /\ pc' \in {"next", "advance"} /\ (pc' = "next" => asked' = found + 1)
      BY <1>1, <2>1, <2>3, <2>5 DEF Top
    <3>2. found >= found /\ found < asked'
      BY <1>1, <1>3, <1>4
    <3> QED
      BY <1>1, <2>1, <2>5, <2>8, <3>1, <3>2 DEF OrMatcherRight
  <2>10. kind = "orscorer" => OrScorerRight'
    <3> SUFFICES ASSUME kind = "orscorer" PROVE OrScorerRight'
      OBVIOUS
    <3>1. pc' \in {"current", "catchup"} /\ (pc' = "current" => asked' = found + 1)
      BY <1>1, <2>1
    <3>2. \A k \in Kid : pos[k] >= found + 1
      BY <1>3, <2>4
    <3> QED
      BY <1>1, <2>1, <2>5, <2>8, <3>1, <3>2 DEF OrScorerRight, Kid
  <2>11. Labels' /\ pc' # "idle"
    BY <1>1, <1>7, <2>1 DEF Labels
  <2>12. Meaning' = Meaning
    BY <1>1, <1>7 DEF Meaning, DisjunctionMeaning, Kid
  <2> QED
    BY <1>1, <1>4, <1>5, <1>7, <2>1, <2>7, <2>9, <2>10, <2>11, <2>12 DEF MatchersInv
<1>8. CASE kind = "not"
  <2>1. /\ self' = [self EXCEPT !.target = t, !.doc = IF isNext THEN self.doc ELSE t - 1]
        /\ pc' = "negate" /\ found' = found /\ pos' = pos /\ misuse' = misuse
    BY <1>8 DEF Call, MatcherCall, ScorerCall, NotCall, ReqOptCall, PostingsCall, Goto, child
  <2>2. /\ self \in [doc : 0..DocMax, nextNegation : 0..Ended, target : Nat]
        /\ self.nextNegation = pos[1] /\ self.doc = found
        /\ \A d \in kids[1] : d > self.doc => pos[1] <= d
    BY <1>1, <1>8 DEF MatchersInv, NotRight
  <2>3. self' = [doc |-> t - 1, nextNegation |-> self.nextNegation, target |-> t]
    <3>1. (IF isNext THEN self.doc ELSE t - 1) = t - 1
      BY <1>1, <1>3, <2>2
    <3> QED
      BY <2>1, <2>2, <3>1
  <2>4. /\ self' \in [doc : 0..DocMax, nextNegation : 0..Ended, target : Nat]
        /\ self'.doc = t - 1 /\ self'.nextNegation = self.nextNegation
    BY <1>4, <2>2, <2>3
  <2>5. \A d \in kids[1] : d > t - 1 => pos[1] <= d
    BY <1>3, <1>4, <2>2
  <2>6. t <= (t - 1) + 1 /\ \A d \in DocId \ kids[1] : d >= t => d > t - 1
    BY <1>4 DEF DocId
  <2>7. NotRight'
    BY <1>1, <2>1, <2>2, <2>4, <2>5, <2>6 DEF NotRight, Ended, DocId
  <2>8. Labels' /\ pc' # "idle"
    BY <1>1, <1>8, <2>1 DEF Labels
  <2>9. Meaning' = Meaning
    BY <1>1, <1>8 DEF Meaning, ExclusionMeaning, DocId
  <2> QED
    BY <1>1, <1>4, <1>5, <1>8, <2>1, <2>7, <2>8, <2>9 DEF MatchersInv
<1>9. CASE kind = "reqopt"
  <2>1. /\ self' = [self EXCEPT !.target = t]
        /\ pc' = "require" /\ found' = found /\ pos' = pos /\ misuse' = misuse
    BY <1>9 DEF Call, MatcherCall, ScorerCall, NotCall, ReqOptCall, PostingsCall, Goto, child
  <2>2. ReqOptRight
    BY <1>9 DEF MatchersInv
  <2>3. self \in [firstTime : BOOLEAN, optional : BOOLEAN, scored : 0..DocMax, target : Nat]
    BY <2>2 DEF ReqOptRight
  <2>4. /\ self' \in [firstTime : BOOLEAN, optional : BOOLEAN, scored : 0..DocMax, target : Nat]
        /\ self'.firstTime = self.firstTime /\ self'.optional = self.optional
        /\ self'.scored = self.scored /\ self'.target = t
    BY <1>4, <2>1, <2>3
  <2>5. ReqOptRight'
    BY <1>1, <2>1, <2>2, <2>4 DEF ReqOptRight, Ended
  <2>6. Labels' /\ pc' # "idle"
    BY <1>1, <1>9, <2>1 DEF Labels
  <2>7. Meaning' = Meaning
    BY <1>1, <1>9 DEF Meaning, ExclusionMeaning
  <2> QED
    BY <1>1, <1>4, <1>5, <1>9, <2>1, <2>5, <2>6, <2>7 DEF MatchersInv
<1> QED
  BY <1>2, <1>6, <1>7, <1>8, <1>9 DEF Labels

\* Posting lists have no children to misuse.
LEMMA PostingsKeep ==
  ASSUME MatchersInv, kind = "postings",
         \/ PostingsStep
         \/ \E t \in found + 1 .. LastDoc + 1, isNext \in BOOLEAN : Call(t, isNext)
  PROVE  MatchersInv' /\ kind' = kind
<1>1. kind' = kind /\ misuse' = misuse
      /\ pc' \in {"idle", "segment", "try", "skip", "jump", "scan"}
  BY DEF PostingsStep, NextSegment, Try, Skip, SkipDone, Jump, Scan, Call, MatcherCall,
         ScorerCall, NotCall, ReqOptCall, PostingsCall, Goto, Return, child, client, MatchersInv, Labels
<1> QED
  BY <1>1 DEF MatchersInv, Labels

\* Each class has steps of its own.
LEMMA StepIs ==
  ASSUME MatchersInv, Step
  PROVE  \/ kind = "and" /\ AndSeed
         \/ kind = "phrase" /\ PhraseSeed
         \/ kind \in {"and", "phrase"} /\ (Scoot \/ Reconcile)
         \/ kind \in {"ormatcher", "orscorer"} /\ DisjunctionStep
         \/ kind = "not" /\ Negate
         \/ kind = "reqopt" /\ (Require \/ Score)
         \/ kind = "postings" /\ PostingsStep
<1>1. Labels
  BY DEF MatchersInv
<1>2. ASSUME ConjunctionStep
      PROVE  \/ kind = "and" /\ AndSeed
             \/ kind = "phrase" /\ PhraseSeed
             \/ kind \in {"and", "phrase"} /\ (Scoot \/ Reconcile)
  <2>1. CASE AndSeed
    BY <2>1 DEF AndSeed
  <2>2. CASE PhraseSeed
    BY <2>2 DEF PhraseSeed
  <2>3. CASE Scoot
    <3>1. pc = "scoot"
      BY <2>3 DEF Scoot
    <3> QED
      BY <1>1, <2>3, <3>1 DEF Labels
  <2>4. CASE Reconcile
    <3>1. pc = "scoot"
      BY <2>4 DEF Reconcile
    <3> QED
      BY <1>1, <2>4, <3>1 DEF Labels
  <2> QED
    BY <1>2, <2>1, <2>2, <2>3, <2>4 DEF ConjunctionStep
<1>3. ASSUME DisjunctionStep PROVE kind \in {"ormatcher", "orscorer"}
  <2>1. pc \in {"next", "prime", "advance", "current", "catchup", "accumulate"}
    BY <1>3 DEF DisjunctionStep, TopNext, PastLast, AdvanceTop, Spent, CatchUp, Current, Accumulate
  <2> QED
    BY <1>1, <2>1 DEF Labels
<1>4. ASSUME ExclusionStep PROVE (kind = "not" /\ Negate) \/ (kind = "reqopt" /\ (Require \/ Score))
  <2>1. CASE Negate
    <3>1. pc = "negate"
      BY <2>1 DEF Negate
    <3> QED
      BY <1>1, <2>1, <3>1 DEF Labels
  <2>2. CASE Require
    <3>1. pc = "require"
      BY <2>2 DEF Require
    <3> QED
      BY <1>1, <2>2, <3>1 DEF Labels
  <2>3. CASE Score
    BY <2>3 DEF Score
  <2> QED
    BY <1>4, <2>1, <2>2, <2>3 DEF ExclusionStep
<1>5. ASSUME PostingsStep PROVE kind = "postings"
  <2>1. pc \in {"segment", "try", "skip", "jump", "scan"}
    BY <1>5 DEF PostingsStep, NextSegment, Try, Skip, SkipDone, Jump, Scan
  <2> QED
    BY <1>1, <2>1 DEF Labels
<1> QED
  BY <1>2, <1>3, <1>4, <1>5 DEF Step

LEMMA StepKeeps ==
  ASSUME DocMax \in Nat, MatchersInv, Step
  PROVE  MatchersInv' /\ (kind # "postings" => Answered)
<1>1. CASE kind \in {"and", "phrase"}
  BY <1>1, StepIs, AndSeedStep, PhraseSeedStep, ScootStep, ReconcileStep
<1>2. CASE kind \in {"ormatcher", "orscorer"}
  <2>1. DisjunctionStep
    BY <1>2, StepIs
  <2> QED
    BY <1>2, <2>1, TopNextStep, PastLastStep, AdvanceTopStep, SpentStep, CatchUpStep,
       CurrentStep, AccumulateStep DEF DisjunctionStep
<1>3. CASE kind = "not"
  BY <1>3, StepIs, NotStep
<1>4. CASE kind = "reqopt"
  BY <1>4, StepIs, RequireStep, ScoreStep
<1>5. CASE kind = "postings"
  <2>1. PostingsStep
    BY <1>5, StepIs
  <2> QED
    BY <1>5, <2>1, PostingsKeep
<1> QED
  BY <1>1, <1>2, <1>3, <1>4, <1>5 DEF MatchersInv, Labels

LEMMA StepSame ==
  ASSUME MatchersInv, Step
  PROVE  kind' = kind /\ kids' = kids /\ asked' = asked
         /\ (kind # "postings" => Meaning' = Meaning)
<1>1. kind' = kind /\ kids' = kids /\ asked' = asked
  BY DEF Step, ConjunctionStep, AndSeed, PhraseSeed, Scoot, Reconcile, DisjunctionStep, TopNext,
         PastLast, AdvanceTop, Spent, CatchUp, Current, Accumulate, ExclusionStep, Negate,
         Require, Score, PostingsStep, NextSegment, Try, Skip, SkipDone, Jump, Scan, client
<1>2. CASE kind \in {"and", "phrase"}
  <2>1. self'.phrase = self.phrase
    <3>1. AndRight /\ (AndSeed \/ PhraseSeed \/ Scoot \/ Reconcile)
      BY <1>2, StepIs DEF MatchersInv
    <3>2. self \in [more : BOOLEAN, first : BOOLEAN, highest : 0..Ended, target : 0..Ended,
                    i : 1..(Len(kids) + 1), phrase : SUBSET DocId]
      BY <3>1 DEF AndRight
    <3>3. CASE AndSeed
      BY <3>2, <3>3 DEF AndSeed, SeedWith
    <3>4. CASE PhraseSeed
      BY <3>2, <3>4 DEF PhraseSeed, SeedWith
    <3>5. CASE Scoot
      BY <3>2, <3>5 DEF Scoot
    <3>6. CASE Reconcile
      BY <3>2, <3>6 DEF Reconcile
    <3> QED
      BY <3>1, <3>3, <3>4, <3>5, <3>6
  <2> QED
    BY <1>1, <1>2, <2>1 DEF Meaning, ConjunctionMeaning, Kid
<1>3. CASE kind \in {"ormatcher", "orscorer"}
  BY <1>1, <1>3 DEF Meaning, DisjunctionMeaning, Kid
<1>4. CASE kind \in {"not", "reqopt"}
  BY <1>1, <1>4 DEF Meaning, ExclusionMeaning, DocId
<1> QED
  BY <1>1, <1>2, <1>3, <1>4 DEF MatchersInv, Labels

LEMMA InitRight ==
  ASSUME Parameters, Init
  PROVE  MatchersInv
<1>1. PICK pair \in Pairs : kind = pair[1] /\ kids = pair[2]
  BY DEF Init
<1>2. /\ DocMax \in Nat
      /\ kind \in {"and", "phrase", "ormatcher", "orscorer", "not", "reqopt", "postings"}
      /\ kids \in Seq(SUBSET DocId) /\ (kind # "postings" => kids # <<>>)
      /\ kind = "reqopt" => Len(kids) = 2
  BY <1>1 DEF Parameters
<1>3. /\ pc = (IF kind = "orscorer" THEN "prime" ELSE "idle")
      /\ misuse = FALSE /\ asked = 0 /\ found = 0 /\ parts = {}
  BY DEF Init
<1>4. Labels /\ ~misuse /\ ScoreKept
  BY <1>2, <1>3 DEF Labels, ScoreKept
<1>5. CASE kind = "postings"
  BY <1>4, <1>5 DEF MatchersInv
<1>6. ASSUME kind # "postings"
      PROVE  /\ Kid = 1..Len(kids) /\ Len(kids) \in Nat /\ Len(kids) # 0 /\ 1 \in Kid /\ Kid \subseteq Nat
             /\ Ended \in Nat /\ Ended = DocMax + 1 /\ 0 # Ended /\ 0 \in 0..Ended /\ 0 \in 0..DocMax
             /\ \A k \in Kid : \A d \in kids[k] : d \in DocId /\ d \in Nat /\ 1 <= d /\ d <= DocMax
  <2> DEFINE S == SUBSET DocId
  <2>1. kids \in Seq(S) /\ kids # <<>>
    BY <1>2, <1>6
  <2> HIDE DEF S
  <2>2. Kid = 1..Len(kids) /\ Len(kids) \in Nat /\ Len(kids) # 0 /\ \A k \in Kid : kids[k] \in S
    BY <2>1 DEF Kid
  <2>3. 1 \in Kid /\ Kid \subseteq Nat
    BY <2>2
  <2>4. \A k \in Kid : \A d \in kids[k] : d \in DocId
    BY <2>2 DEF S
  <2>5. \A k \in Kid : \A d \in kids[k] : d \in DocId /\ d \in Nat /\ 1 <= d /\ d <= DocMax
    BY <2>4 DEF DocId
  <2>6. Ended \in Nat /\ Ended = DocMax + 1 /\ 0 # Ended /\ 0 \in 0..Ended /\ 0 \in 0..DocMax
    BY <1>2 DEF Ended
  <2> QED
    BY <2>2, <2>3, <2>5, <2>6
<1>7. ASSUME kind # "postings", pos \in [Kid -> 0..Ended], \A k \in Kid : pos[k] \in kids[k] \cup {0, Ended}
      PROVE  Common
  BY <1>2, <1>3, <1>6, <1>7 DEF Common
<1>8. ASSUME kind # "postings", kind # "and", pos = [k \in Kid |-> 0]
      PROVE  /\ Common /\ \A k \in Kid : pos[k] = 0
             /\ Behind(1) /\ Behind(found + 1)
  <2>1. pos \in [Kid -> 0..Ended] /\ \A k \in Kid : pos[k] = 0
    BY <1>6, <1>8
  <2>2. \A k \in Kid : \A d \in kids[k] : pos[k] <= d
    BY <1>6, <1>8, <2>1
  <2> QED
    BY <1>7, <1>8, <2>1, <2>2 DEF Behind
<1>9. ~Exhausted
  BY <1>3 DEF Exhausted
<1>10. CASE kind = "and"
  <2>1. AndInit
    BY <1>10 DEF Init
  <2>2. /\ pos = [k \in Kid |-> AtFirst(k)]
        /\ self = [more |-> \A k \in Kid : kids[k] # {}, first |-> TRUE,
                   highest |-> 0, target |-> 0, i |-> 1, phrase |-> DocId]
    BY <2>1 DEF AndInit
  <2>3. Common
    <3>1. ASSUME NEW k \in Kid
          PROVE  AtFirst(k) \in 0..Ended /\ AtFirst(k) \in kids[k] \cup {0, Ended}
      <4>1. kids[k] \in SUBSET Nat /\ 1 \in Nat /\ \A d \in kids[k] : d \in Nat /\ 1 <= d /\ d <= DocMax
        BY <1>6, <1>10
      <4>2. First(kids[k], 1) = 0 \/ First(kids[k], 1) \in kids[k]
        BY <4>1, FirstIs
      <4>3. AtFirst(k) \in kids[k] \cup {Ended}
        BY <4>2 DEF AtFirst, At
      <4>4. AtFirst(k) = Ended \/ (AtFirst(k) \in Nat /\ AtFirst(k) <= DocMax)
        BY <4>1, <4>3
      <4>5. AtFirst(k) \in 0..Ended
        BY <1>2, <1>6, <1>10, <4>4
      <4> QED
        BY <4>3, <4>5
    <3> QED
      BY <1>7, <1>10, <2>2, <3>1
  <2>4. 1 \in 1..(Len(kids) + 1)
    BY <1>6, <1>10
  <2>5. /\ self.first /\ (self.more <=> \A k \in Kid : kids[k] # {}) /\ self.phrase = DocId
        /\ self.highest = 0 /\ self.target = 0 /\ self.i = 1
    BY <2>2
  <2>6. self \in [more : BOOLEAN, first : BOOLEAN, highest : 0..Ended, target : 0..Ended,
                  i : 1..(Len(kids) + 1), phrase : SUBSET DocId]
    BY <1>6, <1>10, <2>2, <2>4
  <2>7. AndRight
    BY <1>3, <1>10, <2>2, <2>5, <2>6 DEF AndRight
  <2> QED
    BY <1>4, <1>10, <2>3, <2>7 DEF MatchersInv
<1>11. CASE kind = "phrase"
  <2>1. PhraseInit
    BY <1>11 DEF Init
  <2>2. /\ pos = [k \in Kid |-> 0]
        /\ self \in [more : {TRUE}, first : {TRUE}, highest : {0}, target : {0},
                     i : {1}, phrase : SUBSET DocId]
    BY <2>1 DEF PhraseInit
  <2>3. 1 \in 1..(Len(kids) + 1)
    BY <1>6, <1>11
  <2>4. AndRight
    BY <1>3, <1>6, <1>8, <1>11, <2>2, <2>3 DEF AndRight
  <2> QED
    BY <1>4, <1>8, <1>11, <2>2, <2>4 DEF MatchersInv
<1>12. CASE kind \in {"ormatcher", "orscorer"}
  <2> DEFINE heap == [k \in Kid |-> [kid |-> k, doc |-> 0]]
  <2>1. DisjunctionInit
    BY <1>12 DEF Init
  <2>2. /\ pos = [k \in Kid |-> 0]
        /\ self = [heap |-> heap, doc |-> 0, target |-> 0, last |-> 0]
    BY <2>1 DEF DisjunctionInit
  <2>3. Common /\ (\A k \in Kid : pos[k] = 0) /\ Behind(1) /\ Behind(found + 1)
    BY <1>8, <1>12, <2>2
  <2> DEFINE n == Len(kids)
  <2>4. Kid = 1..n /\ n \in Nat /\ n # 0 /\ 0 # Ended /\ 1 \in 1..n
    BY <1>6, <1>12
  <2> HIDE DEF n
  <2>5. heap \in Nodes(n) /\ \A i \in 1..n : heap[i].kid = i /\ heap[i].doc = 0
    BY <2>4 DEF Nodes
  <2> HIDE DEF heap
  <2>6. Len(heap) = n /\ DOMAIN heap = 1..n /\ heap \in Seq([kid : Nat, doc : Nat])
    BY <2>4, <2>5, NodesAre
  <2>7. HeapRight(heap, pos)
    <3>1. IsHeap(heap, n)
      BY <2>5 DEF IsHeap
    <3>2. ASSUME NEW p \in 1..n PROVE InOrder(heap, p)
      <4> SUFFICES ASSUME NEW j \in {2 * p, 2 * p + 1}, j <= n PROVE heap[p].doc <= heap[j].doc
        BY <2>6 DEF InOrder
      <4>1. j \in 1..n
        BY <2>4
      <4> QED
        BY <2>5, <4>1
    <3>3. Agree(heap, pos)
      BY <2>3, <2>4, <2>5, <2>6 DEF Agree
    <3> QED
      BY <2>6, <3>1, <3>2, <3>3 DEF HeapRight
  <2>8. heap # <<>>
    BY <2>4, <2>6
  <2>9. /\ self.heap = heap /\ self.last = 0
        /\ self \in [heap : Seq([kid : Nat, doc : Nat]), doc : Nat, target : Nat, last : Nat]
    <3> DEFINE S == Seq([kid : Nat, doc : Nat])
    <3>1. heap \in S
      BY <2>6
    <3> HIDE DEF S
    <3>2. self \in [heap : S, doc : Nat, target : Nat, last : Nat]
      BY <2>2, <3>1
    <3> QED
      BY <2>2, <3>2 DEF S
  <2>10. OrRight
    BY <2>7, <2>8, <2>9 DEF OrRight
  <2>11. kind = "ormatcher" => OrMatcherRight
    BY <1>3, <2>3, <2>4, <2>5, <2>8, <2>9 DEF OrMatcherRight, Top
  <2>12. kind = "orscorer" => OrScorerRight
    BY <1>3, <2>3, <2>9 DEF OrScorerRight
  <2> QED
    BY <1>4, <1>12, <2>3, <2>10, <2>11, <2>12 DEF MatchersInv
<1>13. CASE kind = "not"
  <2>1. NotInit
    BY <1>13 DEF Init
  <2>2. pos = [k \in Kid |-> 0] /\ self = [doc |-> 0, nextNegation |-> 0, target |-> 0]
    BY <2>1 DEF NotInit
  <2>3. \A d \in kids[1] : 0 <= d
    BY <1>6, <1>13
  <2>4. NotRight
    BY <1>3, <1>6, <1>8, <1>13, <2>2, <2>3 DEF NotRight
  <2> QED
    BY <1>4, <1>8, <1>13, <2>2, <2>4 DEF MatchersInv
<1>14. CASE kind = "reqopt"
  <2>1. ReqOptInit
    BY <1>14 DEF Init
  <2>2. pos = [k \in Kid |-> 0] /\ self = [firstTime |-> TRUE, optional |-> TRUE, scored |-> 0, target |-> 0]
    BY <2>1 DEF ReqOptInit
  <2>3. 1 \in Kid /\ 2 \in Kid /\ \A d \in kids[2] : 0 <= d
    <3>1. Kid = 1..2
      BY <1>2, <1>6, <1>14
    <3>2. 2 \in Kid
      BY <3>1
    <3>3. \A d \in kids[2] : d \in Nat
      BY <1>6, <1>14, <3>2
    <3> QED
      BY <1>6, <1>14, <3>2, <3>3
  <2>4. ReqOptRight
    BY <1>3, <1>6, <1>8, <1>14, <2>2, <2>3 DEF ReqOptRight
  <2> QED
    BY <1>4, <1>8, <1>14, <2>2, <2>4 DEF MatchersInv
<1> QED
  BY <1>2, <1>5, <1>10, <1>11, <1>12, <1>13, <1>14

LEMMA NextKeeps ==
  ASSUME DocMax \in Nat, MatchersInv, [Next]_vars
  PROVE  MatchersInv'
<1>1. CASE Step
  BY <1>1, StepKeeps
<1>2. CASE \E t \in found + 1 .. LastDoc + 1, isNext \in BOOLEAN : Call(t, isNext)
  <2>1. CASE kind = "postings"
    BY <1>2, <2>1, PostingsKeep
  <2>2. CASE kind # "postings"
    BY <1>2, <2>2, CallStep
  <2> QED
    BY <2>1, <2>2
<1>3. CASE UNCHANGED vars
  <2>1. /\ kind' = kind /\ kids' = kids /\ pos' = pos /\ misuse' = misuse /\ self' = self
        /\ pc' = pc /\ asked' = asked /\ found' = found /\ parts' = parts
    BY <1>3 DEF vars, client, child
  <2>2. Kid' = Kid /\ Ended' = Ended /\ DocId' = DocId /\ Exhausted' = Exhausted
    BY <2>1 DEF Kid, Ended, DocId, Exhausted
  <2>3. Labels' = Labels /\ Common' = Common /\ ScoreKept' = ScoreKept
    BY <2>1, <2>2 DEF Labels, Common, ScoreKept, Scored
  <2>4. NothingMissed' = NothingMissed /\ \A k \in Kid : AtFirst(k)' = AtFirst(k)
    BY <2>1, <2>2 DEF NothingMissed, ConjunctionMeaning, AtFirst, At, First
  <2>5. AndRight' = AndRight
    BY <2>1, <2>2, <2>4 DEF AndRight
  <2>6. HeapRight(self.heap, pos)' = HeapRight(self.heap, pos)
    BY <2>1, <2>2 DEF HeapRight, Agree
  <2>7. Top' = Top /\ Behind(asked)' = Behind(asked) /\ Behind(1)' = Behind(1)
        /\ Behind(found + 1)' = Behind(found + 1) /\ Behind(self.doc + 1)' = Behind(self.doc + 1)
    BY <2>1, <2>2 DEF Top, Behind
  <2>8. OrRight' = OrRight /\ OrMatcherRight' = OrMatcherRight
    BY <2>1, <2>2, <2>6, <2>7 DEF OrRight, OrMatcherRight
  <2>9. Taken' = Taken /\ First(DisjunctionMeaning, asked)' = First(DisjunctionMeaning, asked)
    BY <2>1, <2>2, <2>7 DEF Taken, DisjunctionMeaning, First
  <2>10. OrScorerRight' = OrScorerRight
    BY <2>1, <2>2, <2>7, <2>9 DEF OrScorerRight
  <2>11. NotRight' = NotRight /\ ReqOptRight' = ReqOptRight
    BY <2>1, <2>2 DEF NotRight, ReqOptRight
  <2> QED
    BY <2>1, <2>3, <2>5, <2>8, <2>10, <2>11 DEF MatchersInv
<1> QED
  BY <1>1, <1>2, <1>3 DEF Next

-----------------------------------------------------------------------------
LEMMA Invariant ==
  ASSUME Parameters
  PROVE  Spec => []MatchersInv
<1>1. DocMax \in Nat
  BY DEF Parameters
<1>2. Init => MatchersInv
  BY InitRight
<1>3. MatchersInv /\ [Next]_vars => MatchersInv'
  BY <1>1, NextKeeps
<1> QED
  BY <1>2, <1>3, PTL DEF Spec

\* ANDScorer, PhraseScorer, ORMatcher, ORScorer, NOTScorer and
\* RequiredOptionalScorer never call Next or Advance of a child that has been
\* exhausted, nor Advance for a document that is not past the child's, whatever
\* the children match and whatever their own caller asks for.
THEOREM CallsLegal ==
  ASSUME Parameters
  PROVE  Spec => []LegalCalls
<1>1. MatchersInv => LegalCalls
  BY DEF MatchersInv, LegalCalls
<1> QED
  BY <1>1, Invariant, PTL

\* The score that an ANDScorer, an ORScorer or a RequiredOptionalScorer gives
\* for a document is that of all children that match it, and of no other.
THEOREM ScoresRight ==
  ASSUME Parameters
  PROVE  Spec => []ScoreRight
<1>1. MatchersInv => ScoreRight
  BY DEF MatchersInv, ScoreRight, ScoreKept, Scored
<1> QED
  BY <1>1, Invariant, PTL

\* The compound Matchers give the documents that Matcher.bp promises for what
\* their children match: each once, in order, and nothing else.
THEOREM MatchersImplement ==
  ASSUME Parameters
  PROVE  Spec /\ kind # "postings" => ImplementsMatcher
<1>1. DocMax \in Nat
  BY DEF Parameters
<1>2. Init => Contract!Init
  BY DEF Init, Contract!Init
<1>3. MatchersInv /\ kind # "postings" /\ [Next]_vars
        => (kind # "postings")' /\ [Contract!Next]_(Contract!vars)
  <2> SUFFICES ASSUME MatchersInv, kind # "postings", [Next]_vars
               PROVE  kind' # "postings" /\ [Contract!Next]_(Contract!vars)
    OBVIOUS
  <2>1. CASE Step
    <3>1. /\ kind' = kind /\ asked' = asked /\ Meaning' = Meaning
          /\ found' = found \/ found' = First(Meaning, asked)
      BY <1>1, <2>1, StepKeeps, StepSame DEF Answered
    <3> QED
      BY <3>1 DEF Contract!Next, Contract!Return, Contract!First, First, Contract!vars
  <2>2. CASE \E t \in found + 1 .. LastDoc + 1, isNext \in BOOLEAN : Call(t, isNext)
    <3>1. ~Exhausted /\ asked' > found /\ found' = found /\ Meaning' = Meaning
      BY <1>1, <2>2, CallStep
    <3>2. kind' = kind
      BY <2>2 DEF Call
    <3> QED
      BY <3>1, <3>2 DEF Exhausted, Contract!Next, Contract!Call, Contract!Exhausted
  <2>3. CASE UNCHANGED vars
    <3>1. kind' = kind /\ asked' = asked /\ found' = found /\ Meaning' = Meaning
      BY <2>3 DEF vars, client, child, Meaning, ConjunctionMeaning, DisjunctionMeaning, ExclusionMeaning,
         Kid, DocId
    <3> QED
      BY <3>1 DEF Contract!vars
  <2> QED
    BY <2>1, <2>2, <2>3 DEF Next
<1>4. Spec => []MatchersInv
  BY Invariant
<1> QED
  BY <1>2, <1>3, <1>4, PTL DEF Spec, ImplementsMatcher, Contract!Spec
=============================================================================
