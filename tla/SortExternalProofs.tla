------------------------ MODULE SortExternalProofs ------------------------
(* SortExternal.tla for any numbers, any number of them, and any memory for *)
(* the sorter and its runs.                                                 *)
EXTENDS SortExternal, FiniteSetTheorems, FunctionTheorems, WellFoundedInduction, TLAPS

-----------------------------------------------------------------------------
(* Counting up to a number                                                  *)

LEMMA Least ==
  ASSUME NEW S \in SUBSET Nat, S # {}
  PROVE  \E m \in S : \A n \in S : m <= n
<1>1. IsWellFoundedOn(OpToRel(<, Nat), Nat)
  BY NatLessThanWellFounded
<1>2. PICK m \in S : \A n \in S : <<n, m>> \notin OpToRel(<, Nat)
  BY <1>1, WFMin
<1>3. \A n \in S : ~ (n < m)
  BY <1>2 DEF OpToRel
<1> QED
  BY <1>3

\* A set that has 0 and every next number has all, up to N.
LEMMA Upwards ==
  ASSUME NEW N \in Nat, NEW P, 0 \in P, \A n \in 1..N : n - 1 \in P => n \in P
  PROVE  \A n \in 0..N : n \in P
<1> DEFINE bad == {n \in 0..N : n \notin P}
<1>1. SUFFICES ASSUME bad # {} PROVE FALSE
  OBVIOUS
<1>2. PICK n \in bad : \A m \in bad : n <= m
  <2>1. bad \in SUBSET Nat
    OBVIOUS
  <2> HIDE DEF bad
  <2> QED
    BY <1>1, <2>1, Least
<1>3. n \in 1..N /\ n \notin P
  OBVIOUS
<1>4. n - 1 \in 0..N /\ ~ (n <= n - 1)
  BY <1>3
<1>5. n - 1 \notin bad
  <2> HIDE DEF bad
  <2> QED
    BY <1>2, <1>4
<1>6. n - 1 \in P
  BY <1>4, <1>5
<1> QED
  BY <1>3, <1>6

\* What a function by recursion on the number before is defined by exists.
Steps(N, S, first, step) == N \in Nat /\ first \in S /\ step \in [1..N -> [S -> S]]
Recurs(g, N, S, first, step) ==
    g \in [0..N -> S] /\ g[0] = first /\ \A n \in 1..N : g[n] = step[n][g[n - 1]]

LEMMA Recursion ==
  ASSUME NEW N, NEW S, NEW first, NEW step, Steps(N, S, first, step)
  PROVE  \E g : Recurs(g, N, S, first, step)
<1>0. N \in Nat /\ first \in S /\ step \in [1..N -> [S -> S]]
  BY DEF Steps
<1> DEFINE Upto(n, g) == /\ g \in [0..n -> S] /\ g[0] = first
                         /\ \A m \in 1..n : g[m] = step[m][g[m - 1]]
           P == {n \in 0..N : \E g : Upto(n, g)}
<1>1. 0 \in P
  <2>1. Upto(0, [n \in 0..0 |-> first])
    BY <1>0
  <2>2. 0 \in 0..N
    BY <1>0
  <2> HIDE DEF Upto
  <2> QED
    BY <2>1, <2>2
<1>2. \A n \in 1..N : n - 1 \in P => n \in P
  <2> SUFFICES ASSUME NEW n \in 1..N, n - 1 \in P PROVE n \in P
    OBVIOUS
  <2>1. PICK g : Upto(n - 1, g)
    OBVIOUS
  <2>2. n \in 1..N /\ n \in Nat /\ n - 1 \in 0..(n - 1) /\ n \notin 0..(n - 1)
    BY <1>0
  <2> DEFINE last == step[n][g[n - 1]]
             h == [m \in 0..n |-> IF m = n THEN last ELSE g[m]]
  <2>3. last \in S
    <3>1. step[n] \in [S -> S] /\ g[n - 1] \in S
      BY <1>0, <2>1, <2>2
    <3> QED
      BY <3>1
  <2> HIDE DEF last
  <2>4. h \in [0..n -> S] /\ h[0] = first
    BY <2>1, <2>2, <2>3
  <2>5. \A m \in 1..n : h[m] = step[m][h[m - 1]]
    <3> SUFFICES ASSUME NEW m \in 1..n PROVE h[m] = step[m][h[m - 1]]
      OBVIOUS
    <3>1. m - 1 \in 0..(n - 1) /\ h[m - 1] = g[m - 1]
      OBVIOUS
    <3>2. CASE m = n
      <4>1. n \in 0..n /\ h[n] = last /\ h[n - 1] = g[n - 1]
        BY <2>2, <3>1, <3>2
      <4> HIDE DEF h
      <4> QED
        BY <3>2, <4>1 DEF last
    <3>3. CASE m # n
      <4>1. m \in 1..(n - 1) /\ h[m] = g[m]
        BY <3>3
      <4> QED
        BY <2>1, <3>1, <4>1
    <3> QED
      BY <3>2, <3>3
  <2>6. n \in 0..N
    BY <2>2
  <2> QED
    BY <2>4, <2>5, <2>6
<1>3. N \in P
  <2> HIDE DEF P
  <2>1. N \in 0..N
    BY <1>0
  <2> QED
    BY <1>0, <1>1, <1>2, <2>1, Upwards
<1> QED
  BY <1>3 DEF Recurs

-----------------------------------------------------------------------------
(* What two functions, as sequences are, have in common if one has the      *)
(* items of the other in other places                                       *)

Matches(b, f, g) ==
    /\ b \in [DOMAIN f -> DOMAIN g]
    /\ \A x, y \in DOMAIN f : b[x] = b[y] => x = y
    /\ \A z \in DOMAIN g : \E x \in DOMAIN f : b[x] = z
    /\ \A x \in DOMAIN f : g[b[x]] = f[x]
Same(f, g) == \E b : Matches(b, f, g)

\* The items of a family of functions.
Places(F) == UNION {{k} \X DOMAIN F[k] : k \in DOMAIN F}
All(F) == [p \in Places(F) |-> F[p[1]][p[2]]]

LEMMA SameSelf ==
  ASSUME NEW f
  PROVE  Same(f, f)
<1> DEFINE map == [x \in DOMAIN f |-> x]
<1>1. Matches(map, f, f)
  BY DEF Matches
<1> QED
  BY <1>1 DEF Same

LEMMA SameBack ==
  ASSUME NEW f, NEW g, Same(f, g)
  PROVE  Same(g, f)
<1>1. PICK b : Matches(b, f, g)
  BY DEF Same
<1> DEFINE back == [z \in DOMAIN g |-> CHOOSE x \in DOMAIN f : b[x] = z]
<1>2. \A z \in DOMAIN g : back[z] \in DOMAIN f /\ b[back[z]] = z
  BY <1>1 DEF Matches
<1>3. back \in [DOMAIN g -> DOMAIN f]
  BY <1>2
<1> HIDE DEF back
<1>4. \A x \in DOMAIN f : b[x] \in DOMAIN g /\ back[b[x]] = x
  BY <1>1, <1>2 DEF Matches
<1>5. \A z \in DOMAIN g : f[back[z]] = g[z]
  BY <1>1, <1>2 DEF Matches
<1>6. Matches(back, g, f)
  BY <1>2, <1>3, <1>4, <1>5 DEF Matches
<1> QED
  BY <1>6 DEF Same

LEMMA SameOn ==
  ASSUME NEW f, NEW g, NEW h, Same(f, g), Same(g, h)
  PROVE  Same(f, h)
<1>1. PICK b : Matches(b, f, g)
  BY DEF Same
<1>2. PICK c : Matches(c, g, h)
  BY DEF Same
<1> DEFINE d == [x \in DOMAIN f |-> c[b[x]]]
<1>3. /\ d \in [DOMAIN f -> DOMAIN h]
      /\ \A x \in DOMAIN f : b[x] \in DOMAIN g /\ d[x] = c[b[x]]
  BY <1>1, <1>2 DEF Matches
<1> HIDE DEF d
<1>4. \A x, y \in DOMAIN f : d[x] = d[y] => x = y
  BY <1>1, <1>2, <1>3 DEF Matches
<1>5. \A z \in DOMAIN h : \E x \in DOMAIN f : d[x] = z
  <2> SUFFICES ASSUME NEW z \in DOMAIN h PROVE \E x \in DOMAIN f : d[x] = z
    OBVIOUS
  <2>1. PICK y \in DOMAIN g : c[y] = z
    BY <1>2 DEF Matches
  <2>2. PICK x \in DOMAIN f : b[x] = y
    BY <1>1 DEF Matches
  <2> QED
    BY <1>3, <2>1, <2>2
<1>6. \A x \in DOMAIN f : h[d[x]] = f[x]
  BY <1>1, <1>2, <1>3 DEF Matches
<1>7. Matches(d, f, h)
  BY <1>3, <1>4, <1>5, <1>6 DEF Matches
<1> QED
  BY <1>7 DEF Same

LEMMA PlacesAre ==
  ASSUME NEW F
  PROVE  /\ DOMAIN All(F) = Places(F)
         /\ \A k \in DOMAIN F : \A i \in DOMAIN F[k] :
               <<k, i>> \in Places(F) /\ All(F)[<<k, i>>] = F[k][i]
         /\ \A p \in Places(F) : p[1] \in DOMAIN F /\ p[2] \in DOMAIN F[p[1]] /\ p = <<p[1], p[2]>>
<1>1. \A k \in DOMAIN F : \A i \in DOMAIN F[k] : <<k, i>> \in Places(F)
  BY DEF Places
<1>2. \A p \in Places(F) : p[1] \in DOMAIN F /\ p[2] \in DOMAIN F[p[1]] /\ p = <<p[1], p[2]>>
  BY DEF Places
<1>3. DOMAIN All(F) = Places(F) /\ \A p \in Places(F) : All(F)[p] = F[p[1]][p[2]]
  BY DEF All
<1> QED
  BY <1>1, <1>2, <1>3

\* Each function may have its items in other places.
LEMMA SameEach ==
  ASSUME NEW F, NEW G, DOMAIN F = DOMAIN G, \A k \in DOMAIN F : Same(F[k], G[k])
  PROVE  Same(All(F), All(G))
<1> DEFINE map == [k \in DOMAIN F |-> CHOOSE c : Matches(c, F[k], G[k])]
<1>1. \A k \in DOMAIN F : Matches(map[k], F[k], G[k])
  BY DEF Same
<1> HIDE DEF map
<1> DEFINE d == [p \in Places(F) |-> <<p[1], map[p[1]][p[2]]>>]
<1>2. \A p \in Places(F) : d[p] = <<p[1], map[p[1]][p[2]]>> /\ d[p] \in Places(G)
  <2> SUFFICES ASSUME NEW p \in Places(F)
               PROVE  <<p[1], map[p[1]][p[2]]>> \in Places(G)
    OBVIOUS
  <2>1. p[1] \in DOMAIN F /\ p[2] \in DOMAIN F[p[1]]
    BY PlacesAre
  <2>2. map[p[1]][p[2]] \in DOMAIN G[p[1]]
    BY <1>1, <2>1 DEF Matches
  <2> QED
    BY <2>1, <2>2, PlacesAre
<1>3. d \in [Places(F) -> Places(G)]
  BY <1>2
<1> HIDE DEF d
<1>4. \A p, q \in Places(F) : d[p] = d[q] => p = q
  <2> SUFFICES ASSUME NEW p \in Places(F), NEW q \in Places(F), d[p] = d[q] PROVE p = q
    OBVIOUS
  <2>1. /\ p[1] \in DOMAIN F /\ p[2] \in DOMAIN F[p[1]] /\ p = <<p[1], p[2]>>
        /\ q[1] \in DOMAIN F /\ q[2] \in DOMAIN F[q[1]] /\ q = <<q[1], q[2]>>
    BY PlacesAre
  <2>2. p[1] = q[1] /\ map[p[1]][p[2]] = map[q[1]][q[2]]
    BY <1>2
  <2>3. p[2] = q[2]
    BY <1>1, <2>1, <2>2 DEF Matches
  <2> QED
    BY <2>1, <2>2, <2>3
<1>5. \A z \in Places(G) : \E p \in Places(F) : d[p] = z
  <2> SUFFICES ASSUME NEW z \in Places(G) PROVE \E p \in Places(F) : d[p] = z
    OBVIOUS
  <2>1. z[1] \in DOMAIN G /\ z[2] \in DOMAIN G[z[1]] /\ z = <<z[1], z[2]>>
    BY PlacesAre
  <2>2. PICK i \in DOMAIN F[z[1]] : map[z[1]][i] = z[2]
    BY <1>1, <2>1 DEF Matches
  <2>3. <<z[1], i>> \in Places(F)
    BY <2>1, <2>2, PlacesAre
  <2> QED
    BY <1>2, <2>1, <2>2, <2>3
<1>6. \A p \in Places(F) : All(G)[d[p]] = All(F)[p]
  <2> SUFFICES ASSUME NEW p \in Places(F) PROVE All(G)[d[p]] = All(F)[p]
    OBVIOUS
  <2>1. p[1] \in DOMAIN F /\ p[2] \in DOMAIN F[p[1]] /\ p = <<p[1], p[2]>>
    BY PlacesAre
  <2>2. map[p[1]][p[2]] \in DOMAIN G[p[1]] /\ G[p[1]][map[p[1]][p[2]]] = F[p[1]][p[2]]
    BY <1>1, <2>1 DEF Matches
  <2>3. All(G)[d[p]] = G[p[1]][map[p[1]][p[2]]]
    BY <1>2, <2>1, <2>2, PlacesAre
  <2>4. All(F)[p] = F[p[1]][p[2]]
    BY <2>1, PlacesAre
  <2> QED
    BY <2>2, <2>3, <2>4
<1>7. DOMAIN All(F) = Places(F) /\ DOMAIN All(G) = Places(G)
  BY PlacesAre
<1>8. Matches(d, All(F), All(G))
  BY <1>3, <1>4, <1>5, <1>6, <1>7 DEF Matches
<1> QED
  BY <1>8 DEF Same

\* The functions may have other indices, and empty ones may come or go.
Renumbers(b, F, G) ==
    /\ b \in [DOMAIN F -> DOMAIN G]
    /\ \A j, k \in DOMAIN F : b[j] = b[k] => j = k
    /\ \A j \in DOMAIN F : G[b[j]] = F[j]
    /\ \A k \in DOMAIN G : (\E j \in DOMAIN F : b[j] = k) \/ DOMAIN G[k] = {}

LEMMA SameRenumbered ==
  ASSUME NEW F, NEW G, NEW b, Renumbers(b, F, G)
  PROVE  Same(All(F), All(G))
<1> DEFINE d == [p \in Places(F) |-> <<b[p[1]], p[2]>>]
<1>1. \A p \in Places(F) :
         /\ p[1] \in DOMAIN F /\ p[2] \in DOMAIN F[p[1]] /\ p = <<p[1], p[2]>>
         /\ b[p[1]] \in DOMAIN G /\ G[b[p[1]]] = F[p[1]]
         /\ d[p] = <<b[p[1]], p[2]>> /\ d[p] \in Places(G)
  <2> SUFFICES ASSUME NEW p \in Places(F)
               PROVE  /\ p[1] \in DOMAIN F /\ p[2] \in DOMAIN F[p[1]] /\ p = <<p[1], p[2]>>
                      /\ b[p[1]] \in DOMAIN G /\ G[b[p[1]]] = F[p[1]]
                      /\ <<b[p[1]], p[2]>> \in Places(G)
    OBVIOUS
  <2>1. p[1] \in DOMAIN F /\ p[2] \in DOMAIN F[p[1]] /\ p = <<p[1], p[2]>>
    BY PlacesAre
  <2>2. b[p[1]] \in DOMAIN G /\ G[b[p[1]]] = F[p[1]]
    BY <2>1 DEF Renumbers
  <2> QED
    BY <2>1, <2>2, PlacesAre
<1>2. d \in [Places(F) -> Places(G)]
  BY <1>1
<1> HIDE DEF d
<1>3. \A p, q \in Places(F) : d[p] = d[q] => p = q
  <2> SUFFICES ASSUME NEW p \in Places(F), NEW q \in Places(F), d[p] = d[q] PROVE p = q
    OBVIOUS
  <2>1. b[p[1]] = b[q[1]] /\ p[2] = q[2] /\ p[1] \in DOMAIN F /\ q[1] \in DOMAIN F
    BY <1>1
  <2>2. p[1] = q[1]
    BY <2>1 DEF Renumbers
  <2> QED
    BY <1>1, <2>1, <2>2
<1>4. \A z \in Places(G) : \E p \in Places(F) : d[p] = z
  <2> SUFFICES ASSUME NEW z \in Places(G) PROVE \E p \in Places(F) : d[p] = z
    OBVIOUS
  <2>1. z[1] \in DOMAIN G /\ z[2] \in DOMAIN G[z[1]] /\ z = <<z[1], z[2]>>
    BY PlacesAre
  <2>2. PICK j \in DOMAIN F : b[j] = z[1]
    BY <2>1 DEF Renumbers
  <2>3. F[j] = G[z[1]]
    BY <2>2 DEF Renumbers
  <2>4. <<j, z[2]>> \in Places(F)
    BY <2>1, <2>2, <2>3, PlacesAre
  <2> QED
    BY <1>1, <2>1, <2>2, <2>4
<1>5. \A p \in Places(F) : All(G)[d[p]] = All(F)[p]
  <2> SUFFICES ASSUME NEW p \in Places(F) PROVE All(G)[d[p]] = All(F)[p]
    OBVIOUS
  <2>1. All(G)[d[p]] = G[b[p[1]]][p[2]]
    BY <1>1, PlacesAre
  <2>2. All(F)[p] = F[p[1]][p[2]]
    BY <1>1, PlacesAre
  <2> QED
    BY <1>1, <2>1, <2>2
<1>6. DOMAIN All(F) = Places(F) /\ DOMAIN All(G) = Places(G)
  BY PlacesAre
<1>7. Matches(d, All(F), All(G))
  BY <1>2, <1>3, <1>4, <1>5, <1>6 DEF Matches
<1> QED
  BY <1>7 DEF Same

Ints == Seq(Int)

LEMMA ConcatIs ==
  ASSUME NEW s \in Ints, NEW t \in Ints
  PROVE  /\ s \o t \in Ints /\ Len(s \o t) = Len(s) + Len(t) /\ Len(s) \in Nat /\ Len(t) \in Nat
         /\ DOMAIN (s \o t) = 1..(Len(s) + Len(t)) /\ DOMAIN s = 1..Len(s) /\ DOMAIN t = 1..Len(t)
         /\ \A i \in 1..Len(s) : (s \o t)[i] = s[i]
         /\ \A i \in 1..Len(t) : (s \o t)[Len(s) + i] = t[i]
         /\ \A i \in (Len(s) + 1)..(Len(s) + Len(t)) : (s \o t)[i] = t[i - Len(s)]
BY DEF Ints

\* Neighbours among the functions are put together.
Neighbour(s, k) == IF 2 * k <= Len(s) THEN s[2 * k - 1] \o s[2 * k] ELSE s[2 * k - 1]
Paired(s) == [k \in 1..((Len(s) + 1) \div 2) |-> Neighbour(s, k)]

LEMMA NeighbourIs ==
  ASSUME NEW s \in Seq(Ints), NEW k \in 1..((Len(s) + 1) \div 2)
  PROVE  /\ Len(s) \in Nat /\ k \in Nat /\ 2 * k - 1 \in 1..Len(s) /\ s[2 * k - 1] \in Ints
         /\ 2 * k <= Len(s) => 2 * k \in 1..Len(s) /\ s[2 * k] \in Ints
         /\ Neighbour(s, k) \in Ints
<1>1. Len(s) \in Nat /\ k \in Nat /\ 2 * k - 1 \in 1..Len(s)
  OBVIOUS
<1>2. s[2 * k - 1] \in Ints
  BY <1>1
<1>3. 2 * k <= Len(s) => 2 * k \in 1..Len(s) /\ s[2 * k] \in Ints
  BY <1>1
<1>4. 2 * k <= Len(s) => s[2 * k - 1] \o s[2 * k] \in Ints
  BY <1>2, <1>3, ConcatIs
<1> QED
  BY <1>1, <1>2, <1>3, <1>4 DEF Neighbour

LEMMA SamePaired ==
  ASSUME NEW s \in Seq(Ints)
  PROVE  Same(All(Paired(s)), All(s))
<1> DEFINE n == (Len(s) + 1) \div 2
           G == Paired(s)
           half(k) == Len(s[2 * k - 1])
           to(k, i) == IF i <= half(k) THEN <<2 * k - 1, i>> ELSE <<2 * k, i - half(k)>>
           map == [p \in Places(G) |-> to(p[1], p[2])]
<1>1. Len(s) \in Nat /\ n \in Nat /\ DOMAIN s = 1..Len(s) /\ DOMAIN G = 1..n /\ n + n <= Len(s) + 1 /\ Len(s) <= n + n
  BY DEF Paired
<1>2. \A k \in 1..n :
         /\ G[k] = Neighbour(s, k) /\ half(k) \in Nat /\ half(k) <= Len(G[k]) /\ DOMAIN s[2 * k - 1] = 1..half(k)
         /\ DOMAIN G[k] = 1..Len(G[k]) /\ Len(G[k]) \in Nat /\ 2 * k - 1 \in 1..Len(s)
         /\ \A i \in 1..half(k) : G[k][i] = s[2 * k - 1][i]
         /\ 2 * k > Len(s) => Len(G[k]) = half(k)
         /\ 2 * k <= Len(s) =>
               /\ 2 * k \in 1..Len(s) /\ DOMAIN s[2 * k] = 1..(Len(G[k]) - half(k))
               /\ \A i \in (half(k) + 1)..Len(G[k]) : G[k][i] = s[2 * k][i - half(k)]
  <2> SUFFICES ASSUME NEW k \in 1..n
               PROVE  /\ G[k] = Neighbour(s, k) /\ half(k) \in Nat /\ half(k) <= Len(G[k]) /\ DOMAIN s[2 * k - 1] = 1..half(k)
                      /\ DOMAIN G[k] = 1..Len(G[k]) /\ Len(G[k]) \in Nat /\ 2 * k - 1 \in 1..Len(s)
                      /\ \A i \in 1..half(k) : G[k][i] = s[2 * k - 1][i]
                      /\ 2 * k > Len(s) => Len(G[k]) = half(k)
                      /\ 2 * k <= Len(s) =>
                            /\ 2 * k \in 1..Len(s) /\ DOMAIN s[2 * k] = 1..(Len(G[k]) - half(k))
                            /\ \A i \in (half(k) + 1)..Len(G[k]) : G[k][i] = s[2 * k][i - half(k)]
    OBVIOUS
  <2>1. /\ Len(s) \in Nat /\ k \in Nat /\ 2 * k - 1 \in 1..Len(s) /\ s[2 * k - 1] \in Ints
        /\ 2 * k <= Len(s) => 2 * k \in 1..Len(s) /\ s[2 * k] \in Ints
    BY NeighbourIs
  <2>2. G[k] = Neighbour(s, k)
    BY DEF Paired
  <2> HIDE DEF G
  <2>3. CASE 2 * k <= Len(s)
    <3> DEFINE x == s[2 * k - 1]
               y == s[2 * k]
    <3>1. G[k] = x \o y /\ x \in Ints /\ y \in Ints
      BY <2>1, <2>2, <2>3 DEF Neighbour
    <3> HIDE DEF x, y
    <3>2. /\ Len(G[k]) = Len(x) + Len(y) /\ Len(x) \in Nat /\ Len(y) \in Nat
          /\ DOMAIN G[k] = 1..(Len(x) + Len(y)) /\ DOMAIN x = 1..Len(x) /\ DOMAIN y = 1..Len(y)
          /\ \A i \in 1..Len(x) : G[k][i] = x[i]
          /\ \A i \in (Len(x) + 1)..(Len(x) + Len(y)) : G[k][i] = y[i - Len(x)]
      BY <3>1, ConcatIs
    <3>3. Len(y) = Len(G[k]) - Len(x) /\ Len(x) <= Len(G[k]) /\ Len(G[k]) \in Nat
      BY <3>2
    <3>4. half(k) = Len(x) /\ x = s[2 * k - 1] /\ y = s[2 * k]
      BY DEF x, y
    <3> HIDE DEF half
    <3>5. /\ half(k) \in Nat /\ half(k) <= Len(G[k]) /\ DOMAIN s[2 * k - 1] = 1..half(k)
          /\ DOMAIN G[k] = 1..Len(G[k]) /\ Len(G[k]) \in Nat
      BY <3>2, <3>3, <3>4
    <3>6. /\ \A i \in 1..half(k) : G[k][i] = s[2 * k - 1][i]
          /\ DOMAIN s[2 * k] = 1..(Len(G[k]) - half(k))
      BY <3>2, <3>3, <3>4
    <3>7. \A i \in (half(k) + 1)..Len(G[k]) : G[k][i] = s[2 * k][i - half(k)]
      BY <3>2, <3>3, <3>4
    <3>8. ~ (2 * k > Len(s))
      BY <2>1, <2>3
    <3> QED
      BY <2>1, <2>2, <3>5, <3>6, <3>7, <3>8
  <2>4. CASE ~ (2 * k <= Len(s))
    <3>1. G[k] = s[2 * k - 1]
      BY <2>2, <2>4 DEF Neighbour
    <3>2. /\ Len(G[k]) \in Nat /\ DOMAIN G[k] = 1..Len(G[k])
      BY <2>1, <3>1 DEF Ints
    <3> QED
      BY <2>1, <2>2, <2>4, <3>1, <3>2
  <2> QED
    BY <2>3, <2>4
<1> HIDE DEF n, G, half
<1>3. \A p \in Places(G) :
         /\ p[1] \in 1..n /\ p[2] \in 1..Len(G[p[1]]) /\ p = <<p[1], p[2]>>
         /\ map[p] = to(p[1], p[2]) /\ to(p[1], p[2]) \in Places(s)
         /\ All(G)[p] = G[p[1]][p[2]] /\ All(s)[to(p[1], p[2])] = G[p[1]][p[2]]
  <2> SUFFICES ASSUME NEW p \in Places(G)
               PROVE  /\ p[1] \in 1..n /\ p[2] \in 1..Len(G[p[1]]) /\ p = <<p[1], p[2]>>
                      /\ to(p[1], p[2]) \in Places(s)
                      /\ All(G)[p] = G[p[1]][p[2]] /\ All(s)[to(p[1], p[2])] = G[p[1]][p[2]]
    OBVIOUS
  <2> DEFINE k == p[1]
             i == p[2]
  <2>1. k \in 1..n /\ i \in 1..Len(G[k]) /\ p = <<k, i>> /\ All(G)[p] = G[k][i]
    <3>1. k \in DOMAIN G /\ i \in DOMAIN G[k] /\ p = <<k, i>>
      BY PlacesAre
    <3>2. All(G)[<<k, i>>] = G[k][i]
      BY <3>1, PlacesAre
    <3> QED
      BY <1>1, <1>2, <3>1, <3>2
  <2> HIDE DEF k, i
  <2>2. CASE i <= half(k)
    <3>1. 2 * k - 1 \in DOMAIN s /\ i \in DOMAIN s[2 * k - 1] /\ s[2 * k - 1][i] = G[k][i]
      BY <1>1, <1>2, <2>1, <2>2
    <3>2. <<2 * k - 1, i>> \in Places(s) /\ All(s)[<<2 * k - 1, i>>] = s[2 * k - 1][i]
      BY <3>1, PlacesAre
    <3> QED
      BY <2>1, <2>2, <3>1, <3>2 DEF k, i
  <2>3. CASE ~ (i <= half(k))
    <3>1. 2 * k <= Len(s)
      BY <1>1, <1>2, <2>1, <2>3
    <3>2. /\ 2 * k \in DOMAIN s /\ i \in (half(k) + 1)..Len(G[k]) /\ i - half(k) \in 1..(Len(G[k]) - half(k))
      <4>1. half(k) \in Int /\ Len(G[k]) \in Int /\ i \in Int /\ i >= 1 /\ i <= Len(G[k])
        BY <1>2, <2>1
      <4>2. 2 * k \in DOMAIN s
        BY <1>1, <1>2, <2>1, <3>1
      <4> QED
        BY <2>3, <4>1, <4>2
    <3>3. i - half(k) \in DOMAIN s[2 * k] /\ s[2 * k][i - half(k)] = G[k][i]
      BY <1>1, <1>2, <2>1, <3>1, <3>2
    <3>4. <<2 * k, i - half(k)>> \in Places(s) /\ All(s)[<<2 * k, i - half(k)>>] = s[2 * k][i - half(k)]
      BY <3>2, <3>3, PlacesAre
    <3> QED
      BY <2>1, <2>3, <3>3, <3>4 DEF k, i
  <2> QED
    BY <2>2, <2>3
<1>4. map \in [Places(G) -> Places(s)]
  BY <1>3
<1> HIDE DEF map
<1>5. \A p, q \in Places(G) : map[p] = map[q] => p = q
  <2> SUFFICES ASSUME NEW p \in Places(G), NEW q \in Places(G), map[p] = map[q] PROVE p = q
    OBVIOUS
  <2> DEFINE k == p[1]
             i == p[2]
             l == q[1]
             j == q[2]
  <2>1. /\ k \in 1..n /\ i \in 1..Len(G[k]) /\ p = <<k, i>>
        /\ l \in 1..n /\ j \in 1..Len(G[l]) /\ q = <<l, j>> /\ to(k, i) = to(l, j)
    <3> HIDE DEF to
    <3> QED
      BY <1>3
  <2> HIDE DEF k, i, l, j
  <2>2. half(k) \in Int /\ half(l) \in Int /\ k \in Int /\ l \in Int /\ i \in Int /\ j \in Int
    BY <1>1, <1>2, <2>1
  <2>3. k = l /\ i = j
    BY <2>1, <2>2
  <2> QED
    BY <2>1, <2>3
<1>6. \A z \in Places(s) : \E p \in Places(G) : map[p] = z
  <2> SUFFICES ASSUME NEW z \in Places(s) PROVE \E p \in Places(G) : map[p] = z
    OBVIOUS
  <2> DEFINE m == z[1]
             h == z[2]
  <2>1. m \in 1..Len(s) /\ h \in DOMAIN s[m] /\ z = <<m, h>>
    BY <1>1, PlacesAre
  <2> HIDE DEF m, h
  <2>2. \E k \in 1..n : m = 2 * k - 1 \/ m = 2 * k
    <3> DEFINE k == (m + 1) \div 2
    <3>1. k \in Int /\ (m = 2 * k - 1 \/ m = 2 * k)
      BY <2>1
    <3>2. k \in 1..n
      BY <1>1, <2>1, <3>1
    <3> QED
      BY <3>1, <3>2
  <2>3. PICK k \in 1..n : m = 2 * k - 1 \/ m = 2 * k
    BY <2>2
  <2>4. CASE m = 2 * k - 1
    <3>1. h \in 1..half(k) /\ h \in DOMAIN G[k] /\ k \in DOMAIN G /\ h <= half(k)
      BY <1>1, <1>2, <2>1, <2>4
    <3>2. <<k, h>> \in Places(G) /\ to(k, h) = z
      BY <2>1, <2>4, <3>1, PlacesAre
    <3> QED
      BY <1>3, <3>2
  <2>5. CASE m = 2 * k
    <3>1. h \in 1..(Len(G[k]) - half(k)) /\ half(k) \in Nat /\ Len(G[k]) \in Nat /\ DOMAIN G[k] = 1..Len(G[k])
      BY <1>1, <1>2, <2>1, <2>5
    <3>2. half(k) + h \in DOMAIN G[k] /\ k \in DOMAIN G /\ ~ (half(k) + h <= half(k)) /\ half(k) + h - half(k) = h
      BY <1>1, <3>1
    <3>3. <<k, half(k) + h>> \in Places(G)
      BY <3>2, PlacesAre
    <3>4. to(k, half(k) + h) = <<2 * k, h>>
      <4> DEFINE there == half(k) + h
      <4>1. ~ (there <= half(k)) /\ there - half(k) = h
        <5>1. h \in Int /\ h >= 1 /\ half(k) \in Int
          BY <3>1
        <5> QED
          BY <5>1
      <4> HIDE DEF there
      <4>2. to(k, there) = <<2 * k, h>>
        BY <4>1
      <4> QED
        BY <4>2 DEF there
    <3>5. map[<<k, half(k) + h>>] = to(k, half(k) + h)
      BY <1>3, <3>3
    <3> QED
      BY <2>1, <2>5, <3>3, <3>4, <3>5
  <2> QED
    BY <2>3, <2>4, <2>5
<1>7. \A p \in Places(G) : All(s)[map[p]] = All(G)[p]
  BY <1>3
<1>8. DOMAIN All(G) = Places(G) /\ DOMAIN All(s) = Places(s)
  BY PlacesAre
<1>9. Matches(map, All(G), All(s))
  BY <1>4, <1>5, <1>6, <1>7, <1>8 DEF Matches
<1>10. Same(All(G), All(s))
  BY <1>9 DEF Same
<1> QED
  BY <1>10 DEF G


\* What has the same items has as many that a test holds of.
PlacesOf(f, V) == {x \in DOMAIN f : f[x] \in V}

LEMMA SameCount ==
  ASSUME NEW f, NEW g, NEW V, Same(f, g), IsFiniteSet(PlacesOf(f, V))
  PROVE  Cardinality(PlacesOf(g, V)) = Cardinality(PlacesOf(f, V)) /\ IsFiniteSet(PlacesOf(g, V))
<1>1. PICK b : Matches(b, f, g)
  BY DEF Same
<1> DEFINE here == PlacesOf(f, V)
           there == PlacesOf(g, V)
           d == [x \in here |-> b[x]]
<1>2. \A x \in here : b[x] \in there /\ x \in DOMAIN f
  BY <1>1 DEF Matches, PlacesOf
<1>3. d \in Bijection(here, there)
  <2>1. d \in [here -> there]
    BY <1>2
  <2>2. \A x, y \in here : d[x] = d[y] => x = y
    BY <1>1, <1>2 DEF Matches
  <2>3. \A z \in there : \E x \in here : d[x] = z
    BY <1>1 DEF Matches, PlacesOf
  <2> HIDE DEF d, here, there
  <2> QED
    BY <2>1, <2>2, <2>3, Fun_IsBij
<1>4. ExistsBijection(here, there)
  <2> HIDE DEF d, here, there
  <2> QED
    BY <1>3 DEF ExistsBijection
<1> QED
  BY <1>4, FS_Bijection

\* Two sequences one after the other
LEMMA SplitTwo ==
  ASSUME NEW s \in Ints, NEW t \in Ints
  PROVE  Same(s \o t, All(<<s, t>>))
<1> DEFINE F == <<s, t>>
           n == Len(s)
           to(i) == IF i <= n THEN <<1, i>> ELSE <<2, i - n>>
           map == [i \in DOMAIN (s \o t) |-> to(i)]
<1>1. /\ n \in Nat /\ Len(t) \in Nat /\ DOMAIN s = 1..n /\ DOMAIN t = 1..Len(t)
      /\ DOMAIN (s \o t) = 1..(n + Len(t))
      /\ \A i \in 1..n : (s \o t)[i] = s[i]
      /\ \A i \in (n + 1)..(n + Len(t)) : (s \o t)[i] = t[i - n]
  BY ConcatIs
<1>2. DOMAIN F = {1, 2} /\ F[1] = s /\ F[2] = t
  OBVIOUS
<1> HIDE DEF F, n
<1>3. \A i \in 1..(n + Len(t)) : to(i) \in Places(F) /\ All(F)[to(i)] = (s \o t)[i]
  <2> SUFFICES ASSUME NEW i \in 1..(n + Len(t)) PROVE to(i) \in Places(F) /\ All(F)[to(i)] = (s \o t)[i]
    OBVIOUS
  <2>1. CASE i <= n
    <3>1. i \in DOMAIN F[1] /\ 1 \in DOMAIN F /\ F[1][i] = (s \o t)[i]
      BY <1>1, <1>2, <2>1
    <3> QED
      BY <2>1, <3>1, PlacesAre
  <2>2. CASE ~ (i <= n)
    <3>1. i \in (n + 1)..(n + Len(t)) /\ i - n \in 1..Len(t)
      BY <1>1, <2>2
    <3>2. i - n \in DOMAIN F[2] /\ 2 \in DOMAIN F /\ F[2][i - n] = (s \o t)[i]
      BY <1>1, <1>2, <3>1
    <3> DEFINE h == i - n
    <3>3. to(i) = <<2, h>> /\ h \in DOMAIN F[2] /\ 2 \in DOMAIN F /\ F[2][h] = (s \o t)[i]
      BY <2>2, <3>2
    <3> HIDE DEF h, to
    <3>4. <<2, h>> \in Places(F) /\ All(F)[<<2, h>>] = F[2][h]
      <4>1. \A k \in DOMAIN F : \A x \in DOMAIN F[k] : <<k, x>> \in Places(F) /\ All(F)[<<k, x>>] = F[k][x]
        BY PlacesAre
      <4>2. \A x \in DOMAIN F[2] : <<2, x>> \in Places(F) /\ All(F)[<<2, x>>] = F[2][x]
        BY <3>3, <4>1
      <4> QED
        BY <3>3, <4>2
    <3> QED
      BY <3>3, <3>4
  <2> QED
    BY <2>1, <2>2
<1>4. map \in [DOMAIN (s \o t) -> DOMAIN All(F)]
  <2>1. DOMAIN All(F) = Places(F)
    BY PlacesAre
  <2> HIDE DEF to
  <2> QED
    BY <1>1, <1>3, <2>1
<1>5. \A i, j \in DOMAIN (s \o t) : map[i] = map[j] => i = j
  BY <1>1
<1>6. \A z \in DOMAIN All(F) : \E i \in DOMAIN (s \o t) : map[i] = z
  <2> SUFFICES ASSUME NEW z \in Places(F) PROVE \E i \in DOMAIN (s \o t) : map[i] = z
    BY PlacesAre
  <2>1. z[1] \in {1, 2} /\ z[2] \in DOMAIN F[z[1]] /\ z = <<z[1], z[2]>>
    BY <1>2, PlacesAre
  <2>2. CASE z[1] = 1
    <3>1. z[2] \in 1..n /\ z[2] \in 1..(n + Len(t)) /\ z[2] <= n
      BY <1>1, <1>2, <2>1, <2>2
    <3> QED
      BY <1>1, <2>1, <2>2, <3>1
  <2>3. CASE z[1] = 2
    <3> DEFINE i == n + z[2]
    <3>1. z[2] \in 1..Len(t) /\ z[2] \in Int
      BY <1>1, <1>2, <2>1, <2>3
    <3>2. i \in 1..(n + Len(t)) /\ ~ (i <= n) /\ i - n = z[2]
      BY <1>1, <3>1
    <3> HIDE DEF i
    <3>3. to(i) = z
      BY <2>1, <2>3, <3>2
    <3> HIDE DEF to
    <3> QED
      BY <1>1, <3>2, <3>3
  <2> QED
    BY <2>1, <2>2, <2>3
<1>7. \A i \in DOMAIN (s \o t) : All(F)[map[i]] = (s \o t)[i]
  <2> HIDE DEF to
  <2> QED
    BY <1>1, <1>3
<1>8. Matches(map, s \o t, All(F))
  <2> HIDE DEF map
  <2> QED
    BY <1>4, <1>5, <1>6, <1>7 DEF Matches
<1>9. Same(s \o t, All(F))
  BY <1>8 DEF Same
<1> QED
  BY <1>9 DEF F

LEMMA SameConcat ==
  ASSUME NEW s \in Ints, NEW t \in Ints, NEW u \in Ints, NEW v \in Ints, Same(s, u), Same(t, v)
  PROVE  Same(s \o t, u \o v)
<1> DEFINE F == <<s, t>>
           G == <<u, v>>
<1>1. DOMAIN F = DOMAIN G /\ \A k \in DOMAIN F : Same(F[k], G[k])
  <2>1. DOMAIN F = {1, 2} /\ DOMAIN G = {1, 2} /\ F[1] = s /\ F[2] = t /\ G[1] = u /\ G[2] = v
    OBVIOUS
  <2> HIDE DEF F, G
  <2> QED
    BY <2>1
<1>2. Same(s \o t, All(F)) /\ Same(u \o v, All(G))
  BY SplitTwo
<1> HIDE DEF F, G
<1>3. Same(All(F), All(G))
  BY <1>1, SameEach
<1>4. Same(s \o t, All(G))
  BY <1>2, <1>3, SameOn
<1>5. Same(All(G), u \o v)
  BY <1>2, SameBack
<1> QED
  BY <1>4, <1>5, SameOn

\* One alone
LEMMA SameAlone ==
  ASSUME NEW k, NEW F, DOMAIN F = {k}
  PROVE  Same(F[k], All(F))
<1> DEFINE f == F[k]
           map == [x \in DOMAIN f |-> <<k, x>>]
<1>1. \A x \in DOMAIN f : <<k, x>> \in Places(F) /\ All(F)[<<k, x>>] = f[x]
  BY PlacesAre
<1>2. map \in [DOMAIN f -> DOMAIN All(F)]
  BY <1>1, PlacesAre
<1>3. \A z \in DOMAIN All(F) : \E x \in DOMAIN f : map[x] = z
  BY PlacesAre
<1>4. \A x, y \in DOMAIN f : map[x] = map[y] => x = y
  OBVIOUS
<1>5. \A x \in DOMAIN f : All(F)[map[x]] = f[x]
  BY <1>1
<1>6. Matches(map, f, All(F))
  <2> HIDE DEF map, f
  <2> QED
    BY <1>2, <1>3, <1>4, <1>5 DEF Matches
<1> QED
  BY <1>6 DEF Same

-----------------------------------------------------------------------------
(* MSort_merge4 and MSort_merge8                                            *)

Sorted(s) == \A i, j \in DOMAIN s : i <= j => s[i] <= s[j]

\* What the merging of two sequences has taken of each, turn by turn.
Turns(left, right, t) ==
    /\ t \in [0..(Len(left) + Len(right)) -> Nat \X Nat] /\ t[0] = <<0, 0>>
    /\ \A n \in 1..(Len(left) + Len(right)) : t[n] = NextTaken(left, right, t[n - 1])
\* The place that the n-th came from.
From(t, n) == IF t[n][1] > t[n - 1][1] THEN <<1, t[n][1]>> ELSE <<2, t[n][2]>>

LEMMA TurnsAre ==
  ASSUME NEW left \in Ints, NEW right \in Ints
  PROVE  \E t : /\ Turns(left, right, t)
                /\ Merge(left, right) =
                     [n \in 1..(Len(left) + Len(right)) |->
                         IF t[n][1] > t[n - 1][1] THEN left[t[n][1]] ELSE right[t[n][2]]]
<1> DEFINE N == Len(left) + Len(right)
           S == Nat \X Nat
           step == [n \in 1..N |-> [p \in S |-> NextTaken(left, right, p)]]
           first == <<0, 0>>
           Body(g) == [n \in 0..N |-> IF n = 0 THEN <<0, 0>> ELSE NextTaken(left, right, g[n - 1])]
           t == CHOOSE g : g = Body(g)
<1>1. N \in Nat
  BY ConcatIs
<1>2. step \in [1..N -> [S -> S]]
  <2>1. \A p \in S : NextTaken(left, right, p) \in S
    BY DEF NextTaken
  <2> QED
    BY <2>1
<1>3. first \in S
  OBVIOUS
<1>4. \E g : Recurs(g, N, S, first, step)
  <2> HIDE DEF N, S, step, first
  <2>1. Steps(N, S, first, step)
    BY <1>1, <1>2, <1>3 DEF Steps
  <2> QED
    BY <2>1, Recursion
<1>5. PICK g \in [0..N -> S] : g[0] = <<0, 0>> /\ \A n \in 1..N : g[n] = step[n][g[n - 1]]
  BY <1>4 DEF Recurs
<1>6. \A n \in 1..N : g[n] = NextTaken(left, right, g[n - 1])
  <2> SUFFICES ASSUME NEW n \in 1..N PROVE g[n] = NextTaken(left, right, g[n - 1])
    OBVIOUS
  <2>1. n - 1 \in 0..N /\ g[n - 1] \in S
    BY <1>1, <1>5
  <2>2. step[n][g[n - 1]] = NextTaken(left, right, g[n - 1])
    BY <2>1
  <2> HIDE DEF step
  <2> QED
    BY <1>5, <2>2
<1>7. g = Body(g)
  <2>1. \A n \in 0..N : g[n] = IF n = 0 THEN <<0, 0>> ELSE NextTaken(left, right, g[n - 1])
    BY <1>1, <1>5, <1>6
  <2> HIDE DEF N, S
  <2> QED
    BY <1>5, <2>1
<1>8. t = Body(t)
  <2> HIDE DEF Body
  <2> QED
    BY <1>7
<1>9. \A n \in 0..N : t[n] = g[n]
  <2> DEFINE P == {n \in 0..N : t[n] = g[n]}
  <2> HIDE DEF t
  <2>1. 0 \in P
    BY <1>1, <1>5, <1>8
  <2>2. \A n \in 1..N : n - 1 \in P => n \in P
    <3> SUFFICES ASSUME NEW n \in 1..N, n - 1 \in P PROVE t[n] = g[n]
      OBVIOUS
    <3>1. n \in 0..N /\ n # 0 /\ t[n - 1] = g[n - 1]
      BY <1>1
    <3>2. t[n] = NextTaken(left, right, t[n - 1])
      <4> HIDE DEF N
      <4> QED
        BY <1>8, <3>1
    <3> QED
      BY <1>6, <3>1, <3>2
  <2>3. \A n \in 0..N : n \in P
    <3> HIDE DEF P, N
    <3> QED
      BY <1>1, <2>1, <2>2, Upwards
  <2> QED
    BY <2>3
<1>10. Turns(left, right, t)
  <2> HIDE DEF t
  <2>1. t = [n \in 0..N |-> g[n]]
    BY <1>8, <1>9
  <2>2. t \in [0..N -> S]
    BY <1>5, <2>1
  <2>3. t[0] = <<0, 0>>
    BY <1>1, <1>5, <1>9
  <2>4. \A n \in 1..N : n - 1 \in 0..N /\ n \in 0..N
    BY <1>1
  <2>5. \A n \in 1..N : t[n] = NextTaken(left, right, t[n - 1])
    BY <1>6, <1>9, <2>4
  <2> QED
    BY <2>2, <2>3, <2>5 DEF Turns
<1>11. Merge(left, right) = [n \in 1..N |-> IF t[n][1] > t[n - 1][1] THEN left[t[n][1]] ELSE right[t[n][2]]]
  BY DEF Merge
<1> HIDE DEF t
<1> QED
  BY <1>10, <1>11

\* One turn takes from the left or from the right.
FromLeft(left, right, t, n) ==
    /\ t[n - 1][1] < Len(left) /\ t[n] = <<t[n - 1][1] + 1, t[n - 1][2]>>
    /\ t[n - 1][2] < Len(right) => left[t[n - 1][1] + 1] <= right[t[n - 1][2] + 1]
FromRight(left, right, t, n) ==
    /\ t[n - 1][2] < Len(right) /\ t[n] = <<t[n - 1][1], t[n - 1][2] + 1>>
    /\ t[n - 1][1] < Len(left) => right[t[n - 1][2] + 1] <= left[t[n - 1][1] + 1]
Within(left, right, t, n) ==
    t[n][1] \in 0..Len(left) /\ t[n][2] \in 0..Len(right) /\ t[n][1] + t[n][2] = n

LEMMA TurnIs ==
  ASSUME NEW left \in Ints, NEW right \in Ints, NEW t, Turns(left, right, t),
         NEW n \in 1..(Len(left) + Len(right)), Within(left, right, t, n - 1)
  PROVE  Within(left, right, t, n) /\ (FromLeft(left, right, t, n) \/ FromRight(left, right, t, n))
<1> DEFINE x == t[n - 1][1]
           y == t[n - 1][2]
           less == Difference(left[x + 1], right[y + 1]) < 1
<1>1. /\ Len(left) \in Nat /\ Len(right) \in Nat /\ DOMAIN left = 1..Len(left) /\ DOMAIN right = 1..Len(right)
      /\ \A i \in 1..Len(left) : left[i] \in Int
      /\ \A i \in 1..Len(right) : right[i] \in Int
  BY ConcatIs DEF Ints
<1>2. x \in 0..Len(left) /\ y \in 0..Len(right) /\ x + y = n - 1
  BY DEF Within
<1>3. t[n] = NextTaken(left, right, t[n - 1])
  BY DEF Turns
<1> HIDE DEF x, y, less
<1>6. /\ x \in Int /\ y \in Int /\ n \in Int /\ Len(left) \in Int /\ Len(right) \in Int
      /\ x <= Len(left) /\ y <= Len(right) /\ x + y = n - 1 /\ n <= Len(left) + Len(right)
  BY <1>1, <1>2
<1>4. CASE y = Len(right) \/ (x < Len(left) /\ less)
  <2>1. t[n] = <<x + 1, y>>
    BY <1>3, <1>4 DEF NextTaken, less, x, y
  <2>2. x < Len(left)
    BY <1>4, <1>6
  <2>3. y < Len(right) => left[x + 1] <= right[y + 1]
    <3> SUFFICES ASSUME y < Len(right) PROVE left[x + 1] <= right[y + 1]
      OBVIOUS
    <3>1. x + 1 \in 1..Len(left) /\ y + 1 \in 1..Len(right)
      BY <1>1, <1>2, <2>2
    <3>2. left[x + 1] \in Int /\ right[y + 1] \in Int
      BY <1>1, <3>1
    <3>3. Difference(left[x + 1], right[y + 1]) < 1
      <4>1. less
        BY <1>4, <1>6
      <4> QED
        BY <4>1 DEF less
    <3> QED
      BY <3>2, <3>3 DEF Difference
  <2>4. FromLeft(left, right, t, n)
    BY <2>1, <2>2, <2>3 DEF FromLeft, x, y
  <2>5. Within(left, right, t, n)
    <3>1. x + 1 \in 0..Len(left) /\ x + 1 + y = n
      BY <1>1, <1>2, <2>2
    <3>2. t[n][1] = x + 1 /\ t[n][2] = y
      BY <2>1
    <3> QED
      BY <1>2, <3>1, <3>2 DEF Within
  <2> QED
    BY <2>4, <2>5
<1>5. CASE ~ (y = Len(right) \/ (x < Len(left) /\ less))
  <2>1. t[n] = <<x, y + 1>>
    BY <1>3, <1>5 DEF NextTaken, less, x, y
  <2>2. y < Len(right)
    BY <1>5, <1>6
  <2>3. x < Len(left) => right[y + 1] <= left[x + 1]
    <3> SUFFICES ASSUME x < Len(left) PROVE right[y + 1] <= left[x + 1]
      OBVIOUS
    <3>1. x + 1 \in 1..Len(left) /\ y + 1 \in 1..Len(right)
      BY <1>1, <1>2, <2>2
    <3>2. left[x + 1] \in Int /\ right[y + 1] \in Int
      BY <1>1, <3>1
    <3>3. ~ (Difference(left[x + 1], right[y + 1]) < 1)
      <4>1. ~ less
        BY <1>5, <1>6
      <4> QED
        BY <4>1 DEF less
    <3>4. ~ (left[x + 1] - right[y + 1] < 1)
      BY <3>3 DEF Difference
    <3> QED
      BY <3>2, <3>4
  <2>4. FromRight(left, right, t, n)
    BY <2>1, <2>2, <2>3 DEF FromRight, x, y
  <2>5. Within(left, right, t, n)
    <3>1. y + 1 \in 0..Len(right) /\ x + (y + 1) = n
      BY <1>1, <1>2, <2>2
    <3>2. t[n][1] = x /\ t[n][2] = y + 1
      BY <2>1
    <3> QED
      BY <1>2, <3>1, <3>2 DEF Within
  <2> QED
    BY <2>4, <2>5
<1> QED
  BY <1>4, <1>5

\* Which of the two each turn took, by what the turn before had left.
LEMMA TurnsTake ==
  ASSUME NEW left \in Ints, NEW right \in Ints, NEW t, Turns(left, right, t)
  PROVE  /\ \A n \in 0..(Len(left) + Len(right)) : Within(left, right, t, n)
         /\ \A n \in 1..(Len(left) + Len(right)) :
               FromLeft(left, right, t, n) \/ FromRight(left, right, t, n)
<1> DEFINE N == Len(left) + Len(right)
           P == {n \in 0..N : Within(left, right, t, n)}
<1>1. N \in Nat /\ Len(left) \in Nat /\ Len(right) \in Nat
  BY ConcatIs
<1>2. 0 \in P
  BY <1>1 DEF Within, Turns
<1>3. \A n \in 1..N : n - 1 \in P => n \in P
  BY <1>1, TurnIs
<1>4. \A n \in 0..N : n \in P
  <2> HIDE DEF P, N
  <2> QED
    BY <1>1, <1>2, <1>3, Upwards
<1>5. \A n \in 1..N : n - 1 \in 0..N
  BY <1>1
<1>6. \A n \in 1..N : Within(left, right, t, n - 1)
  BY <1>4, <1>5
<1> QED
  BY <1>4, <1>6, TurnIs

\* What has been taken only grows.
LEMMA TurnsGrow ==
  ASSUME NEW left \in Ints, NEW right \in Ints, NEW t, Turns(left, right, t)
  PROVE  \A n \in 0..(Len(left) + Len(right)) : \A j \in 0..n :
            t[j][1] <= t[n][1] /\ t[j][2] <= t[n][2]
<1> DEFINE N == Len(left) + Len(right)
           P == {n \in 0..N : \A j \in 0..n : t[j][1] <= t[n][1] /\ t[j][2] <= t[n][2]}
<1>1. N \in Nat
  BY ConcatIs
<1>2. \A n \in 0..N : t[n][1] \in Int /\ t[n][2] \in Int
  BY TurnsTake DEF Within
<1>3. 0 \in P
  BY <1>1, <1>2
<1>4. \A n \in 1..N : n - 1 \in P => n \in P
  <2> SUFFICES ASSUME NEW n \in 1..N, n - 1 \in P, NEW j \in 0..n
               PROVE  t[j][1] <= t[n][1] /\ t[j][2] <= t[n][2]
    BY <1>1
  <2>1. n \in 0..N /\ n - 1 \in 0..N
    BY <1>1
  <2>2. t[n] = <<t[n - 1][1] + 1, t[n - 1][2]>> \/ t[n] = <<t[n - 1][1], t[n - 1][2] + 1>>
    BY TurnsTake DEF FromLeft, FromRight
  <2>3. CASE j = n
    BY <1>2, <2>1, <2>3
  <2>4. CASE j # n
    <3>1. j \in 0..(n - 1) /\ j \in 0..N
      BY <1>1, <2>4
    <3>2. t[j][1] <= t[n - 1][1] /\ t[j][2] <= t[n - 1][2]
      BY <3>1
    <3>3. t[j][1] \in Int /\ t[j][2] \in Int /\ t[n - 1][1] \in Int /\ t[n - 1][2] \in Int
      BY <1>2, <2>1, <3>1
    <3>4. /\ t[n][1] = t[n - 1][1] \/ t[n][1] = t[n - 1][1] + 1
          /\ t[n][2] = t[n - 1][2] \/ t[n][2] = t[n - 1][2] + 1
      BY <2>2
    <3> HIDE DEF P
    <3> QED
      BY <3>2, <3>3, <3>4
  <2> QED
    BY <2>3, <2>4
<1>5. \A n \in 0..N : n \in P
  <2> HIDE DEF P, N
  <2> QED
    BY <1>1, <1>3, <1>4, Upwards
<1> QED
  BY <1>5

\* Where each item of what is merged came from.
LEMMA FromIs ==
  ASSUME NEW left \in Ints, NEW right \in Ints, NEW t, Turns(left, right, t),
         NEW n \in 1..(Len(left) + Len(right))
  PROVE  /\ t[n][1] \in Int /\ t[n][2] \in Int /\ t[n - 1][1] \in Nat /\ t[n - 1][2] \in Nat
         /\ \/ /\ FromLeft(left, right, t, n) /\ t[n][1] = t[n - 1][1] + 1 /\ t[n][2] = t[n - 1][2]
               /\ From(t, n) = <<1, t[n][1]>> /\ t[n][1] \in 1..Len(left) /\ t[n][1] > t[n - 1][1]
            \/ /\ FromRight(left, right, t, n) /\ t[n][2] = t[n - 1][2] + 1 /\ t[n][1] = t[n - 1][1]
               /\ From(t, n) = <<2, t[n][2]>> /\ t[n][2] \in 1..Len(right) /\ ~ (t[n][1] > t[n - 1][1])
<1>0. Len(left) \in Nat /\ Len(right) \in Nat
  BY ConcatIs
<1>1. n - 1 \in 0..(Len(left) + Len(right)) /\ n \in 0..(Len(left) + Len(right)) /\ Len(left) \in Nat /\ Len(right) \in Nat
  BY <1>0
<1>2. Within(left, right, t, n - 1) /\ Within(left, right, t, n)
  BY <1>1, TurnsTake
<1>3. /\ t[n][1] \in Int /\ t[n][2] \in Int /\ t[n - 1][1] \in Nat /\ t[n - 1][2] \in Nat
  BY <1>1, <1>2 DEF Within
<1>4. CASE FromLeft(left, right, t, n)
  <2>1. t[n][1] = t[n - 1][1] + 1 /\ t[n][2] = t[n - 1][2]
    BY <1>4 DEF FromLeft
  <2>2. t[n][1] \in 1..Len(left) /\ t[n][1] > t[n - 1][1]
    BY <1>1, <1>2, <1>3, <2>1 DEF Within
  <2>3. From(t, n) = <<1, t[n][1]>>
    BY <2>2 DEF From
  <2> QED
    BY <1>3, <1>4, <2>1, <2>2, <2>3
<1>5. CASE FromRight(left, right, t, n)
  <2>1. t[n][2] = t[n - 1][2] + 1 /\ t[n][1] = t[n - 1][1]
    BY <1>5 DEF FromRight
  <2>2. t[n][2] \in 1..Len(right) /\ ~ (t[n][1] > t[n - 1][1])
    BY <1>1, <1>2, <1>3, <2>1 DEF Within
  <2>3. From(t, n) = <<2, t[n][2]>>
    BY <2>2 DEF From
  <2> QED
    BY <1>3, <1>5, <2>1, <2>2, <2>3
<1> QED
  BY <1>4, <1>5, TurnsTake

\* Every place is taken from in some turn.
LEMMA FromAll ==
  ASSUME NEW left \in Ints, NEW right \in Ints, NEW t, Turns(left, right, t)
  PROVE  /\ \A i \in 1..Len(left) : \E j \in 1..(Len(left) + Len(right)) : From(t, j) = <<1, i>>
         /\ \A i \in 1..Len(right) : \E j \in 1..(Len(left) + Len(right)) : From(t, j) = <<2, i>>
<1> DEFINE N == Len(left) + Len(right)
           Of(n) == /\ \A i \in 1..t[n][1] : \E j \in 1..n : From(t, j) = <<1, i>>
                    /\ \A i \in 1..t[n][2] : \E j \in 1..n : From(t, j) = <<2, i>>
           P == {n \in 0..N : Of(n)}
<1>1. N \in Nat /\ Len(left) \in Nat /\ Len(right) \in Nat
  BY ConcatIs
<1>2. 0 \in P
  BY <1>1 DEF Turns
<1>3. \A n \in 1..N : n - 1 \in P => n \in P
  <2> SUFFICES ASSUME NEW n \in 1..N, n - 1 \in P PROVE Of(n)
    BY <1>1
  <2>1. /\ \A i \in 1..t[n - 1][1] : \E j \in 1..(n - 1) : From(t, j) = <<1, i>>
        /\ \A i \in 1..t[n - 1][2] : \E j \in 1..(n - 1) : From(t, j) = <<2, i>>
    OBVIOUS
  <2> HIDE DEF P
  <2>2. \A j \in 1..(n - 1) : j \in 1..n
    BY <1>1
  <2>3. n \in 1..n
    BY <1>1
  <2>4. /\ t[n][1] \in Int /\ t[n][2] \in Int /\ t[n - 1][1] \in Nat /\ t[n - 1][2] \in Nat
        /\ \/ /\ t[n][1] = t[n - 1][1] + 1 /\ t[n][2] = t[n - 1][2] /\ From(t, n) = <<1, t[n][1]>>
           \/ /\ t[n][2] = t[n - 1][2] + 1 /\ t[n][1] = t[n - 1][1] /\ From(t, n) = <<2, t[n][2]>>
    BY FromIs
  <2>5. \A i \in 1..t[n][1] : \E j \in 1..n : From(t, j) = <<1, i>>
    <3> SUFFICES ASSUME NEW i \in 1..t[n][1] PROVE \E j \in 1..n : From(t, j) = <<1, i>>
      OBVIOUS
    <3>1. CASE i \in 1..t[n - 1][1]
      BY <2>1, <2>2, <3>1
    <3>2. CASE i \notin 1..t[n - 1][1]
      <4>1. i = t[n][1] /\ From(t, n) = <<1, t[n][1]>>
        BY <2>4, <3>2
      <4> QED
        BY <2>3, <4>1
    <3> QED
      BY <3>1, <3>2
  <2>6. \A i \in 1..t[n][2] : \E j \in 1..n : From(t, j) = <<2, i>>
    <3> SUFFICES ASSUME NEW i \in 1..t[n][2] PROVE \E j \in 1..n : From(t, j) = <<2, i>>
      OBVIOUS
    <3>1. CASE i \in 1..t[n - 1][2]
      BY <2>1, <2>2, <3>1
    <3>2. CASE i \notin 1..t[n - 1][2]
      <4>1. i = t[n][2] /\ From(t, n) = <<2, t[n][2]>>
        BY <2>4, <3>2
      <4> QED
        BY <2>3, <4>1
    <3> QED
      BY <3>1, <3>2
  <2> QED
    BY <2>5, <2>6
<1>4. N \in P
  <2>1. N \in 0..N
    BY <1>1
  <2> HIDE DEF P, N
  <2> QED
    BY <1>1, <1>2, <1>3, <2>1, Upwards
<1>5. t[N][1] = Len(left) /\ t[N][2] = Len(right)
  <2>1. Within(left, right, t, N)
    BY <1>1, TurnsTake
  <2> QED
    BY <1>1, <2>1 DEF Within
<1> QED
  BY <1>4, <1>5

\* Merging two sorted sequences puts the items of both in order.
LEMMA MergeIs ==
  ASSUME NEW left \in Ints, NEW right \in Ints
  PROVE  /\ Merge(left, right) \in Ints
         /\ Len(Merge(left, right)) = Len(left) + Len(right)
         /\ Same(Merge(left, right), left \o right)
         /\ Sorted(left) /\ Sorted(right) => Sorted(Merge(left, right))
<1> DEFINE N == Len(left) + Len(right)
           F == <<left, right>>
           m == Merge(left, right)
<1>1. /\ N \in Nat /\ Len(left) \in Nat /\ Len(right) \in Nat
      /\ DOMAIN left = 1..Len(left) /\ DOMAIN right = 1..Len(right)
      /\ \A i \in 1..Len(left) : left[i] \in Int
      /\ \A i \in 1..Len(right) : right[i] \in Int
  BY ConcatIs DEF Ints
<1>2. PICK t : /\ Turns(left, right, t)
               /\ m = [n \in 1..N |-> IF t[n][1] > t[n - 1][1] THEN left[t[n][1]] ELSE right[t[n][2]]]
  BY TurnsAre
<1> HIDE DEF m
<1>3. DOMAIN F = {1, 2} /\ F[1] = left /\ F[2] = right
  OBVIOUS
<1> HIDE DEF F
<1> DEFINE Left(n) == /\ FromLeft(left, right, t, n) /\ t[n][1] = t[n - 1][1] + 1 /\ t[n][2] = t[n - 1][2]
                      /\ From(t, n) = <<1, t[n][1]>> /\ t[n][1] \in 1..Len(left) /\ m[n] = left[t[n][1]]
           Right(n) == /\ FromRight(left, right, t, n) /\ t[n][2] = t[n - 1][2] + 1 /\ t[n][1] = t[n - 1][1]
                       /\ From(t, n) = <<2, t[n][2]>> /\ t[n][2] \in 1..Len(right) /\ m[n] = right[t[n][2]]
<1>4. \A n \in 1..N :
         /\ t[n][1] \in Int /\ t[n][2] \in Int /\ t[n - 1][1] \in Nat /\ t[n - 1][2] \in Nat
         /\ Left(n) \/ Right(n)
  <2> SUFFICES ASSUME NEW n \in 1..N
               PROVE  /\ t[n][1] \in Int /\ t[n][2] \in Int /\ t[n - 1][1] \in Nat /\ t[n - 1][2] \in Nat
                      /\ Left(n) \/ Right(n)
    OBVIOUS
  <2>1. /\ t[n][1] \in Int /\ t[n][2] \in Int /\ t[n - 1][1] \in Nat /\ t[n - 1][2] \in Nat
        /\ \/ /\ FromLeft(left, right, t, n) /\ t[n][1] = t[n - 1][1] + 1 /\ t[n][2] = t[n - 1][2]
              /\ From(t, n) = <<1, t[n][1]>> /\ t[n][1] \in 1..Len(left) /\ t[n][1] > t[n - 1][1]
           \/ /\ FromRight(left, right, t, n) /\ t[n][2] = t[n - 1][2] + 1 /\ t[n][1] = t[n - 1][1]
              /\ From(t, n) = <<2, t[n][2]>> /\ t[n][2] \in 1..Len(right) /\ ~ (t[n][1] > t[n - 1][1])
    BY <1>2, FromIs
  <2>2. m[n] = IF t[n][1] > t[n - 1][1] THEN left[t[n][1]] ELSE right[t[n][2]]
    BY <1>2
  <2> QED
    BY <2>1, <2>2
<1>5. \A n \in 1..N : m[n] \in Int
  BY <1>1, <1>4
<1>6. m \in Ints /\ Len(m) = N /\ DOMAIN m = 1..N
  <2>1. m = [n \in 1..N |-> m[n]]
    BY <1>2
  <2> HIDE DEF N
  <2>2. m \in [1..N -> Int]
    BY <1>5, <2>1
  <2> QED
    BY <1>1, <2>2 DEF Ints
<1>7. \A j, n \in 1..N : j < n => t[j][1] <= t[n - 1][1] /\ t[j][2] <= t[n - 1][2]
  <2> SUFFICES ASSUME NEW j \in 1..N, NEW n \in 1..N, j < n
               PROVE  t[j][1] <= t[n - 1][1] /\ t[j][2] <= t[n - 1][2]
    OBVIOUS
  <2>1. n - 1 \in 0..N /\ j \in 0..(n - 1)
    BY <1>1
  <2> QED
    BY <1>2, <2>1, TurnsGrow
<1>8. Same(m, left \o right)
  <2> DEFINE map == [n \in 1..N |-> From(t, n)]
  <2>1. \A n \in 1..N : From(t, n) \in Places(F) /\ All(F)[From(t, n)] = m[n]
    <3> SUFFICES ASSUME NEW n \in 1..N PROVE From(t, n) \in Places(F) /\ All(F)[From(t, n)] = m[n]
      OBVIOUS
    <3>1. CASE Left(n)
      <4>1. 1 \in DOMAIN F /\ t[n][1] \in DOMAIN F[1] /\ F[1][t[n][1]] = m[n]
        BY <1>1, <1>3, <3>1
      <4> QED
        BY <3>1, <4>1, PlacesAre
    <3>2. CASE Right(n)
      <4>1. 2 \in DOMAIN F /\ t[n][2] \in DOMAIN F[2] /\ F[2][t[n][2]] = m[n]
        BY <1>1, <1>3, <3>2
      <4> QED
        BY <3>2, <4>1, PlacesAre
    <3> QED
      BY <1>4, <3>1, <3>2
  <2>2. DOMAIN All(F) = Places(F)
    BY PlacesAre
  <2>3. map \in [DOMAIN m -> DOMAIN All(F)]
    BY <1>6, <2>1, <2>2
  <2>4. \A j, n \in 1..N : j < n => map[j] # map[n]
    <3> SUFFICES ASSUME NEW j \in 1..N, NEW n \in 1..N, j < n, From(t, j) = From(t, n) PROVE FALSE
      OBVIOUS
    <3>1. t[j][1] <= t[n - 1][1] /\ t[j][2] <= t[n - 1][2]
      BY <1>7
    <3>2. /\ t[n][1] \in Int /\ t[n][2] \in Int /\ t[n - 1][1] \in Nat /\ t[n - 1][2] \in Nat
          /\ t[j][1] \in Int /\ t[j][2] \in Int
          /\ Left(n) \/ Right(n)
          /\ Left(j) \/ Right(j)
      BY <1>4
    <3>3. \/ From(t, n) = <<1, t[n][1]>> /\ t[n][1] = t[n - 1][1] + 1
          \/ From(t, n) = <<2, t[n][2]>> /\ t[n][2] = t[n - 1][2] + 1
      BY <3>2
    <3>4. From(t, j) = <<1, t[j][1]>> \/ From(t, j) = <<2, t[j][2]>>
      BY <3>2
    <3>5. \/ t[n][1] = t[j][1] /\ t[n][1] = t[n - 1][1] + 1
          \/ t[n][2] = t[j][2] /\ t[n][2] = t[n - 1][2] + 1
      BY <3>3, <3>4
    <3> QED
      BY <3>1, <3>2, <3>5
  <2>5. \A j, n \in DOMAIN m : map[j] = map[n] => j = n
    <3> SUFFICES ASSUME NEW j \in 1..N, NEW n \in 1..N, map[j] = map[n], j # n PROVE FALSE
      BY <1>6
    <3>1. j < n \/ n < j
      BY <1>1
    <3> HIDE DEF map
    <3> QED
      BY <2>4, <3>1
  <2>6. \A z \in DOMAIN All(F) : \E n \in DOMAIN m : map[n] = z
    <3> SUFFICES ASSUME NEW z \in Places(F) PROVE \E n \in 1..N : From(t, n) = z
      BY <1>6, <2>2
    <3>1. z[1] \in {1, 2} /\ z[2] \in DOMAIN F[z[1]] /\ z = <<z[1], z[2]>>
      BY <1>3, PlacesAre
    <3>2. CASE z[1] = 1
      <4>1. z[2] \in 1..Len(left)
        BY <1>1, <1>3, <3>1, <3>2
      <4> QED
        BY <1>2, <3>1, <3>2, <4>1, FromAll
    <3>3. CASE z[1] = 2
      <4>1. z[2] \in 1..Len(right)
        BY <1>1, <1>3, <3>1, <3>3
      <4> QED
        BY <1>2, <3>1, <3>3, <4>1, FromAll
    <3> QED
      BY <3>1, <3>2, <3>3
  <2>7. \A n \in DOMAIN m : All(F)[map[n]] = m[n]
    BY <1>6, <2>1
  <2>8. Matches(map, m, All(F))
    <3> HIDE DEF map
    <3> QED
      BY <2>3, <2>5, <2>6, <2>7 DEF Matches
  <2>9. Same(m, All(F))
    BY <2>8 DEF Same
  <2>10. Same(left \o right, All(F))
    BY SplitTwo DEF F
  <2> QED
    BY <2>9, <2>10, SameBack, SameOn
<1>9. ASSUME Sorted(left), Sorted(right) PROVE Sorted(m)
  <2>1. /\ \A i, j \in 1..Len(left) : i <= j => left[i] <= left[j]
        /\ \A i, j \in 1..Len(right) : i <= j => right[i] <= right[j]
    BY <1>1, <1>9 DEF Sorted
  <2>2. \A j, n \in 1..N : j < n => m[j] <= m[n]
    <3> SUFFICES ASSUME NEW j \in 1..N, NEW n \in 1..N, j < n PROVE m[j] <= m[n]
      OBVIOUS
    <3>1. t[j][1] <= t[n - 1][1] /\ t[j][2] <= t[n - 1][2]
      BY <1>7
    <3>2. /\ t[n][1] \in Int /\ t[n][2] \in Int /\ t[n - 1][1] \in Int /\ t[n - 1][2] \in Int
          /\ t[j][1] \in Int /\ t[j][2] \in Int /\ t[j - 1][1] \in Nat /\ t[j - 1][2] \in Nat
      BY <1>4
    <3> DEFINE x == t[j][1]
               y == t[j][2]
               u == t[n][1]
               v == t[n][2]
               u0 == t[n - 1][1]
               v0 == t[n - 1][2]
    <3>3. x \in Int /\ y \in Int /\ u \in Int /\ v \in Int /\ u0 \in Int /\ v0 \in Int /\ x <= u0 /\ y <= v0
      BY <3>1, <3>2
    <3>4. \/ /\ x \in 1..Len(left) /\ m[j] = left[x] /\ y \in Nat
             /\ y < Len(right) => left[x] <= right[y + 1]
          \/ /\ y \in 1..Len(right) /\ m[j] = right[y] /\ x \in Nat
             /\ x < Len(left) => right[y] <= left[x + 1]
      <4>1. CASE Left(j)
        <5>1. y = t[j - 1][2] /\ x = t[j - 1][1] + 1 /\ x \in 1..Len(left) /\ m[j] = left[x]
          BY <4>1
        <5>2. y < Len(right) => left[x] <= right[y + 1]
          BY <4>1, <5>1 DEF FromLeft
        <5> QED
          BY <3>2, <5>1, <5>2
      <4>2. CASE Right(j)
        <5>1. x = t[j - 1][1] /\ y = t[j - 1][2] + 1 /\ y \in 1..Len(right) /\ m[j] = right[y]
          BY <4>2
        <5>2. x < Len(left) => right[y] <= left[x + 1]
          BY <4>2, <5>1 DEF FromRight
        <5> QED
          BY <3>2, <5>1, <5>2
      <4> QED
        BY <1>4, <4>1, <4>2
    <3>5. \/ u = u0 + 1 /\ u \in 1..Len(left) /\ m[n] = left[u]
          \/ v = v0 + 1 /\ v \in 1..Len(right) /\ m[n] = right[v]
      <4>1. Left(n) \/ Right(n)
        BY <1>4
      <4> QED
        BY <4>1
    <3> HIDE DEF x, y, u, v, u0, v0, Left, Right
    <3>6. CASE x \in 1..Len(left) /\ m[j] = left[x] /\ u = u0 + 1 /\ u \in 1..Len(left) /\ m[n] = left[u]
      <4>1. x <= u
        BY <3>3, <3>6
      <4> QED
        BY <2>1, <3>6, <4>1
    <3>7. CASE y \in 1..Len(right) /\ m[j] = right[y] /\ v = v0 + 1 /\ v \in 1..Len(right) /\ m[n] = right[v]
      <4>1. y <= v
        BY <3>3, <3>7
      <4> QED
        BY <2>1, <3>7, <4>1
    <3>8. CASE /\ x \in 1..Len(left) /\ m[j] = left[x] /\ y \in Nat /\ (y < Len(right) => left[x] <= right[y + 1])
               /\ v = v0 + 1 /\ v \in 1..Len(right) /\ m[n] = right[v]
      <4>1. y + 1 <= v /\ y + 1 \in 1..Len(right) /\ y < Len(right)
        BY <1>1, <3>3, <3>8
      <4>2. right[y + 1] <= right[v] /\ left[x] <= right[y + 1]
        BY <2>1, <3>8, <4>1
      <4>3. left[x] \in Int /\ right[y + 1] \in Int /\ right[v] \in Int
        BY <1>1, <3>8, <4>1
      <4> QED
        BY <3>8, <4>2, <4>3
    <3>9. CASE /\ y \in 1..Len(right) /\ m[j] = right[y] /\ x \in Nat /\ (x < Len(left) => right[y] <= left[x + 1])
               /\ u = u0 + 1 /\ u \in 1..Len(left) /\ m[n] = left[u]
      <4>1. x + 1 <= u /\ x + 1 \in 1..Len(left) /\ x < Len(left)
        BY <1>1, <3>3, <3>9
      <4>2. left[x + 1] <= left[u] /\ right[y] <= left[x + 1]
        BY <2>1, <3>9, <4>1
      <4>3. right[y] \in Int /\ left[x + 1] \in Int /\ left[u] \in Int
        BY <1>1, <3>9, <4>1
      <4> QED
        BY <3>9, <4>2, <4>3
    <3> QED
      BY <3>4, <3>5, <3>6, <3>7, <3>8, <3>9
  <2>3. \A j \in 1..N : m[j] <= m[j]
    BY <1>5
  <2>4. \A j, n \in 1..N : j <= n => j < n \/ j = n
    BY <1>1
  <2> HIDE DEF N
  <2> QED
    BY <1>6, <2>2, <2>3, <2>4 DEF Sorted
<1> QED
  BY <1>6, <1>8, <1>9 DEF m

-----------------------------------------------------------------------------
(* S_do_sort4 and S_do_sort8                                                *)

\* The first and the last tick of both halves of a part.
Middle(ticks) == ((ticks[2] + ticks[1]) \div 2) + 1
Lower(ticks) == <<ticks[1], Middle(ticks) - 1>>
Upper(ticks) == <<Middle(ticks), ticks[2]>>
Parts(elems) == (0..(Len(elems) - 1)) \X (0..(Len(elems) - 1))
Width(ticks) == ticks[2] - ticks[1]

LEMMA HalvesAre ==
  ASSUME NEW elems \in Ints, NEW ticks \in Parts(elems)
  PROVE  /\ ticks[1] \in 0..(Len(elems) - 1) /\ ticks[2] \in 0..(Len(elems) - 1) /\ Width(ticks) \in Int
         /\ ticks[2] > ticks[1] =>
               /\ Lower(ticks) \in Parts(elems) /\ Upper(ticks) \in Parts(elems)
               /\ Width(ticks) > 0 /\ Width(Lower(ticks)) < Width(ticks) /\ Width(Upper(ticks)) < Width(ticks)
               /\ Width(Lower(ticks)) >= 0 /\ Width(Upper(ticks)) >= 0
               /\ Width(Lower(ticks)) \in Int /\ Width(Upper(ticks)) \in Int
               /\ Lower(ticks)[1] = ticks[1] /\ Upper(ticks)[2] = ticks[2]
               /\ Upper(ticks)[1] = Lower(ticks)[2] + 1
<1> DEFINE left == ticks[1]
           right == ticks[2]
           mid == Middle(ticks)
<1>1. /\ Len(elems) \in Nat /\ left \in 0..(Len(elems) - 1) /\ right \in 0..(Len(elems) - 1)
      /\ left \in Int /\ right \in Int
  BY DEF Parts, Ints
<1>2. Width(ticks) = right - left
  BY DEF Width
<1>3. ASSUME right > left
      PROVE  mid \in Int /\ mid > left /\ mid <= right
  BY <1>1, <1>3 DEF Middle
<1> HIDE DEF left, right, mid
<1>4. ASSUME right > left
      PROVE  /\ mid \in 0..(Len(elems) - 1) /\ mid - 1 \in 0..(Len(elems) - 1)
             /\ right - left > 0 /\ (mid - 1) - left < right - left /\ right - mid < right - left
             /\ (mid - 1) - left >= 0 /\ right - mid >= 0 /\ (mid - 1) - left \in Int /\ right - mid \in Int
             /\ mid = (mid - 1) + 1
  BY <1>1, <1>3, <1>4
<1>5. /\ Width(Lower(ticks)) = (mid - 1) - left /\ Width(Upper(ticks)) = right - mid
      /\ Lower(ticks)[1] = left /\ Lower(ticks)[2] = mid - 1 /\ Upper(ticks)[1] = mid /\ Upper(ticks)[2] = right
  BY DEF Width, Lower, Upper, left, right, mid
<1>6. ASSUME right > left
      PROVE  Lower(ticks) \in Parts(elems) /\ Upper(ticks) \in Parts(elems)
  <2>1. Lower(ticks) = <<left, mid - 1>> /\ Upper(ticks) = <<mid, right>>
    BY DEF Lower, Upper, left, right, mid
  <2> DEFINE before == mid - 1
             T == 0..(Len(elems) - 1)
  <2>2. left \in T /\ right \in T /\ mid \in T /\ before \in T
    BY <1>1, <1>4, <1>6
  <2>3. Lower(ticks) = <<left, before>>
    BY <2>1
  <2>4. Parts(elems) = T \X T
    BY DEF Parts
  <2> HIDE DEF T, before
  <2> QED
    BY <2>1, <2>2, <2>3, <2>4
<1>7. right - left \in Int /\ left = ticks[1] /\ right = ticks[2]
  BY <1>1 DEF left, right
<1> QED
  BY <1>1, <1>2, <1>4, <1>5, <1>6, <1>7

\* What the sorting of a part is, if sorting its halves is known.
SortedPart(elems, g, ticks) ==
    IF ticks[2] > ticks[1] THEN Merge(g[Lower(ticks)], g[Upper(ticks)]) ELSE <<elems[ticks[1] + 1]>>
SortedParts(elems, g) == [ticks \in Parts(elems) |-> SortedPart(elems, g, ticks)]

\* The recursion ends: as many levels as there are elements are enough.
LEMMA LevelsAre ==
  ASSUME NEW elems \in Ints, elems # <<>>
  PROVE  \E g : g = SortedParts(elems, g)
<1> DEFINE L == Len(elems)
           T == Parts(elems)
           S == [T -> Ints]
           first == [ticks \in T |-> <<elems[ticks[1] + 1]>>]
           step == [n \in 1..L |-> [g \in S |-> SortedParts(elems, g)]]
<1>1. L \in Nat /\ L >= 1 /\ \A i \in 1..L : elems[i] \in Int
  BY DEF Ints
<1>2. \A ticks \in T : <<elems[ticks[1] + 1]>> \in Ints
  <2> SUFFICES ASSUME NEW ticks \in T PROVE <<elems[ticks[1] + 1]>> \in Ints
    OBVIOUS
  <2>1. ticks[1] + 1 \in 1..L
    BY <1>1, HalvesAre
  <2>2. elems[ticks[1] + 1] \in Int
    BY <1>1, <2>1
  <2> QED
    BY <2>2 DEF Ints
<1>3. first \in S
  BY <1>2
<1>4. \A g \in S : SortedParts(elems, g) \in S
  <2> SUFFICES ASSUME NEW g \in S, NEW ticks \in T
               PROVE  SortedPart(elems, g, ticks) \in Ints
    BY DEF SortedParts
  <2>1. CASE ticks[2] > ticks[1]
    <3>1. Lower(ticks) \in T /\ Upper(ticks) \in T
      BY <2>1, HalvesAre
    <3> HIDE DEF T
    <3>2. g[Lower(ticks)] \in Ints /\ g[Upper(ticks)] \in Ints
      BY <3>1
    <3>3. Merge(g[Lower(ticks)], g[Upper(ticks)]) \in Ints
      BY <3>2, MergeIs
    <3> QED
      BY <2>1, <3>3 DEF SortedPart
  <2>2. CASE ~ (ticks[2] > ticks[1])
    BY <1>2, <2>2 DEF SortedPart
  <2> QED
    BY <2>1, <2>2
<1>5. step \in [1..L -> [S -> S]]
  BY <1>4
<1>6. \E G : Recurs(G, L, S, first, step)
  <2> HIDE DEF L, S, step, first
  <2>1. Steps(L, S, first, step)
    BY <1>1, <1>3, <1>5 DEF Steps
  <2> QED
    BY <2>1, Recursion
<1>7. PICK G \in [0..L -> S] : G[0] = first /\ \A n \in 1..L : G[n] = SortedParts(elems, G[n - 1])
  <2>0. \E G \in [0..L -> S] : G[0] = first /\ \A n \in 1..L : G[n] = step[n][G[n - 1]]
    <3> HIDE DEF L, S, step, first
    <3> QED
      BY <1>6 DEF Recurs
  <2>1. PICK G \in [0..L -> S] : G[0] = first /\ \A n \in 1..L : G[n] = step[n][G[n - 1]]
    BY <2>0
  <2>2. \A n \in 1..L : G[n] = SortedParts(elems, G[n - 1])
    <3> SUFFICES ASSUME NEW n \in 1..L PROVE G[n] = SortedParts(elems, G[n - 1])
      OBVIOUS
    <3>1. n - 1 \in 0..L
      BY <1>1
    <3>2. G[n - 1] \in S
      <4> HIDE DEF S, L
      <4> QED
        BY <3>1
    <3> HIDE DEF S, L
    <3>3. step[n][G[n - 1]] = SortedParts(elems, G[n - 1])
      BY <3>2
    <3> HIDE DEF step
    <3> QED
      BY <2>1, <3>3
  <2> HIDE DEF step, first, S, L
  <2> QED
    BY <2>1, <2>2
<1> HIDE DEF step, S, T
<1>8. \A n \in 1..L : \A ticks \in T : G[n][ticks] = SortedPart(elems, G[n - 1], ticks)
  <2> SUFFICES ASSUME NEW n \in 1..L, NEW ticks \in T
               PROVE  G[n][ticks] = SortedPart(elems, G[n - 1], ticks)
    OBVIOUS
  <2>1. G[n] = SortedParts(elems, G[n - 1])
    BY <1>7
  <2> QED
    BY <2>1 DEF SortedParts, T
<1> DEFINE Still(n) == \A ticks \in T : Width(ticks) <= n - 1 => G[n][ticks] = G[n - 1][ticks]
           P == {n \in 0..L : n = 0 \/ Still(n)}
<1>9. 0 \in P
  BY <1>1
<1>10. \A n \in 1..L : n - 1 \in P => n \in P
  <2> SUFFICES ASSUME NEW n \in 1..L, n - 1 \in P, NEW ticks \in T, Width(ticks) <= n - 1
               PROVE  G[n][ticks] = G[n - 1][ticks]
    BY <1>1
  <2>1. n - 1 \in 0..L /\ n \in Int /\ n >= 1 /\ n <= L
    BY <1>1
  <2>2. n - 1 = 0 \/ Still(n - 1)
    OBVIOUS
  <2>3. G[n][ticks] = SortedPart(elems, G[n - 1], ticks)
    BY <1>8
  <2> HIDE DEF P, Still, L
  <2>4. CASE ~ (ticks[2] > ticks[1])
    <3>1. G[n][ticks] = <<elems[ticks[1] + 1]>>
      BY <2>3, <2>4 DEF SortedPart
    <3>2. CASE n - 1 = 0
      BY <1>7, <3>1, <3>2
    <3>3. CASE n - 1 # 0
      <4>1. n - 1 \in 1..L
        BY <2>1, <3>3
      <4>2. G[n - 1][ticks] = SortedPart(elems, G[n - 1 - 1], ticks)
        BY <1>8, <4>1
      <4> QED
        BY <2>4, <3>1, <4>2 DEF SortedPart
    <3> QED
      BY <3>2, <3>3
  <2>5. CASE ticks[2] > ticks[1]
    <3>1. /\ Lower(ticks) \in T /\ Upper(ticks) \in T /\ Width(ticks) \in Int
          /\ Width(ticks) > 0 /\ Width(Lower(ticks)) < Width(ticks) /\ Width(Upper(ticks)) < Width(ticks)
          /\ Width(Lower(ticks)) \in Int /\ Width(Upper(ticks)) \in Int
      BY <2>5, HalvesAre DEF T
    <3>2. n - 1 \in 1..L /\ Width(Lower(ticks)) <= n - 1 - 1 /\ Width(Upper(ticks)) <= n - 1 - 1 /\ n - 1 # 0
      <4>1. n - 1 # 0
        BY <2>1, <3>1
      <4>2. n - 1 \in 1..L
        BY <2>1, <4>1
      <4> QED
        BY <2>1, <3>1, <4>1, <4>2
    <3>3. /\ G[n - 1][Lower(ticks)] = G[n - 1 - 1][Lower(ticks)]
          /\ G[n - 1][Upper(ticks)] = G[n - 1 - 1][Upper(ticks)]
      BY <2>2, <3>1, <3>2 DEF Still
    <3>4. G[n - 1][ticks] = SortedPart(elems, G[n - 1 - 1], ticks)
      BY <1>8, <3>2
    <3> QED
      BY <2>3, <2>5, <3>3, <3>4 DEF SortedPart
  <2> QED
    BY <2>4, <2>5
<1>11. L \in P
  <2>1. L \in 0..L
    BY <1>1
  <2> HIDE DEF P, L
  <2> QED
    BY <1>1, <1>9, <1>10, <2>1, Upwards
<1>12. Still(L)
  <2> HIDE DEF L, Still
  <2> QED
    BY <1>1, <1>11
<1>13. L \in 0..L /\ L - 1 \in 0..L /\ L \in 1..L
  BY <1>1
<1>14. \A ticks \in T : G[L][ticks] = G[L - 1][ticks]
  <2>1. \A ticks \in T : Width(ticks) <= L - 1
    <3> SUFFICES ASSUME NEW ticks \in T PROVE Width(ticks) <= L - 1
      OBVIOUS
    <3>1. ticks[1] \in 0..(L - 1) /\ ticks[2] \in 0..(L - 1)
      BY HalvesAre DEF T
    <3> QED
      BY <1>1, <3>1 DEF Width
  <2> HIDE DEF L
  <2> QED
    BY <1>12, <2>1
<1>15. G[L] = G[L - 1]
  <2> HIDE DEF L
  <2>1. G[L] \in S /\ G[L - 1] \in S
    BY <1>7, <1>13
  <2> QED
    BY <1>14, <2>1 DEF S
<1>16. G[L] = SortedParts(elems, G[L])
  <2> HIDE DEF L, first
  <2>1. G[L] = SortedParts(elems, G[L - 1])
    BY <1>7, <1>13
  <2> QED
    BY <1>15, <2>1
<1> QED
  BY <1>16

LEMMA SameItems ==
  ASSUME NEW s \in Ints, NEW t \in Ints, Len(s) = Len(t), \A i \in 1..Len(t) : s[i] = t[i]
  PROVE  s = t
<1>1. s \in [1..Len(t) -> Int] /\ t \in [1..Len(t) -> Int]
  BY DEF Ints
<1> QED
  BY <1>1

\* The elements of a part.
Piece(elems, ticks) == [i \in 1..(Width(ticks) + 1) |-> elems[ticks[1] + i]]

LEMMA PieceIs ==
  ASSUME NEW elems \in Ints, NEW ticks \in Parts(elems), Width(ticks) >= 0
  PROVE  /\ Piece(elems, ticks) \in Ints /\ Len(Piece(elems, ticks)) = Width(ticks) + 1
         /\ \A i \in 1..(Width(ticks) + 1) : Piece(elems, ticks)[i] = elems[ticks[1] + i]
<1> DEFINE left == ticks[1]
           n == Width(ticks) + 1
<1>1. left \in 0..(Len(elems) - 1) /\ ticks[2] \in 0..(Len(elems) - 1) /\ Width(ticks) \in Int
  BY HalvesAre
<1>2. Width(ticks) = ticks[2] - left
  BY DEF Width
<1>3. Len(elems) \in Nat /\ \A i \in 1..Len(elems) : elems[i] \in Int
  BY DEF Ints
<1>4. n \in Nat /\ \A i \in 1..n : left + i \in 1..Len(elems)
  BY <1>1, <1>2, <1>3
<1>5. Piece(elems, ticks) = [i \in 1..n |-> elems[left + i]]
  BY DEF Piece
<1> HIDE DEF left, n
<1>6. \A i \in 1..n : elems[left + i] \in Int
  BY <1>3, <1>4
<1>7. Piece(elems, ticks) \in [1..n -> Int]
  BY <1>5, <1>6
<1>8. Piece(elems, ticks) \in Ints /\ Len(Piece(elems, ticks)) = n
  BY <1>4, <1>7 DEF Ints
<1>9. \A i \in 1..n : Piece(elems, ticks)[i] = elems[left + i]
  BY <1>5
<1> QED
  BY <1>8, <1>9 DEF left, n

LEMMA PiecesAre ==
  ASSUME NEW elems \in Ints, NEW ticks \in Parts(elems), ticks[2] > ticks[1]
  PROVE  Piece(elems, Lower(ticks)) \o Piece(elems, Upper(ticks)) = Piece(elems, ticks)
<1> DEFINE low == Piece(elems, Lower(ticks))
           up == Piece(elems, Upper(ticks))
           all == Piece(elems, ticks)
           left == ticks[1]
           m == Width(Lower(ticks)) + 1
           n == Width(Upper(ticks)) + 1
<1>1. /\ Lower(ticks) \in Parts(elems) /\ Upper(ticks) \in Parts(elems)
      /\ Width(Lower(ticks)) >= 0 /\ Width(Upper(ticks)) >= 0 /\ Width(ticks) >= 0
      /\ Width(Lower(ticks)) \in Int /\ Width(Upper(ticks)) \in Int /\ Width(ticks) \in Int
      /\ Lower(ticks)[1] = left /\ Upper(ticks)[2] = ticks[2] /\ Upper(ticks)[1] = Lower(ticks)[2] + 1
      /\ left \in Int /\ ticks[2] \in Int
  <2>1. /\ left \in 0..(Len(elems) - 1) /\ ticks[2] \in 0..(Len(elems) - 1) /\ Len(elems) \in Nat
    BY HalvesAre DEF Ints
  <2>2. left \in Int /\ ticks[2] \in Int
    BY <2>1
  <2>3. /\ Lower(ticks) \in Parts(elems) /\ Upper(ticks) \in Parts(elems)
        /\ Width(Lower(ticks)) >= 0 /\ Width(Upper(ticks)) >= 0 /\ Width(ticks) > 0
        /\ Width(Lower(ticks)) \in Int /\ Width(Upper(ticks)) \in Int /\ Width(ticks) \in Int
        /\ Lower(ticks)[1] = left /\ Upper(ticks)[2] = ticks[2] /\ Upper(ticks)[1] = Lower(ticks)[2] + 1
    BY HalvesAre
  <2> HIDE DEF left
  <2> QED
    BY <2>2, <2>3
<1>2. Lower(ticks)[2] \in Int
  BY <1>1, HalvesAre DEF Ints
<1>3. m \in Nat /\ n \in Nat /\ Width(ticks) + 1 = m + n /\ Upper(ticks)[1] = left + m
  BY <1>1, <1>2 DEF Width
<1>4. /\ low \in Ints /\ Len(low) = m /\ \A i \in 1..m : low[i] = elems[left + i]
  BY <1>1, PieceIs
<1>5. /\ up \in Ints /\ Len(up) = n /\ \A i \in 1..n : up[i] = elems[left + m + i]
  <2>1. /\ up \in Ints /\ Len(up) = n /\ \A i \in 1..n : up[i] = elems[Upper(ticks)[1] + i]
    BY <1>1, PieceIs
  <2> HIDE DEF left, m, n, up
  <2> QED
    BY <1>3, <2>1
<1>6. /\ all \in Ints /\ Len(all) = m + n /\ \A i \in 1..(m + n) : all[i] = elems[left + i]
  <2>1. /\ all \in Ints /\ Len(all) = Width(ticks) + 1 /\ \A i \in 1..(Width(ticks) + 1) : all[i] = elems[left + i]
    BY <1>1, PieceIs
  <2> HIDE DEF left, m, n, all
  <2> QED
    BY <1>3, <2>1
<1>7. left \in Int
  BY <1>1
<1> HIDE DEF low, up, all, left, m, n
<1>8. /\ low \o up \in Ints /\ Len(low \o up) = m + n
      /\ \A i \in 1..m : (low \o up)[i] = low[i]
      /\ \A i \in (m + 1)..(m + n) : (low \o up)[i] = up[i - m]
  BY <1>4, <1>5, ConcatIs
<1>9. \A i \in 1..(m + n) : (low \o up)[i] = all[i]
  <2> SUFFICES ASSUME NEW i \in 1..(m + n) PROVE (low \o up)[i] = all[i]
    OBVIOUS
  <2>1. all[i] = elems[left + i]
    BY <1>6
  <2>2. CASE i <= m
    <3>1. i \in 1..m
      BY <1>3, <2>2
    <3> QED
      BY <1>4, <1>8, <2>1, <3>1
  <2>3. CASE ~ (i <= m)
    <3> DEFINE k == i - m
    <3>1. k \in 1..n /\ i \in (m + 1)..(m + n) /\ left + m + k = left + i
      BY <1>3, <1>7, <2>3
    <3>2. (low \o up)[i] = up[k]
      BY <1>8, <3>1
    <3> HIDE DEF k
    <3>3. up[k] = elems[left + m + k]
      BY <1>5, <3>1
    <3> QED
      BY <2>1, <3>1, <3>2, <3>3
  <2> QED
    BY <2>2, <2>3
<1>10. low \o up \in Seq(Int) /\ all \in Seq(Int) /\ Len(low \o up) = Len(all)
  BY <1>6, <1>8 DEF Ints
<1>11. low \o up = all
  BY <1>6, <1>8, <1>9, SameItems
<1> QED
  BY <1>11 DEF low, up, all

\* Every part is sorted.
LEMMA PartsSorted ==
  ASSUME NEW elems \in Ints, elems # <<>>, NEW g, g = SortedParts(elems, g)
  PROVE  \A ticks \in Parts(elems) : Width(ticks) >= 0 =>
            g[ticks] \in Ints /\ Sorted(g[ticks]) /\ Same(g[ticks], Piece(elems, ticks))
<1> DEFINE L == Len(elems)
           T == Parts(elems)
           Good(ticks) == g[ticks] \in Ints /\ Sorted(g[ticks]) /\ Same(g[ticks], Piece(elems, ticks))
           P == {d \in 0..L : \A ticks \in T : Width(ticks) >= 0 /\ Width(ticks) <= d => Good(ticks)}
<1>1. L \in Nat
  BY DEF Ints
<1>2. \A ticks \in T : g[ticks] = SortedPart(elems, g, ticks)
  BY DEF SortedParts
<1>3. \A ticks \in T : Width(ticks) >= 0 /\ ~ (ticks[2] > ticks[1]) => Good(ticks)
  <2> SUFFICES ASSUME NEW ticks \in T, Width(ticks) >= 0, ~ (ticks[2] > ticks[1]) PROVE Good(ticks)
    OBVIOUS
  <2> DEFINE x == elems[ticks[1] + 1]
  <2>1. ticks[1] \in 0..(L - 1) /\ ticks[2] \in 0..(L - 1)
    BY HalvesAre
  <2>2. ticks[1] + 1 \in 1..L /\ Width(ticks) = 0
    BY <1>1, <2>1 DEF Width
  <2>3. x \in Int
    BY <2>2 DEF Ints
  <2>4. g[ticks] = <<x>>
    BY <1>2 DEF SortedPart
  <2>5. Piece(elems, ticks) = <<x>>
    <3>1. Piece(elems, ticks) = [i \in 1..1 |-> elems[ticks[1] + i]]
      BY <2>2 DEF Piece
    <3> QED
      BY <3>1
  <2> HIDE DEF x
  <2>6. <<x>> \in Ints /\ Sorted(<<x>>)
    BY <2>3 DEF Ints, Sorted
  <2> QED
    BY <2>4, <2>5, <2>6, SameSelf
<1>4. \A ticks \in T : ticks[2] > ticks[1] /\ Good(Lower(ticks)) /\ Good(Upper(ticks)) => Good(ticks)
  <2> SUFFICES ASSUME NEW ticks \in T, ticks[2] > ticks[1], Good(Lower(ticks)), Good(Upper(ticks)) PROVE Good(ticks)
    OBVIOUS
  <2> DEFINE low == Lower(ticks)
             up == Upper(ticks)
  <2>1. low \in T /\ up \in T /\ Width(low) >= 0 /\ Width(up) >= 0
    BY HalvesAre
  <2>2. Piece(elems, low) \o Piece(elems, up) = Piece(elems, ticks)
    BY PiecesAre
  <2>3. Good(low) /\ Good(up)
    OBVIOUS
  <2>4. g[ticks] = Merge(g[low], g[up])
    BY <1>2 DEF SortedPart
  <2> HIDE DEF low, up
  <2>5. Piece(elems, low) \in Ints /\ Piece(elems, up) \in Ints
    BY <2>1, PieceIs
  <2>6. Same(g[low] \o g[up], Piece(elems, ticks))
    BY <2>2, <2>3, <2>5, SameConcat
  <2>7. /\ g[ticks] \in Ints /\ Same(g[ticks], g[low] \o g[up]) /\ Sorted(g[ticks])
    BY <2>3, <2>4, MergeIs
  <2> QED
    BY <2>6, <2>7, SameOn
<1>5. 0 \in P
  <2> SUFFICES ASSUME NEW ticks \in T, Width(ticks) >= 0, Width(ticks) <= 0 PROVE ~ (ticks[2] > ticks[1])
    BY <1>1, <1>3
  <2>1. ticks[1] \in 0..(L - 1) /\ ticks[2] \in 0..(L - 1)
    BY HalvesAre
  <2> QED
    BY <1>1, <2>1 DEF Width
<1>6. \A d \in 1..L : d - 1 \in P => d \in P
  <2> SUFFICES ASSUME NEW d \in 1..L, d - 1 \in P, NEW ticks \in T, Width(ticks) >= 0, Width(ticks) <= d
               PROVE  Good(ticks)
    BY <1>1
  <2>1. CASE ticks[2] > ticks[1]
    <3>1. /\ Lower(ticks) \in T /\ Upper(ticks) \in T /\ Width(ticks) \in Int
          /\ Width(Lower(ticks)) >= 0 /\ Width(Upper(ticks)) >= 0
          /\ Width(Lower(ticks)) < Width(ticks) /\ Width(Upper(ticks)) < Width(ticks)
          /\ Width(Lower(ticks)) \in Int /\ Width(Upper(ticks)) \in Int
      BY <2>1, HalvesAre
    <3>2. d \in Int /\ Width(Lower(ticks)) <= d - 1 /\ Width(Upper(ticks)) <= d - 1
      BY <1>1, <3>1
    <3>3. \A part \in T : Width(part) >= 0 /\ Width(part) <= d - 1 => Good(part)
      OBVIOUS
    <3> HIDE DEF Good, P, T
    <3> QED
      BY <1>4, <2>1, <3>1, <3>2, <3>3
  <2>2. CASE ~ (ticks[2] > ticks[1])
    BY <1>3, <2>2
  <2> QED
    BY <2>1, <2>2
<1>7. L \in P
  <2>1. L \in 0..L
    BY <1>1
  <2> HIDE DEF P, L
  <2> QED
    BY <1>1, <1>5, <1>6, <2>1, Upwards
<1>8. \A ticks \in T : Width(ticks) <= L
  <2> SUFFICES ASSUME NEW ticks \in T PROVE Width(ticks) <= L
    OBVIOUS
  <2>1. ticks[1] \in 0..(L - 1) /\ ticks[2] \in 0..(L - 1)
    BY HalvesAre
  <2> QED
    BY <1>1, <2>1 DEF Width
<1> QED
  BY <1>7, <1>8

\* A sorted sequence has what was to be sorted, in order.
LEMMA MergeSortIs ==
  ASSUME NEW elems \in Ints
  PROVE  /\ MergeSort(elems) \in Ints /\ Sorted(MergeSort(elems))
         /\ Same(MergeSort(elems), elems)
<1>1. CASE elems = <<>>
  <2>1. MergeSort(elems) = <<>>
    BY <1>1 DEF MergeSort
  <2> QED
    <3>1. Same(MergeSort(elems), elems)
      BY <1>1, <2>1, SameSelf
    <3>2. <<>> \in Ints /\ Sorted(<<>>)
      BY DEF Ints, Sorted
    <3> QED
      BY <2>1, <3>1, <3>2
<1>2. CASE elems # <<>>
  <2> DEFINE g == CHOOSE f : f = SortedParts(elems, f)
             all == <<0, Len(elems) - 1>>
  <2>1. g = SortedParts(elems, g)
    BY <1>2, LevelsAre
  <2>2. MergeSort(elems) = g[all]
    BY <1>2 DEF MergeSort, SortedParts, SortedPart, Parts, Lower, Upper, Middle
  <2>3. Len(elems) \in Nat /\ Len(elems) >= 1
    BY <1>2 DEF Ints
  <2>4. all \in Parts(elems)
    <3> DEFINE last == Len(elems) - 1
    <3>1. 0 \in 0..last /\ last \in 0..last
      BY <2>3
    <3> HIDE DEF last
    <3>2. <<0, last>> \in (0..last) \X (0..last)
      BY <3>1
    <3> QED
      BY <3>2 DEF last, Parts
  <2>5. Width(all) = Len(elems) - 1 /\ Width(all) >= 0 /\ all[1] = 0 /\ Width(all) + 1 = Len(elems)
    BY <2>3 DEF Width
  <2> HIDE DEF g, all
  <2>6. Piece(elems, all) = elems
    <3>1. /\ Piece(elems, all) \in Ints /\ Len(Piece(elems, all)) = Len(elems)
          /\ \A i \in 1..Len(elems) : Piece(elems, all)[i] = elems[0 + i]
      BY <2>4, <2>5, PieceIs
    <3>2. \A i \in 1..Len(elems) : Piece(elems, all)[i] = elems[i]
      <4>1. \A i \in 1..Len(elems) : 0 + i = i
        BY <2>3
      <4> QED
        BY <3>1, <4>1
    <3> QED
      BY <3>1, <3>2, SameItems
  <2> QED
    BY <1>2, <2>1, <2>2, <2>4, <2>5, <2>6, PartsSorted
<1> QED
  BY <1>1, <1>2

-----------------------------------------------------------------------------
(* S_find_slice_size                                                        *)

Between(cache, endpost, bounds) ==
    /\ bounds[1] \in -1..(Len(cache) - 1) /\ bounds[2] \in 0..Len(cache) /\ bounds[1] < bounds[2]
    /\ \A i \in 1..(bounds[1] + 1) : cache[i] <= endpost
    /\ \A i \in (bounds[2] + 1)..Len(cache) : cache[i] > endpost

\* Halving keeps the place between the bounds, and they come closer.
LEMMA HalvedIs ==
  ASSUME NEW cache \in Ints, Sorted(cache), NEW endpost \in Int, NEW bounds, Between(cache, endpost, bounds)
  PROVE  LET next == Halved(cache, endpost, bounds)
         IN  /\ Between(cache, endpost, next)
             /\ next[2] - next[1] <= 1 \/ next[2] - next[1] < bounds[2] - bounds[1]
<1> DEFINE lo == bounds[1]
           hi == bounds[2]
           mid == lo + ((hi - lo) \div 2)
           more == Difference(cache[mid + 1], endpost) > 0
           next == Halved(cache, endpost, bounds)
<1>1. /\ lo \in -1..(Len(cache) - 1) /\ hi \in 0..Len(cache) /\ lo < hi /\ Len(cache) \in Nat
      /\ \A i \in 1..(lo + 1) : cache[i] <= endpost
      /\ \A i \in (hi + 1)..Len(cache) : cache[i] > endpost
      /\ \A i \in 1..Len(cache) : cache[i] \in Int
      /\ \A i, j \in 1..Len(cache) : i <= j => cache[i] <= cache[j]
  BY DEF Between, Ints, Sorted
<1>2. lo \in Int /\ hi \in Int
  BY <1>1
<1>3. CASE hi - lo <= 1
  <2>1. next = bounds
    BY <1>3 DEF Halved
  <2> HIDE DEF next
  <2> QED
    BY <1>3, <2>1 DEF next
<1>4. CASE ~ (hi - lo <= 1)
  <2>1. mid \in Int /\ lo < mid /\ mid < hi
    BY <1>2, <1>4
  <2>2. next = IF more THEN <<lo, mid>> ELSE <<mid, hi>>
    BY <1>4 DEF Halved
  <2> HIDE DEF lo, hi, mid, more, next
  <2>3. mid + 1 \in 1..Len(cache) /\ cache[mid + 1] \in Int
    BY <1>1, <1>2, <2>1
  <2>4. CASE more
    <3>1. next[1] = lo /\ next[2] = mid
      BY <2>2, <2>4
    <3>2. cache[mid + 1] > endpost
      <4>1. cache[mid + 1] - endpost > 0
        BY <2>4 DEF more, Difference
      <4> QED
        BY <2>3, <4>1
    <3>3. \A i \in (mid + 1)..Len(cache) : cache[i] > endpost
      <4> SUFFICES ASSUME NEW i \in (mid + 1)..Len(cache) PROVE cache[i] > endpost
        OBVIOUS
      <4>1. i \in 1..Len(cache) /\ mid + 1 <= i
        BY <1>1, <2>3
      <4>2. cache[mid + 1] <= cache[i] /\ cache[i] \in Int
        BY <1>1, <2>3, <4>1
      <4> QED
        BY <2>3, <3>2, <4>2
    <3>4. mid \in 0..Len(cache) /\ mid - lo < hi - lo
      BY <1>1, <1>2, <2>1
    <3>5. Between(cache, endpost, next)
      BY <1>1, <2>1, <3>1, <3>3, <3>4 DEF Between
    <3> QED
      BY <3>1, <3>4, <3>5 DEF next, lo, hi
  <2>5. CASE ~ more
    <3>1. next[1] = mid /\ next[2] = hi
      BY <2>2, <2>5
    <3>2. cache[mid + 1] <= endpost
      <4>1. ~ (cache[mid + 1] - endpost > 0)
        BY <2>5 DEF more, Difference
      <4> QED
        BY <2>3, <4>1
    <3>3. \A i \in 1..(mid + 1) : cache[i] <= endpost
      <4> SUFFICES ASSUME NEW i \in 1..(mid + 1) PROVE cache[i] <= endpost
        OBVIOUS
      <4>1. i \in 1..Len(cache) /\ i <= mid + 1
        BY <1>1, <2>3
      <4>2. cache[i] <= cache[mid + 1] /\ cache[i] \in Int
        BY <1>1, <2>3, <4>1
      <4> QED
        BY <2>3, <3>2, <4>2
    <3>4. mid \in -1..(Len(cache) - 1) /\ hi - mid < hi - lo
      BY <1>1, <1>2, <2>1
    <3>5. Between(cache, endpost, next)
      BY <1>1, <2>1, <3>1, <3>3, <3>4 DEF Between
    <3> QED
      BY <3>1, <3>4, <3>5 DEF next, lo, hi
  <2> QED
    BY <2>4, <2>5
<1> QED
  BY <1>3, <1>4

\* The elements of a sorted cache that are not after the endpost.
LEMMA SliceSizeIs ==
  ASSUME NEW cache \in Ints, Sorted(cache), NEW endpost \in Int
  PROVE  LET size == SliceSize(cache, endpost)
         IN  /\ size \in 0..Len(cache)
             /\ \A i \in 1..size : cache[i] <= endpost
             /\ \A i \in (size + 1)..Len(cache) : cache[i] > endpost
<1> DEFINE N == Len(cache)
           S == {bounds \in Int \X Int : Between(cache, endpost, bounds)}
           first == <<-1, N>>
           step == [n \in 1..N |-> [x \in S |-> Halved(cache, endpost, x)]]
           Body(g) == [n \in 0..N |-> IF n = 0 THEN first ELSE Halved(cache, endpost, g[n - 1])]
           bounds == CHOOSE g : g = Body(g)
<1>1. N \in Nat
  BY DEF Ints
<1>2. first \in S
  <2>1. first[1] = -1 /\ first[2] = N /\ first \in Int \X Int
    BY <1>1
  <2> HIDE DEF first
  <2>2. Between(cache, endpost, first)
    BY <1>1, <2>1 DEF Between
  <2> QED
    BY <2>1, <2>2
<1>3. \A x \in S : /\ Halved(cache, endpost, x) \in S
                   /\ \/ Halved(cache, endpost, x)[2] - Halved(cache, endpost, x)[1] <= 1
                      \/ Halved(cache, endpost, x)[2] - Halved(cache, endpost, x)[1] < x[2] - x[1]
  <2> SUFFICES ASSUME NEW x \in S
               PROVE  /\ Halved(cache, endpost, x) \in S
                      /\ \/ Halved(cache, endpost, x)[2] - Halved(cache, endpost, x)[1] <= 1
                         \/ Halved(cache, endpost, x)[2] - Halved(cache, endpost, x)[1] < x[2] - x[1]
    OBVIOUS
  <2>1. Halved(cache, endpost, x) \in Int \X Int
    BY DEF Halved
  <2> QED
    BY <2>1, HalvedIs
<1>4. step \in [1..N -> [S -> S]]
  BY <1>3
<1>5. \E g : Recurs(g, N, S, first, step)
  <2> HIDE DEF N, S, step, first
  <2>1. Steps(N, S, first, step)
    BY <1>1, <1>2, <1>4 DEF Steps
  <2> QED
    BY <2>1, Recursion
<1> HIDE DEF S, first
<1>6. PICK g \in [0..N -> S] : g[0] = first /\ \A n \in 1..N : g[n] = step[n][g[n - 1]]
  <2> HIDE DEF step
  <2> QED
    BY <1>5 DEF Recurs
<1>7. g = Body(g)
  <2>1. \A n \in 1..N : g[n] = Halved(cache, endpost, g[n - 1])
    <3> SUFFICES ASSUME NEW n \in 1..N PROVE g[n] = Halved(cache, endpost, g[n - 1])
      OBVIOUS
    <3>1. n - 1 \in 0..N
      BY <1>1
    <3>2. g[n - 1] \in S
      BY <1>6, <3>1
    <3>3. step[n][g[n - 1]] = Halved(cache, endpost, g[n - 1])
      BY <3>2
    <3> HIDE DEF step
    <3> QED
      BY <1>6, <3>3
  <2>2. \A n \in 0..N : g[n] = IF n = 0 THEN first ELSE Halved(cache, endpost, g[n - 1])
    BY <1>1, <1>6, <2>1
  <2> HIDE DEF N
  <2> QED
    BY <1>6, <2>2
<1>8. bounds = Body(bounds)
  <2> HIDE DEF Body
  <2> QED
    BY <1>7
<1>9. SliceSize(cache, endpost) = bounds[N][1] + 1
  BY DEF SliceSize, first
<1> HIDE DEF bounds
<1> DEFINE Near(n) == /\ bounds[n] \in S
                      /\ bounds[n][2] - bounds[n][1] <= 1 \/ bounds[n][2] - bounds[n][1] <= N + 1 - n
           P == {n \in 0..N : Near(n)}
<1>10. 0 \in P
  <2>1. bounds[0] = first
    BY <1>1, <1>8
  <2>2. first[2] - first[1] <= N + 1 - 0
    BY <1>1 DEF first
  <2> QED
    BY <1>1, <1>2, <2>1, <2>2
<1>11. \A n \in 1..N : n - 1 \in P => n \in P
  <2> SUFFICES ASSUME NEW n \in 1..N, n - 1 \in P PROVE Near(n)
    BY <1>1
  <2>1. n \in 0..N /\ n # 0 /\ n \in Int
    BY <1>1
  <2>2. bounds[n] = Halved(cache, endpost, bounds[n - 1])
    <3> HIDE DEF N
    <3> QED
      BY <1>8, <2>1
  <2>3. Near(n - 1)
    OBVIOUS
  <2> DEFINE x == bounds[n - 1]
             y == bounds[n]
  <2>4. x \in S /\ (x[2] - x[1] <= 1 \/ x[2] - x[1] <= N + 1 - (n - 1)) /\ y = Halved(cache, endpost, x)
    BY <2>2, <2>3
  <2> HIDE DEF x, y, P
  <2>5. y \in S /\ (y[2] - y[1] <= 1 \/ y[2] - y[1] < x[2] - x[1])
    BY <1>3, <2>4
  <2>6. x[1] \in Int /\ x[2] \in Int /\ y[1] \in Int /\ y[2] \in Int
    BY <2>4, <2>5 DEF S
  <2>7. y[2] - y[1] <= 1 \/ y[2] - y[1] <= N + 1 - n
    BY <1>1, <2>1, <2>4, <2>5, <2>6
  <2> QED
    BY <2>5, <2>7 DEF y
<1>12. N \in P
  <2>1. N \in 0..N
    BY <1>1
  <2> HIDE DEF P, N
  <2> QED
    BY <1>1, <1>10, <1>11, <2>1, Upwards
<1> DEFINE lo == bounds[N][1]
           hi == bounds[N][2]
<1>13. Near(N)
  BY <1>12
<1>14. /\ lo \in -1..(Len(cache) - 1) /\ hi \in 0..Len(cache) /\ lo < hi /\ lo \in Int /\ hi \in Int
       /\ \A i \in 1..(lo + 1) : cache[i] <= endpost
       /\ \A i \in (hi + 1)..Len(cache) : cache[i] > endpost
  BY <1>13 DEF Between, S
<1>15. hi - lo <= 1 \/ hi - lo <= N + 1 - N
  BY <1>13
<1> HIDE DEF lo, hi, P, Near
<1>16. hi = lo + 1 /\ lo + 1 \in 0..Len(cache)
  BY <1>1, <1>14, <1>15
<1>17. SliceSize(cache, endpost) = lo + 1
  BY <1>9 DEF lo
<1> QED
  BY <1>14, <1>16, <1>17

-----------------------------------------------------------------------------
(* The runs, and with them what was taken out of them: 0 is the index of    *)
(* what was fetched or can be at once                                       *)

RunSet == [cache : Ints, external : Ints]
Items(run) == run.cache \o run.external
Stock(z, runs) == [k \in 0..Len(runs) |-> IF k = 0 THEN z ELSE Items(runs[k])]

LEMMA StockIs ==
  ASSUME NEW z, NEW runs \in Seq(RunSet)
  PROVE  /\ DOMAIN Stock(z, runs) = 0..Len(runs) /\ Len(runs) \in Nat /\ Stock(z, runs)[0] = z
         /\ \A k \in 1..Len(runs) : /\ Stock(z, runs)[k] = Items(runs[k]) /\ runs[k] \in RunSet
                                    /\ k \in 0..Len(runs) /\ k # 0
<1>1. Len(runs) \in Nat /\ \A k \in 1..Len(runs) : runs[k] \in RunSet
  OBVIOUS
<1>2. \A k \in 1..Len(runs) : k \in 0..Len(runs) /\ k # 0
  BY <1>1
<1>3. 0 \in 0..Len(runs)
  BY <1>1
<1> QED
  BY <1>1, <1>2, <1>3 DEF Stock

\* SortExRun_Refill reads on where the run was; only a run that has been read
\* to its end stays empty.
LEMMA RefillIs ==
  ASSUME Parameters, NEW run \in RunSet, run.cache = <<>>
  PROVE  /\ RunRefill(run) \in RunSet /\ Items(RunRefill(run)) = Items(run)
         /\ RunRefill(run).cache = <<>> => Items(run) = <<>>
<1> DEFINE e == run.external
           n == IF Len(e) < RunThresh THEN Len(e) ELSE RunThresh
           low == SubSeq(e, 1, n)
           up == SubSeq(e, n + 1, Len(e))
<1>1. e \in Ints /\ e \in Seq(Int) /\ Len(e) \in Nat /\ RunThresh \in Nat /\ RunThresh >= 1
  BY DEF RunSet, Ints, Parameters
<1>2. RunRefill(run) = [cache |-> low, external |-> up]
  BY DEF RunRefill
<1>3. n \in 0..Len(e) /\ (Len(e) > 0 => n > 0)
  BY <1>1
<1> HIDE DEF e, n
<1>4. /\ low \in Ints /\ Len(low) = n /\ \A i \in 1..n : low[i] = e[i]
  BY <1>1, <1>3 DEF Ints
<1>5. /\ up \in Ints /\ Len(up) = Len(e) - n /\ \A i \in 1..(Len(e) - n) : up[i] = e[n + i]
  BY <1>1, <1>3 DEF Ints
<1> HIDE DEF low, up
<1>6. low \o up = e
  <2>1. /\ low \o up \in Ints /\ Len(low \o up) = Len(low) + Len(up)
        /\ \A i \in 1..Len(low) : (low \o up)[i] = low[i]
        /\ \A i \in (Len(low) + 1)..(Len(low) + Len(up)) : (low \o up)[i] = up[i - Len(low)]
    BY <1>4, <1>5, ConcatIs
  <2>2. Len(low) + Len(up) = Len(e)
    BY <1>1, <1>3, <1>4, <1>5
  <2>3. \A i \in 1..Len(e) : (low \o up)[i] = e[i]
    <3> SUFFICES ASSUME NEW i \in 1..Len(e) PROVE (low \o up)[i] = e[i]
      OBVIOUS
    <3>1. CASE i <= n
      <4>1. i \in 1..n
        BY <1>1, <1>3, <3>1
      <4> QED
        BY <1>4, <2>1, <4>1
    <3>2. CASE ~ (i <= n)
      <4> DEFINE k == i - n
      <4>1. k \in 1..(Len(e) - n) /\ i \in (n + 1)..(n + (Len(e) - n)) /\ n + k = i
        BY <1>1, <1>3, <3>2
      <4>2. (low \o up)[i] = up[k]
        BY <1>4, <1>5, <2>1, <4>1
      <4> HIDE DEF k
      <4> QED
        BY <1>5, <4>1, <4>2
    <3> QED
      BY <3>1, <3>2
  <2> QED
    BY <1>1, <2>1, <2>2, <2>3, SameItems
<1>7. Items(run) = e
  <2>1. Items(run) = <<>> \o e
    BY DEF Items, e
  <2> QED
    BY <1>1, <2>1
<1>8. Items(RunRefill(run)) = low \o up
  BY <1>2 DEF Items
<1>9. ASSUME low = <<>> PROVE e = <<>>
  BY <1>1, <1>3, <1>4, <1>9
<1>10. RunRefill(run) \in RunSet
  BY <1>2, <1>4, <1>5 DEF RunSet
<1>11. RunRefill(run).cache = low
  BY <1>2
<1> QED
  BY <1>6, <1>7, <1>8, <1>9, <1>10, <1>11

\* One turn of S_refill_runs.
RefillState == [runs : Seq(RunSet), i : Nat]
Refilled(s, r) ==
    /\ r \in RefillState /\ Len(r.runs) - r.i = Len(s.runs) - s.i - 1
    /\ (\A k \in 1..s.i : s.runs[k].cache # <<>>) => \A k \in 1..r.i : r.runs[k].cache # <<>>
    /\ \A z : Same(All(Stock(z, r.runs)), All(Stock(z, s.runs)))
    /\ \A k \in 1..Len(r.runs) : \E j \in 1..Len(s.runs) : Items(r.runs[k]) = Items(s.runs[j])

LEMMA KeptIs ==
  ASSUME NEW s \in RefillState, s.i < Len(s.runs), NEW run \in RunSet,
         run.cache # <<>>, Items(run) = Items(s.runs[s.i + 1])
  PROVE  Refilled(s, [runs |-> [s.runs EXCEPT ![s.i + 1] = run], i |-> s.i + 1])
<1> DEFINE m == s.i + 1
           runs == s.runs
           new == [runs EXCEPT ![m] = run]
           next == [runs |-> new, i |-> m]
<1>1. /\ runs \in Seq(RunSet) /\ Len(runs) \in Nat /\ s.i \in Nat /\ m \in 1..Len(runs)
      /\ Items(run) = Items(runs[m])
  BY DEF RefillState
<1>2. m - 1 = s.i /\ m \in Nat
  BY <1>1
<1> HIDE DEF m, runs
<1>3. new \in Seq(RunSet) /\ Len(new) = Len(runs) /\ \A k \in 1..Len(runs) : new[k] = IF k = m THEN run ELSE runs[k]
  BY <1>1
<1> HIDE DEF new
<1>4. next \in RefillState /\ next.runs = new /\ next.i = m
  BY <1>2, <1>3 DEF RefillState
<1> HIDE DEF next
<1>5. Len(next.runs) - next.i = Len(runs) - s.i - 1
  BY <1>1, <1>2, <1>3, <1>4
<1>6. ASSUME \A k \in 1..s.i : runs[k].cache # <<>>
      PROVE  \A k \in 1..m : new[k].cache # <<>>
  <2> SUFFICES ASSUME NEW k \in 1..m PROVE new[k].cache # <<>>
    OBVIOUS
  <2>1. k \in 1..Len(runs)
    BY <1>1
  <2>2. k # m => k \in 1..s.i
    BY <1>1, <1>2
  <2> QED
    BY <1>3, <1>6, <2>1, <2>2
<1>7. \A k \in 1..Len(runs) : Items(new[k]) = Items(runs[k])
  BY <1>1, <1>3
<1>8. \A z : Stock(z, new) = Stock(z, runs)
  <2> SUFFICES ASSUME NEW z PROVE Stock(z, new) = Stock(z, runs)
    OBVIOUS
  <2>1. \A k \in 0..Len(runs) : k # 0 => k \in 1..Len(runs)
    BY <1>1
  <2> QED
    BY <1>3, <1>7, <2>1 DEF Stock
<1>9. \A z : Same(All(Stock(z, new)), All(Stock(z, runs)))
  BY <1>8, SameSelf
<1>10. Refilled(s, next)
  <2>1. s.runs = runs
    BY DEF runs
  <2> QED
    BY <1>3, <1>4, <1>5, <1>6, <1>7, <1>9, <2>1 DEF Refilled
<1> QED
  BY <1>10 DEF next, new, runs, m

LEMMA DroppedIs ==
  ASSUME NEW s \in RefillState, s.i < Len(s.runs), Items(s.runs[s.i + 1]) = <<>>
  PROVE  Refilled(s, [s EXCEPT !.runs = [k \in 1..(Len(@) - 1) |-> IF k = s.i + 1 THEN Last(@) ELSE @[k]]])
<1> DEFINE m == s.i + 1
           runs == s.runs
           N == Len(runs)
           new == [k \in 1..(N - 1) |-> IF k = m THEN Last(runs) ELSE runs[k]]
           next == [s EXCEPT !.runs = new]
           to(k) == IF k = m THEN N ELSE k
           map == [k \in 0..(N - 1) |-> to(k)]
<1>1. /\ runs \in Seq(RunSet) /\ N \in Nat /\ s.i \in Nat /\ m \in 1..N /\ Items(runs[m]) = <<>> /\ m # 0
  BY DEF RefillState
<1>2. m - 1 = s.i /\ m \in Nat /\ N - 1 \in Nat /\ N \in 1..N
  BY <1>1
<1>3. Last(runs) = runs[N]
  BY DEF Last
<1> HIDE DEF m, N
<1>4. \A k \in 1..N : runs[k] \in RunSet
  BY <1>1 DEF N
<1> HIDE DEF runs
<1>5. /\ new \in Seq(RunSet) /\ Len(new) = N - 1
      /\ \A k \in 1..(N - 1) : k \in 1..N /\ to(k) \in 1..N /\ new[k] = runs[to(k)]
  <2>1. \A k \in 1..(N - 1) : k \in 1..N /\ to(k) \in 1..N
    BY <1>2
  <2>2. \A k \in 1..(N - 1) : new[k] = runs[to(k)]
    BY <1>3
  <2>3. new \in [1..(N - 1) -> RunSet]
    BY <1>2, <1>3, <1>4, <2>1
  <2> HIDE DEF new
  <2>4. new \in Seq(RunSet) /\ Len(new) = N - 1
    BY <1>2, <2>3
  <2> HIDE DEF to
  <2> QED
    BY <2>1, <2>2, <2>4
<1> HIDE DEF new
<1>6. next \in RefillState /\ next.runs = new /\ next.i = s.i
  BY <1>5 DEF RefillState
<1> HIDE DEF next
<1>7. N - 1 - s.i = N - s.i - 1
  BY <1>1
<1>8. ASSUME \A k \in 1..s.i : runs[k].cache # <<>>
      PROVE  \A k \in 1..s.i : new[k].cache # <<>>
  <2> SUFFICES ASSUME NEW k \in 1..s.i PROVE new[k].cache # <<>>
    OBVIOUS
  <2>1. k \in 1..(N - 1) /\ to(k) = k
    BY <1>1, <1>2
  <2> HIDE DEF to
  <2> QED
    BY <1>5, <1>8, <2>1
<1>9. \A k \in 1..(N - 1) : \E j \in 1..N : Items(new[k]) = Items(runs[j])
  <2> HIDE DEF to
  <2> QED
    BY <1>5
<1>10. \A z : Same(All(Stock(z, new)), All(Stock(z, runs)))
  <2> SUFFICES ASSUME NEW z PROVE Same(All(Stock(z, new)), All(Stock(z, runs)))
    OBVIOUS
  <2> DEFINE F == Stock(z, new)
             G == Stock(z, runs)
  <2>1. /\ DOMAIN F = 0..(N - 1) /\ F[0] = z
        /\ \A k \in 1..(N - 1) : F[k] = Items(new[k]) /\ k \in 0..(N - 1) /\ k # 0
    BY <1>5, StockIs
  <2>2. /\ DOMAIN G = 0..N /\ G[0] = z
        /\ \A k \in 1..N : G[k] = Items(runs[k]) /\ k \in 0..N /\ k # 0
    BY <1>1, StockIs DEF N
  <2> HIDE DEF F, G
  <2>3. map \in [DOMAIN F -> DOMAIN G]
    BY <1>2, <2>1, <2>2
  <2>4. \A j, k \in DOMAIN F : map[j] = map[k] => j = k
    BY <1>1, <1>2, <2>1
  <2>5. \A j \in DOMAIN F : G[map[j]] = F[j]
    <3> SUFFICES ASSUME NEW j \in 0..(N - 1) PROVE G[to(j)] = F[j]
      BY <2>1
    <3>1. CASE j = 0
      BY <1>1, <2>1, <2>2, <3>1
    <3>2. CASE j # 0
      <4>1. j \in 1..(N - 1)
        BY <1>2, <3>2
      <4> HIDE DEF to
      <4>2. to(j) \in 1..N /\ new[j] = runs[to(j)]
        BY <1>5, <4>1
      <4> QED
        BY <2>1, <2>2, <4>1, <4>2
    <3> QED
      BY <3>1, <3>2
  <2>6. \A k \in DOMAIN G : (\E j \in DOMAIN F : map[j] = k) \/ DOMAIN G[k] = {}
    <3> SUFFICES ASSUME NEW k \in 0..N PROVE (\E j \in 0..(N - 1) : to(j) = k) \/ DOMAIN G[k] = {}
      BY <2>1, <2>2
    <3>1. CASE k = m
      <4>1. G[k] = <<>>
        BY <1>1, <2>2, <3>1
      <4> QED
        BY <4>1
    <3>2. CASE k # m /\ k = N
      <4>1. m \in 0..(N - 1)
        BY <1>1, <1>2, <3>2
      <4> QED
        BY <3>2, <4>1
    <3>3. CASE k # m /\ k # N
      <4>1. k \in 0..(N - 1)
        BY <1>1, <1>2, <3>3
      <4> QED
        BY <3>3, <4>1
    <3> QED
      BY <3>1, <3>2, <3>3
  <2> HIDE DEF map
  <2>7. Renumbers(map, F, G)
    BY <2>3, <2>4, <2>5, <2>6 DEF Renumbers
  <2>8. Same(All(F), All(G))
    BY <2>7, SameRenumbered
  <2> QED
    BY <2>8 DEF F, G
<1>11. Refilled(s, next)
  <2>1. s.runs = runs /\ Len(s.runs) = N
    BY DEF runs, N
  <2> QED
    BY <1>5, <1>6, <1>7, <1>8, <1>9, <1>10, <2>1 DEF Refilled
<1> QED
  BY <1>11 DEF next, new, runs, m, N

LEMMA RefillRunIs ==
  ASSUME Parameters, NEW s \in RefillState, s.i < Len(s.runs)
  PROVE  Refilled(s, RefillRun(s))
<1> DEFINE old == s.runs[s.i + 1]
           run == IF old.cache = <<>> THEN RunRefill(old) ELSE old
<1>1. old \in RunSet
  BY DEF RefillState
<1>2. /\ run \in RunSet /\ Items(run) = Items(old) /\ (run.cache = <<>> => Items(old) = <<>>)
  <2> HIDE DEF old
  <2> QED
    BY <1>1, RefillIs
<1>3. CASE run.cache # <<>>
  <2>1. RefillRun(s) = [runs |-> [s.runs EXCEPT ![s.i + 1] = run], i |-> s.i + 1]
    BY <1>3 DEF RefillRun
  <2> HIDE DEF run
  <2> QED
    BY <1>2, <1>3, <2>1, KeptIs
<1>4. CASE run.cache = <<>>
  <2>1. RefillRun(s) = [s EXCEPT !.runs = [k \in 1..(Len(@) - 1) |-> IF k = s.i + 1 THEN Last(@) ELSE @[k]]]
    BY <1>4 DEF RefillRun
  <2> QED
    BY <1>2, <1>4, <2>1, DroppedIs
<1> QED
  BY <1>3, <1>4

\* S_refill_runs loses nothing and leaves no run without a cache.
LEMMA RefillRunsIs ==
  ASSUME Parameters, NEW runs \in Seq(RunSet)
  PROVE  /\ RefillRuns(runs) \in Seq(RunSet)
         /\ \A k \in 1..Len(RefillRuns(runs)) : RefillRuns(runs)[k].cache # <<>>
         /\ \A z : Same(All(Stock(z, RefillRuns(runs))), All(Stock(z, runs)))
         /\ \A k \in 1..Len(RefillRuns(runs)) :
               \E j \in 1..Len(runs) : Items(RefillRuns(runs)[k]) = Items(runs[j])
<1> DEFINE N == Len(runs)
           S == RefillState
           first == [runs |-> runs, i |-> 0]
           step == [n \in 1..N |-> [s \in S |-> IF s.i < Len(s.runs) THEN RefillRun(s) ELSE s]]
           Body(g) == [n \in 0..N |-> IF n = 0 THEN first ELSE RefillRun(g[n - 1])]
           turn == CHOOSE g : g = Body(g)
           Fine(s) == /\ s \in RefillState
                      /\ \A k \in 1..s.i : s.runs[k].cache # <<>>
                      /\ \A z : Same(All(Stock(z, s.runs)), All(Stock(z, runs)))
                      /\ \A k \in 1..Len(s.runs) : \E j \in 1..Len(runs) : Items(s.runs[k]) = Items(runs[j])
<1>1. N \in Nat
  OBVIOUS
<1>2. first \in S /\ first.runs = runs /\ first.i = 0
  BY DEF RefillState
<1>3. \A s \in S : s.i < Len(s.runs) => Refilled(s, RefillRun(s))
  BY RefillRunIs
<1>4. step \in [1..N -> [S -> S]]
  <2>1. \A s \in S : (IF s.i < Len(s.runs) THEN RefillRun(s) ELSE s) \in S
    BY <1>3 DEF Refilled
  <2> HIDE DEF S, N
  <2> QED
    BY <2>1
<1>5. \E g : Recurs(g, N, S, first, step)
  <2> HIDE DEF N, S, step, first
  <2>1. Steps(N, S, first, step)
    BY <1>1, <1>2, <1>4 DEF Steps
  <2> QED
    BY <2>1, Recursion
<1> HIDE DEF first
<1>6. PICK g \in [0..N -> S] : g[0] = first /\ \A n \in 1..N : g[n] = step[n][g[n - 1]]
  <2> HIDE DEF step, S
  <2> QED
    BY <1>5 DEF Recurs
<1>7. \A n \in 1..N : g[n] = IF g[n - 1].i < Len(g[n - 1].runs) THEN RefillRun(g[n - 1]) ELSE g[n - 1]
  <2> SUFFICES ASSUME NEW n \in 1..N
               PROVE  g[n] = IF g[n - 1].i < Len(g[n - 1].runs) THEN RefillRun(g[n - 1]) ELSE g[n - 1]
    OBVIOUS
  <2>1. n - 1 \in 0..N
    BY <1>1
  <2> HIDE DEF S, N
  <2>2. g[n - 1] \in S
    BY <1>6, <2>1
  <2>3. step[n][g[n - 1]] = IF g[n - 1].i < Len(g[n - 1].runs) THEN RefillRun(g[n - 1]) ELSE g[n - 1]
    BY <2>2
  <2> HIDE DEF step
  <2> QED
    BY <1>6, <2>3
<1> HIDE DEF step
<1> DEFINE Gap(n) == Len(g[n].runs) - g[n].i = N - n
           P == {n \in 0..N : Fine(g[n]) /\ Gap(n)}
<1>8. 0 \in P
  <2>1. Fine(first)
    <3>1. \A z : Same(All(Stock(z, runs)), All(Stock(z, runs)))
      BY SameSelf
    <3>2. \A k \in 1..0 : FALSE
      OBVIOUS
    <3> QED
      BY <1>2, <3>1, <3>2
  <2>2. Len(first.runs) - first.i = N - 0
    BY <1>1, <1>2
  <2>3. 0 \in 0..N
    BY <1>1
  <2> HIDE DEF Fine, N
  <2> QED
    BY <1>6, <2>1, <2>2, <2>3
<1>9. \A n \in 1..N : n - 1 \in P => n \in P /\ g[n] = RefillRun(g[n - 1])
  <2>0. \A n \in 1..N : n \in 0..N
    BY <1>1
  <2> HIDE DEF Fine, Gap, N
  <2> SUFFICES ASSUME NEW n \in 1..N, n - 1 \in P PROVE Fine(g[n]) /\ Gap(n) /\ g[n] = RefillRun(g[n - 1])
    BY <2>0
  <2> USE DEF Fine, Gap, N
  <2> DEFINE s == g[n - 1]
             next == g[n]
  <2>1. Fine(s) /\ Len(s.runs) - s.i = N - (n - 1)
    OBVIOUS
  <2>2. n \in Int /\ n <= N /\ Len(s.runs) \in Nat /\ s.i \in Nat
    BY <2>1 DEF RefillState
  <2>3. s.i < Len(s.runs)
    BY <1>1, <2>1, <2>2
  <2>4. next = RefillRun(s)
    BY <1>7, <2>3
  <2> HIDE DEF s, next, P, N
  <2>5. Refilled(s, next)
    BY <1>3, <2>1, <2>3, <2>4
  <2>6. next \in RefillState /\ Len(next.runs) - next.i = Len(s.runs) - s.i - 1
    BY <2>5 DEF Refilled
  <2>7. Len(next.runs) - next.i = N - n
    BY <1>1, <2>1, <2>2, <2>6
  <2>8. \A k \in 1..next.i : next.runs[k].cache # <<>>
    BY <2>1, <2>5 DEF Refilled
  <2>9. \A z : Same(All(Stock(z, next.runs)), All(Stock(z, runs)))
    <3> SUFFICES ASSUME NEW z PROVE Same(All(Stock(z, next.runs)), All(Stock(z, runs)))
      OBVIOUS
    <3>1. Same(All(Stock(z, next.runs)), All(Stock(z, s.runs)))
      BY <2>5 DEF Refilled
    <3>2. Same(All(Stock(z, s.runs)), All(Stock(z, runs)))
      BY <2>1
    <3> QED
      BY <3>1, <3>2, SameOn
  <2>10. \A k \in 1..Len(next.runs) : \E j \in 1..Len(runs) : Items(next.runs[k]) = Items(runs[j])
    <3> SUFFICES ASSUME NEW k \in 1..Len(next.runs) PROVE \E j \in 1..Len(runs) : Items(next.runs[k]) = Items(runs[j])
      OBVIOUS
    <3>1. PICK i \in 1..Len(s.runs) : Items(next.runs[k]) = Items(s.runs[i])
      BY <2>5 DEF Refilled
    <3>2. PICK j \in 1..Len(runs) : Items(s.runs[i]) = Items(runs[j])
      BY <2>1
    <3> QED
      BY <3>1, <3>2
  <2>11. Fine(next)
    BY <2>6, <2>8, <2>9, <2>10
  <2> QED
    BY <2>4, <2>7, <2>11 DEF next, s
<1>10. \A n \in 0..N : n \in P
  <2>1. \A n \in 1..N : n - 1 \in P => n \in P
    BY <1>9
  <2> HIDE DEF P, N
  <2> QED
    BY <1>1, <1>8, <2>1, Upwards
<1>11. \A n \in 1..N : g[n] = RefillRun(g[n - 1])
  <2> SUFFICES ASSUME NEW n \in 1..N PROVE g[n] = RefillRun(g[n - 1])
    OBVIOUS
  <2>1. n - 1 \in 0..N
    BY <1>1
  <2> HIDE DEF P
  <2> QED
    BY <1>9, <1>10, <2>1
<1>12. g = Body(g)
  <2>1. \A n \in 0..N : g[n] = IF n = 0 THEN first ELSE RefillRun(g[n - 1])
    BY <1>1, <1>6, <1>11
  <2> HIDE DEF N
  <2> QED
    BY <1>6, <2>1
<1>13. turn = Body(turn)
  <2> HIDE DEF Body
  <2> QED
    BY <1>12
<1>14. RefillRuns(runs) = turn[N].runs
  BY DEF RefillRuns, first
<1> HIDE DEF turn
<1>15. turn[N] = g[N]
  <2> DEFINE Q == {n \in 0..N : turn[n] = g[n]}
  <2>1. 0 \in Q
    BY <1>1, <1>6, <1>13
  <2>2. \A n \in 1..N : n - 1 \in Q => n \in Q
    <3> SUFFICES ASSUME NEW n \in 1..N, n - 1 \in Q PROVE turn[n] = g[n]
      BY <1>1
    <3>1. n \in 0..N /\ n # 0 /\ turn[n - 1] = g[n - 1]
      BY <1>1
    <3>2. turn[n] = RefillRun(turn[n - 1])
      <4> HIDE DEF N
      <4> QED
        BY <1>13, <3>1
    <3> QED
      BY <1>11, <3>1, <3>2
  <2>3. N \in 0..N
    BY <1>1
  <2>4. N \in Q
    <3> HIDE DEF Q, N
    <3> QED
      BY <1>1, <2>1, <2>2, <2>3, Upwards
  <2> QED
    BY <2>4
<1>16. N \in 0..N
  BY <1>1
<1> DEFINE last == g[N]
<1>17. Fine(last) /\ Len(last.runs) - last.i = N - N
  <2>1. N \in P
    <3> HIDE DEF P
    <3> QED
      BY <1>10, <1>16
  <2> QED
    BY <2>1
<1>18. RefillRuns(runs) = last.runs
  BY <1>14, <1>15
<1> HIDE DEF last, N
<1>19. last.runs \in Seq(RunSet) /\ Len(last.runs) \in Nat /\ last.i \in Nat
  BY <1>17 DEF RefillState
<1>20. Len(last.runs) = last.i
  BY <1>1, <1>17, <1>19
<1> QED
  BY <1>17, <1>18, <1>19, <1>20

-----------------------------------------------------------------------------
(* S_absorb_slices and S_merge_slices                                       *)

\* The slices that have elements, of the first n, in order.
Picks(b, n, slices, r) ==
    /\ b \in [1..Len(r) -> 1..n] /\ \A j, k \in 1..Len(r) : b[j] = b[k] => j = k
    /\ \A j \in 1..Len(r) : r[j] = slices[b[j]]
    /\ \A k \in 1..n : (\E j \in 1..Len(r) : b[j] = k) \/ slices[k] = <<>>
Picked(n, slices, r) == r \in Seq(Ints) /\ \E b : Picks(b, n, slices, r)

LEMMA PickedIs ==
  ASSUME NEW slices \in Seq(Ints), NEW n \in 1..Len(slices), NEW r, Picked(n - 1, slices, r)
  PROVE  Picked(n, slices, IF slices[n] = <<>> THEN r ELSE Append(r, slices[n]))
<1>1. PICK b : Picks(b, n - 1, slices, r)
  BY DEF Picked
<1>2. r \in Seq(Ints) /\ Len(r) \in Nat /\ slices[n] \in Ints
  BY DEF Picked
<1>3. \A k \in 1..(n - 1) : k \in 1..n
  OBVIOUS
<1>4. \A k \in 1..n : k = n \/ k \in 1..(n - 1)
  OBVIOUS
<1>5. CASE slices[n] = <<>>
  <2>1. b \in [1..Len(r) -> 1..n]
    BY <1>1, <1>3 DEF Picks
  <2>2. \A k \in 1..n : (\E j \in 1..Len(r) : b[j] = k) \/ slices[k] = <<>>
    BY <1>1, <1>4, <1>5 DEF Picks
  <2>3. Picks(b, n, slices, r)
    BY <1>1, <2>1, <2>2 DEF Picks
  <2> QED
    BY <1>2, <1>5, <2>3 DEF Picked
<1>6. CASE slices[n] # <<>>
  <2> DEFINE m == Len(r) + 1
             new == Append(r, slices[n])
             d == [j \in 1..m |-> IF j = m THEN n ELSE b[j]]
  <2>1. /\ new \in Seq(Ints) /\ Len(new) = m /\ new[m] = slices[n] /\ m \in 1..m /\ m \in Nat
        /\ \A j \in 1..m : j # m => j \in 1..Len(r) /\ new[j] = r[j]
        /\ \A j \in 1..Len(r) : j \in 1..m /\ j # m
    BY <1>2
  <2> HIDE DEF m, new
  <2>2. b \in [1..Len(r) -> 1..(n - 1)] /\ \A j \in 1..Len(r) : b[j] # n /\ b[j] \in 1..n
    <3>1. b \in [1..Len(r) -> 1..(n - 1)] /\ \A k \in 1..(n - 1) : k # n
      BY <1>1 DEF Picks
    <3> QED
      BY <1>3, <3>1
  <2>3. n \in 1..n
    OBVIOUS
  <2>4. d \in [1..m -> 1..n]
    BY <2>1, <2>2, <2>3
  <2>5. \A j, k \in 1..m : d[j] = d[k] => j = k
    BY <1>1, <2>1, <2>2 DEF Picks
  <2>6. \A j \in 1..m : new[j] = slices[d[j]]
    BY <1>1, <2>1, <2>2 DEF Picks
  <2>7. \A k \in 1..n : (\E j \in 1..m : d[j] = k) \/ slices[k] = <<>>
    <3> SUFFICES ASSUME NEW k \in 1..n, slices[k] # <<>> PROVE \E j \in 1..m : d[j] = k
      OBVIOUS
    <3>1. CASE k = n
      BY <2>1, <3>1
    <3>2. CASE k # n
      <4>1. PICK j \in 1..Len(r) : b[j] = k
        BY <1>1, <1>4, <3>2 DEF Picks
      <4> QED
        BY <2>1, <4>1
    <3> QED
      BY <3>1, <3>2
  <2>8. Picks(d, n, slices, new)
    <3> HIDE DEF d
    <3> QED
      BY <2>1, <2>4, <2>5, <2>6, <2>7 DEF Picks
  <2>9. Picked(n, slices, new)
    BY <2>1, <2>8 DEF Picked
  <2> QED
    BY <1>6, <2>9 DEF new
<1> QED
  BY <1>5, <1>6

LEMMA SomeSlicesAre ==
  ASSUME NEW slices \in Seq(Ints)
  PROVE  /\ SomeSlices(slices) \in Seq(Ints)
         /\ Same(All(SomeSlices(slices)), All(slices))
         /\ \A j \in 1..Len(SomeSlices(slices)) : \E k \in 1..Len(slices) : SomeSlices(slices)[j] = slices[k]
<1> DEFINE N == Len(slices)
           S == Seq(Ints)
           Next1(n, x) == IF slices[n] = <<>> THEN x ELSE Append(x, slices[n])
           step == [n \in 1..N |-> [x \in S |-> Next1(n, x)]]
           Body(g) == [n \in 0..N |-> IF n = 0 THEN <<>> ELSE Next1(n, g[n - 1])]
           some == CHOOSE g : g = Body(g)
<1>1. N \in Nat /\ <<>> \in S
  OBVIOUS
<1>2. step \in [1..N -> [S -> S]]
  <2>1. \A n \in 1..N : \A x \in S : Next1(n, x) \in S
    <3> SUFFICES ASSUME NEW n \in 1..N, NEW x \in S PROVE Next1(n, x) \in S
      OBVIOUS
    <3>1. slices[n] \in Ints
      OBVIOUS
    <3> QED
      BY <3>1
  <2> HIDE DEF N, S, Next1
  <2> QED
    BY <2>1
<1>3. \E g : Recurs(g, N, S, <<>>, step)
  <2> HIDE DEF N, S, step
  <2>1. Steps(N, S, <<>>, step)
    BY <1>1, <1>2 DEF Steps
  <2> QED
    BY <2>1, Recursion
<1>4. \E g : g = Body(g)
  <2> HIDE DEF S, Next1
  <2>1. PICK g \in [0..N -> S] : g[0] = <<>> /\ \A n \in 1..N : g[n] = step[n][g[n - 1]]
    <3> HIDE DEF step, N
    <3> QED
      BY <1>3 DEF Recurs
  <2>2. \A n \in 1..N : g[n] = Next1(n, g[n - 1])
    <3> SUFFICES ASSUME NEW n \in 1..N PROVE g[n] = Next1(n, g[n - 1])
      OBVIOUS
    <3>1. n - 1 \in 0..N
      BY <1>1
    <3> HIDE DEF N
    <3>2. g[n - 1] \in S
      BY <2>1, <3>1
    <3>3. step[n][g[n - 1]] = Next1(n, g[n - 1])
      BY <3>2
    <3> HIDE DEF step
    <3> QED
      BY <2>1, <3>3
  <2>3. \A n \in 0..N : g[n] = IF n = 0 THEN <<>> ELSE Next1(n, g[n - 1])
    <3>1. \A n \in 0..N : n = 0 \/ n \in 1..N
      BY <1>1
    <3> HIDE DEF N, step
    <3> QED
      BY <2>1, <2>2, <3>1
  <2>4. g = Body(g)
    <3> HIDE DEF N, step
    <3> QED
      BY <2>1, <2>3
  <2> QED
    BY <2>4
<1>5. some = Body(some)
  <2> HIDE DEF Body
  <2> QED
    BY <1>4
<1>6. SomeSlices(slices) = some[N]
  BY DEF SomeSlices
<1> HIDE DEF some, step, S
<1> DEFINE P == {n \in 0..N : Picked(n, slices, some[n])}
<1>7. 0 \in P
  <2>1. some[0] = <<>>
    <3> HIDE DEF Next1
    <3> QED
      BY <1>1, <1>5
  <2>2. Picks(<<>>, 0, slices, <<>>)
    BY DEF Picks
  <2>3. Picked(0, slices, <<>>)
    BY <2>2 DEF Picked
  <2> QED
    BY <1>1, <2>1, <2>3
<1>8. \A n \in 1..N : n - 1 \in P => n \in P
  <2> SUFFICES ASSUME NEW n \in 1..N, n - 1 \in P PROVE Picked(n, slices, some[n])
    BY <1>1
  <2>1. n \in 0..N /\ n # 0
    BY <1>1
  <2>2. some[n] = Next1(n, some[n - 1])
    <3> HIDE DEF N, Next1
    <3> QED
      BY <1>5, <2>1
  <2> QED
    BY <2>2, PickedIs
<1>9. N \in P
  <2>1. N \in 0..N
    BY <1>1
  <2> HIDE DEF P, N
  <2> QED
    BY <1>1, <1>7, <1>8, <2>1, Upwards
<1> DEFINE next == SomeSlices(slices)
<1>10. Picked(N, slices, next)
  BY <1>6, <1>9
<1> HIDE DEF next
<1>11. PICK b : Picks(b, N, slices, next)
  BY <1>10 DEF Picked
<1>12. next \in Seq(Ints) /\ DOMAIN next = 1..Len(next) /\ DOMAIN slices = 1..N
  BY <1>10 DEF Picked
<1>13. Renumbers(b, next, slices)
  <2>1. \A k \in 1..N : slices[k] = <<>> => DOMAIN slices[k] = {}
    OBVIOUS
  <2> HIDE DEF N
  <2> QED
    BY <1>11, <1>12, <2>1 DEF Picks, Renumbers
<1>14. Same(All(next), All(slices))
  BY <1>13, SameRenumbered
<1>15. \A j \in 1..Len(next) : \E k \in 1..N : next[j] = slices[k]
  BY <1>11 DEF Picks
<1> QED
  BY <1>12, <1>14, <1>15 DEF next

\* A round of merging has what there was, in half as many slices.
LEMMA RoundIs ==
  ASSUME NEW slices \in Seq(Ints)
  PROVE  /\ Round(slices) \in Seq(Ints) /\ Len(Round(slices)) = (Len(slices) + 1) \div 2
         /\ Same(All(Round(slices)), All(slices))
         /\ (\A k \in 1..Len(slices) : Sorted(slices[k])) =>
               \A k \in 1..Len(Round(slices)) : Sorted(Round(slices)[k])
<1> DEFINE n == (Len(slices) + 1) \div 2
           R == Round(slices)
           G == Paired(slices)
<1>1. Len(slices) \in Nat /\ n \in Nat /\ DOMAIN R = 1..n /\ DOMAIN G = 1..n
  BY DEF Round, Paired
<1>2. \A k \in 1..n :
         /\ R[k] = IF 2 * k <= Len(slices) THEN Merge(slices[2 * k - 1], slices[2 * k]) ELSE slices[2 * k - 1]
         /\ G[k] = IF 2 * k <= Len(slices) THEN slices[2 * k - 1] \o slices[2 * k] ELSE slices[2 * k - 1]
  BY DEF Round, Paired, Neighbour
<1>3. R = [k \in 1..n |-> R[k]]
  BY DEF Round
<1> HIDE DEF R, G
<1>4. \A k \in 1..n :
         /\ R[k] \in Ints /\ Same(R[k], G[k])
         /\ (\A j \in 1..Len(slices) : Sorted(slices[j])) => Sorted(R[k])
  <2> SUFFICES ASSUME NEW k \in 1..n
               PROVE  /\ R[k] \in Ints /\ Same(R[k], G[k])
                      /\ (\A j \in 1..Len(slices) : Sorted(slices[j])) => Sorted(R[k])
    OBVIOUS
  <2> DEFINE x == slices[2 * k - 1]
             y == slices[2 * k]
  <2>1. /\ 2 * k - 1 \in 1..Len(slices) /\ x \in Ints
        /\ 2 * k <= Len(slices) => 2 * k \in 1..Len(slices) /\ y \in Ints
    BY NeighbourIs
  <2>2. (\A j \in 1..Len(slices) : Sorted(slices[j])) => Sorted(x) /\ (2 * k <= Len(slices) => Sorted(y))
    BY <2>1
  <2>3. /\ R[k] = IF 2 * k <= Len(slices) THEN Merge(x, y) ELSE x
        /\ G[k] = IF 2 * k <= Len(slices) THEN x \o y ELSE x
    BY <1>2
  <2> HIDE DEF x, y, n
  <2>4. CASE 2 * k <= Len(slices)
    <3>1. x \in Ints /\ y \in Ints /\ R[k] = Merge(x, y) /\ G[k] = x \o y
      BY <2>1, <2>3, <2>4
    <3>2. /\ Merge(x, y) \in Ints /\ Same(Merge(x, y), x \o y)
          /\ Sorted(x) /\ Sorted(y) => Sorted(Merge(x, y))
      BY <3>1, MergeIs
    <3> QED
      BY <2>2, <2>4, <3>1, <3>2
  <2>5. CASE ~ (2 * k <= Len(slices))
    <3>1. R[k] = x /\ G[k] = x
      BY <2>3, <2>5
    <3> QED
      BY <2>1, <2>2, <3>1, SameSelf
  <2> QED
    BY <2>4, <2>5
<1> HIDE DEF n
<1>5. R \in Seq(Ints) /\ Len(R) = n
  <2>1. R \in [1..n -> Ints]
    BY <1>3, <1>4
  <2> QED
    BY <1>1, <2>1
<1>6. Same(All(R), All(slices))
  <2>1. Same(All(R), All(G))
    BY <1>1, <1>4, SameEach
  <2>2. Same(All(G), All(slices))
    BY SamePaired DEF G
  <2> QED
    BY <2>1, <2>2, SameOn
<1> QED
  BY <1>4, <1>5, <1>6 DEF R, n

\* Rounds go on until one is left, which has everything in order.
LEMMA MergeSlicesIs ==
  ASSUME NEW slices \in Seq(Ints), Len(slices) > 0, \A k \in 1..Len(slices) : Sorted(slices[k])
  PROVE  /\ MergeSlices(slices) \in Ints /\ Sorted(MergeSlices(slices))
         /\ Same(MergeSlices(slices), All(slices))
<1> DEFINE N == Len(slices)
           S == Seq(Ints)
           step == [n \in 1..N |-> [x \in S |-> Round(x)]]
           Body(g) == [n \in 0..N |-> IF n = 0 THEN slices ELSE Round(g[n - 1])]
           after == CHOOSE g : g = Body(g)
<1>1. N \in Nat /\ N >= 1 /\ slices \in S
  OBVIOUS
<1>2. step \in [1..N -> [S -> S]]
  <2>1. \A x \in S : Round(x) \in S
    BY RoundIs
  <2> HIDE DEF N, S
  <2> QED
    BY <2>1
<1>3. \E g : Recurs(g, N, S, slices, step)
  <2> HIDE DEF N, S, step
  <2>1. Steps(N, S, slices, step)
    BY <1>1, <1>2 DEF Steps
  <2> QED
    BY <2>1, Recursion
<1>4. \E g : g = Body(g)
  <2> HIDE DEF S
  <2>1. PICK g \in [0..N -> S] : g[0] = slices /\ \A n \in 1..N : g[n] = step[n][g[n - 1]]
    <3> HIDE DEF step, N
    <3> QED
      BY <1>3 DEF Recurs
  <2>2. \A n \in 1..N : g[n] = Round(g[n - 1])
    <3> SUFFICES ASSUME NEW n \in 1..N PROVE g[n] = Round(g[n - 1])
      OBVIOUS
    <3>1. n - 1 \in 0..N
      BY <1>1
    <3> HIDE DEF N
    <3>2. g[n - 1] \in S
      BY <2>1, <3>1
    <3>3. step[n][g[n - 1]] = Round(g[n - 1])
      BY <3>2
    <3> HIDE DEF step
    <3> QED
      BY <2>1, <3>3
  <2>3. \A n \in 0..N : g[n] = IF n = 0 THEN slices ELSE Round(g[n - 1])
    <3>1. \A n \in 0..N : n = 0 \/ n \in 1..N
      BY <1>1
    <3> HIDE DEF N, step
    <3> QED
      BY <2>1, <2>2, <3>1
  <2>4. g = Body(g)
    <3> HIDE DEF N, step
    <3> QED
      BY <2>1, <2>3
  <2> QED
    BY <2>4
<1>5. after = Body(after)
  <2> HIDE DEF Body
  <2> QED
    BY <1>4
<1>6. MergeSlices(slices) = after[N][1]
  BY DEF MergeSlices
<1> HIDE DEF after, step, S
<1> DEFINE Fine(n) == /\ after[n] \in Seq(Ints) /\ Same(All(after[n]), All(slices))
                      /\ \A k \in 1..Len(after[n]) : Sorted(after[n][k])
                      /\ Len(after[n]) >= 1 /\ (Len(after[n]) = 1 \/ Len(after[n]) <= N - n)
           P == {n \in 0..N : Fine(n)}
<1>7. 0 \in P
  <2>1. after[0] = slices
    BY <1>1, <1>5
  <2>2. Same(All(slices), All(slices))
    BY SameSelf
  <2> QED
    BY <1>1, <2>1, <2>2
<1>8. \A n \in 1..N : n - 1 \in P => n \in P
  <2>0. \A n \in 1..N : n \in 0..N
    BY <1>1
  <2> HIDE DEF Fine, N
  <2> SUFFICES ASSUME NEW n \in 1..N, n - 1 \in P PROVE Fine(n)
    BY <2>0
  <2>1. n \in 0..N /\ n # 0 /\ n \in Int
    BY <1>1, <2>0
  <2>2. after[n] = Round(after[n - 1])
    BY <1>5, <2>1
  <2>3. Fine(n - 1)
    OBVIOUS
  <2> DEFINE x == after[n - 1]
             y == after[n]
  <2>4. /\ x \in Seq(Ints) /\ Same(All(x), All(slices))
        /\ \A k \in 1..Len(x) : Sorted(x[k])
        /\ Len(x) >= 1 /\ (Len(x) = 1 \/ Len(x) <= N - (n - 1)) /\ Len(x) \in Nat
    BY <2>3 DEF Fine
  <2>5. y = Round(x)
    BY <2>2
  <2> HIDE DEF x, y
  <2>6. /\ y \in Seq(Ints) /\ Len(y) = (Len(x) + 1) \div 2
        /\ Same(All(y), All(x)) /\ \A k \in 1..Len(y) : Sorted(y[k])
    BY <2>4, <2>5, RoundIs
  <2>7. Same(All(y), All(slices))
    BY <2>4, <2>6, SameOn
  <2>8. Len(y) >= 1 /\ (Len(y) = 1 \/ Len(y) <= N - n)
    BY <1>1, <2>1, <2>4, <2>6
  <2> QED
    BY <2>6, <2>7, <2>8 DEF Fine, y
<1>9. N \in P
  <2>1. N \in 0..N
    BY <1>1
  <2> HIDE DEF P, N
  <2> QED
    BY <1>1, <1>7, <1>8, <2>1, Upwards
<1> DEFINE last == after[N]
<1>10. /\ last \in Seq(Ints) /\ Same(All(last), All(slices))
       /\ \A k \in 1..Len(last) : Sorted(last[k])
       /\ Len(last) >= 1 /\ (Len(last) = 1 \/ Len(last) <= N - N) /\ Len(last) \in Nat
  BY <1>9
<1> HIDE DEF last, N
<1>11. Len(last) = 1
  BY <1>1, <1>10
<1>12. last[1] \in Ints /\ DOMAIN last = {1} /\ Sorted(last[1])
  <2>1. 1 \in 1..Len(last) /\ DOMAIN last = 1..1
    BY <1>10, <1>11
  <2> QED
    BY <1>10, <2>1
<1>13. Same(last[1], All(last))
  BY <1>12, SameAlone
<1>14. MergeSlices(slices) = last[1]
  BY <1>6 DEF last
<1> QED
  BY <1>10, <1>12, <1>13, <1>14, SameOn

-----------------------------------------------------------------------------
(* Taking slices off the runs                                               *)

\* Places that have the same item, both ways.
Both(d, e, f, g) ==
    /\ d \in [DOMAIN f -> DOMAIN g] /\ e \in [DOMAIN g -> DOMAIN f]
    /\ \A x \in DOMAIN f : e[d[x]] = x /\ g[d[x]] = f[x]
    /\ \A y \in DOMAIN g : d[e[y]] = y

LEMMA BothWays ==
  ASSUME NEW f, NEW g
  PROVE  Same(f, g) <=> \E d, e : Both(d, e, f, g)
<1>1. ASSUME Same(f, g) PROVE \E d, e : Both(d, e, f, g)
  <2>1. PICK d : Matches(d, f, g)
    BY <1>1 DEF Same
  <2> DEFINE e == [y \in DOMAIN g |-> CHOOSE x \in DOMAIN f : d[x] = y]
  <2>2. \A y \in DOMAIN g : e[y] \in DOMAIN f /\ d[e[y]] = y
    BY <2>1 DEF Matches
  <2>3. e \in [DOMAIN g -> DOMAIN f]
    BY <2>2
  <2> HIDE DEF e
  <2>4. \A x \in DOMAIN f : e[d[x]] = x /\ g[d[x]] = f[x]
    BY <2>1, <2>2 DEF Matches
  <2>5. Both(d, e, f, g)
    BY <2>1, <2>2, <2>3, <2>4 DEF Both, Matches
  <2> QED
    BY <2>5
<1>2. ASSUME NEW d, NEW e, Both(d, e, f, g) PROVE Same(f, g)
  <2>1. Matches(d, f, g)
    BY <1>2 DEF Both, Matches
  <2> QED
    BY <2>1 DEF Same
<1> QED
  BY <1>1, <1>2

\* Each of some sequences begins with a slice; the slices have gone to where
\* the first sequence ends.
LEMMA SameTaken ==
  ASSUME NEW N \in Nat, NEW z \in Ints, NEW m \in Ints,
         NEW slice \in [1..N -> Ints], NEW rest \in [1..N -> Ints], Same(m, All(slice))
  PROVE  Same(All([k \in 0..N |-> IF k = 0 THEN z \o m ELSE rest[k]]),
              All([k \in 0..N |-> IF k = 0 THEN z ELSE slice[k] \o rest[k]]))
<1> DEFINE F == [k \in 0..N |-> IF k = 0 THEN z \o m ELSE rest[k]]
           G == [k \in 0..N |-> IF k = 0 THEN z ELSE slice[k] \o rest[k]]
           n == Len(z)
           size(k) == Len(slice[k])
<1>1. PICK d, e : Both(d, e, m, All(slice))
  BY BothWays
<1>2. /\ n \in Int /\ n >= 0 /\ Len(m) \in Nat /\ DOMAIN z = 1..n /\ DOMAIN m = 1..Len(m)
      /\ DOMAIN (z \o m) = 1..(n + Len(m))
      /\ \A i \in 1..n : (z \o m)[i] = z[i]
      /\ \A i \in (n + 1)..(n + Len(m)) : (z \o m)[i] = m[i - n]
  BY ConcatIs
<1>3. \A k \in 1..N :
         /\ size(k) \in Int /\ size(k) >= 0 /\ Len(rest[k]) \in Nat
         /\ DOMAIN slice[k] = 1..size(k) /\ DOMAIN rest[k] = 1..Len(rest[k])
         /\ DOMAIN G[k] = 1..(size(k) + Len(rest[k]))
         /\ \A i \in 1..size(k) : G[k][i] = slice[k][i]
         /\ \A i \in (size(k) + 1)..(size(k) + Len(rest[k])) : G[k][i] = rest[k][i - size(k)]
         /\ F[k] = rest[k] /\ k \in 0..N /\ k # 0
  <2> SUFFICES ASSUME NEW k \in 1..N
               PROVE  /\ size(k) \in Int /\ size(k) >= 0 /\ Len(rest[k]) \in Nat
                      /\ DOMAIN slice[k] = 1..size(k) /\ DOMAIN rest[k] = 1..Len(rest[k])
                      /\ DOMAIN G[k] = 1..(size(k) + Len(rest[k]))
                      /\ \A i \in 1..size(k) : G[k][i] = slice[k][i]
                      /\ \A i \in (size(k) + 1)..(size(k) + Len(rest[k])) : G[k][i] = rest[k][i - size(k)]
                      /\ F[k] = rest[k] /\ k \in 0..N /\ k # 0
    OBVIOUS
  <2>1. slice[k] \in Ints /\ rest[k] \in Ints
    OBVIOUS
  <2>2. G[k] = slice[k] \o rest[k] /\ F[k] = rest[k] /\ k \in 0..N /\ k # 0
    OBVIOUS
  <2> HIDE DEF F, G
  <2> QED
    BY <2>1, <2>2, ConcatIs
<1>4. DOMAIN F = 0..N /\ DOMAIN G = 0..N /\ F[0] = z \o m /\ G[0] = z /\ 0 \in 0..N
  OBVIOUS
<1> HIDE DEF F, G, n, size
<1> DEFINE to == [p \in Places(F) |->
                     IF p[1] # 0 THEN <<p[1], size(p[1]) + p[2]>>
                     ELSE IF p[2] <= n THEN p ELSE d[p[2] - n]]
           back == [p \in Places(G) |->
                     IF p[1] = 0 THEN p
                     ELSE IF p[2] <= size(p[1]) THEN <<0, n + e[p]>> ELSE <<p[1], p[2] - size(p[1])>>]
           Home(p) == /\ to[p] \in Places(G) /\ All(G)[to[p]] = All(F)[p] /\ back[to[p]] = p
           Away(p) == /\ back[p] \in Places(F) /\ to[back[p]] = p
<1>5. /\ \A i \in 1..Len(m) : /\ d[i] \in Places(slice) /\ e[d[i]] = i /\ All(slice)[d[i]] = m[i]
      /\ \A p \in Places(slice) : e[p] \in 1..Len(m) /\ d[e[p]] = p
  BY <1>1, <1>2, PlacesAre DEF Both
<1>6. \A p \in Places(slice) :
         /\ p[1] \in 1..N /\ p[2] \in 1..size(p[1]) /\ p = <<p[1], p[2]>>
         /\ All(slice)[p] = slice[p[1]][p[2]]
         /\ p \in Places(G) /\ All(G)[p] = slice[p[1]][p[2]]
  <2> SUFFICES ASSUME NEW p \in Places(slice)
               PROVE  /\ p[1] \in 1..N /\ p[2] \in 1..size(p[1]) /\ p = <<p[1], p[2]>>
                      /\ All(slice)[p] = slice[p[1]][p[2]]
                      /\ p \in Places(G) /\ All(G)[p] = slice[p[1]][p[2]]
    OBVIOUS
  <2> DEFINE k == p[1]
             i == p[2]
  <2>1. k \in 1..N /\ i \in DOMAIN slice[k] /\ p = <<k, i>>
    BY PlacesAre
  <2> HIDE DEF k, i
  <2>2. i \in 1..size(k)
    BY <1>3, <2>1
  <2>3. k \in DOMAIN G /\ i \in DOMAIN G[k] /\ G[k][i] = slice[k][i]
    <3>1. size(k) \in Int /\ size(k) >= 0 /\ Len(rest[k]) \in Nat
      BY <1>3, <2>1
    <3>2. i \in 1..(size(k) + Len(rest[k]))
      BY <2>2, <3>1
    <3> QED
      BY <1>3, <1>4, <2>1, <2>2, <3>2
  <2>4. <<k, i>> \in Places(G) /\ All(G)[<<k, i>>] = slice[k][i]
    BY <2>3, PlacesAre
  <2>5. k \in DOMAIN slice /\ All(slice)[<<k, i>>] = slice[k][i]
    BY <2>1, PlacesAre
  <2> QED
    BY <2>1, <2>2, <2>4, <2>5 DEF k, i
<1>7. \A p \in Places(F) : Home(p)
  <2> SUFFICES ASSUME NEW p \in Places(F) PROVE Home(p)
    OBVIOUS
  <2> DEFINE k == p[1]
             i == p[2]
  <2>1. k \in 0..N /\ i \in DOMAIN F[k] /\ p = <<k, i>> /\ All(F)[p] = F[k][i]
    <3>1. k \in DOMAIN F /\ i \in DOMAIN F[k] /\ p = <<k, i>>
      BY PlacesAre
    <3>2. All(F)[<<k, i>>] = F[k][i]
      BY <3>1, PlacesAre
    <3> QED
      BY <1>4, <3>1, <3>2
  <2>2. to[p] = IF k # 0 THEN <<k, size(k) + i>> ELSE IF i <= n THEN p ELSE d[i - n]
    OBVIOUS
  <2>3. \A place \in Places(G) : back[place] = IF place[1] = 0 THEN place
                                       ELSE IF place[2] <= size(place[1]) THEN <<0, n + e[place]>> ELSE <<place[1], place[2] - size(place[1])>>
    OBVIOUS
  <2> HIDE DEF k, i, to, back
  <2>4. CASE k # 0
    <3> DEFINE j == size(k) + i
    <3>1. k \in 1..N
      BY <2>1, <2>4
    <3>2. /\ size(k) \in Int /\ size(k) >= 0 /\ Len(rest[k]) \in Nat /\ i \in 1..Len(rest[k]) /\ F[k] = rest[k]
      BY <1>3, <2>1, <3>1
    <3>3. j \in (size(k) + 1)..(size(k) + Len(rest[k])) /\ j \in 1..(size(k) + Len(rest[k])) /\ j - size(k) = i /\ ~ (j <= size(k))
      BY <3>2
    <3> HIDE DEF j
    <3>4. k \in DOMAIN G /\ j \in DOMAIN G[k] /\ G[k][j] = rest[k][i]
      BY <1>3, <1>4, <3>1, <3>3
    <3>5. <<k, j>> \in Places(G) /\ All(G)[<<k, j>>] = rest[k][i]
      BY <3>4, PlacesAre
    <3>6. to[p] = <<k, j>>
      BY <2>2, <2>4 DEF j
    <3>7. back[<<k, j>>] = <<k, j - size(k)>>
      BY <2>3, <2>4, <3>3, <3>5
    <3> QED
      BY <2>1, <3>2, <3>3, <3>5, <3>6, <3>7
  <2>5. CASE k = 0 /\ i <= n
    <3>1. i \in 1..n /\ F[k][i] = z[i]
      BY <1>2, <1>4, <2>1, <2>5
    <3>2. k \in DOMAIN G /\ i \in DOMAIN G[k] /\ G[k][i] = z[i]
      BY <1>2, <1>4, <2>5, <3>1
    <3>3. <<k, i>> \in Places(G) /\ All(G)[<<k, i>>] = z[i]
      BY <3>2, PlacesAre
    <3>4. to[p] = p
      BY <2>2, <2>5
    <3>5. p[1] = 0
      BY <2>5 DEF k
    <3>6. back[p] = p
      BY <2>1, <2>3, <3>3, <3>5
    <3> QED
      BY <2>1, <3>1, <3>3, <3>4, <3>6
  <2>6. CASE k = 0 /\ ~ (i <= n)
    <3> DEFINE j == i - n
    <3>1. i \in 1..(n + Len(m)) /\ F[k] = z \o m
      BY <1>2, <1>4, <2>1, <2>6
    <3>2. j \in 1..Len(m) /\ i \in (n + 1)..(n + Len(m)) /\ n + j = i
      BY <1>2, <2>6, <3>1
    <3>3. F[k][i] = m[j] /\ to[p] = d[j]
      BY <1>2, <2>2, <2>6, <3>1, <3>2
    <3> HIDE DEF j
    <3> DEFINE place == d[j]
    <3>4. place \in Places(slice) /\ e[place] = j /\ All(slice)[place] = m[j]
      BY <1>5, <3>2
    <3> HIDE DEF place
    <3>5. place[1] \in 1..N /\ place[2] <= size(place[1]) /\ place \in Places(G) /\ All(G)[place] = m[j]
      BY <1>6, <3>4
    <3>6. place[1] # 0
      BY <3>5
    <3>7. back[place] = <<0, n + j>>
      BY <2>3, <3>4, <3>5, <3>6
    <3>8. to[p] = place
      BY <3>3 DEF place
    <3> QED
      BY <2>1, <2>6, <3>2, <3>3, <3>5, <3>7, <3>8
  <2> QED
    BY <2>4, <2>5, <2>6
<1>8. \A p \in Places(G) : Away(p)
  <2> SUFFICES ASSUME NEW p \in Places(G) PROVE Away(p)
    OBVIOUS
  <2> DEFINE k == p[1]
             i == p[2]
  <2>1. k \in 0..N /\ i \in DOMAIN G[k] /\ p = <<k, i>>
    BY <1>4, PlacesAre
  <2>2. back[p] = IF k = 0 THEN p ELSE IF i <= size(k) THEN <<0, n + e[p]>> ELSE <<k, i - size(k)>>
    OBVIOUS
  <2>3. \A place \in Places(F) : to[place] = IF place[1] # 0 THEN <<place[1], size(place[1]) + place[2]>>
                                     ELSE IF place[2] <= n THEN place ELSE d[place[2] - n]
    OBVIOUS
  <2> HIDE DEF k, i, to, back
  <2>4. CASE k = 0
    <3>1. i \in 1..n
      BY <1>2, <1>4, <2>1, <2>4
    <3>2. 0 \in DOMAIN F /\ i \in DOMAIN F[0] /\ i <= n
      BY <1>2, <1>4, <3>1
    <3>3. <<0, i>> \in Places(F)
      BY <3>2, PlacesAre
    <3>4. back[p] = p /\ p[1] = 0 /\ p[2] = i
      BY <2>2, <2>4 DEF k, i
    <3>5. to[p] = p
      BY <2>1, <2>3, <2>4, <3>2, <3>3, <3>4
    <3> QED
      BY <2>1, <2>4, <3>3, <3>4, <3>5
  <2>5. CASE k # 0 /\ i <= size(k)
    <3>1. k \in 1..N /\ i \in 1..size(k)
      <4>1. k \in 1..N
        BY <2>1, <2>5
      <4>2. i \in 1..(size(k) + Len(rest[k])) /\ size(k) \in Int /\ Len(rest[k]) \in Nat
        BY <1>3, <2>1, <4>1
      <4> QED
        BY <2>5, <4>1, <4>2
    <3>2. k \in DOMAIN slice /\ i \in DOMAIN slice[k]
      BY <1>3, <3>1
    <3>3. p \in Places(slice)
      BY <2>1, <3>2, PlacesAre
    <3> DEFINE j == e[p]
               h == n + j
    <3>4. j \in 1..Len(m) /\ d[j] = p
      BY <1>5, <3>3
    <3>5. h \in 1..(n + Len(m)) /\ ~ (h <= n) /\ h - n = j
      BY <1>2, <3>4
    <3>6. back[p] = <<0, h>>
      BY <2>2, <2>5
    <3> HIDE DEF h
    <3>7. 0 \in DOMAIN F /\ h \in DOMAIN F[0]
      BY <1>2, <1>4, <3>5
    <3>8. <<0, h>> \in Places(F)
      BY <3>7, PlacesAre
    <3>9. to[<<0, h>>] = d[h - n]
      BY <2>3, <3>5, <3>8
    <3> QED
      BY <3>4, <3>5, <3>6, <3>8, <3>9
  <2>6. CASE k # 0 /\ ~ (i <= size(k))
    <3>1. k \in 1..N
      BY <2>1, <2>6
    <3>2. i \in 1..(size(k) + Len(rest[k])) /\ size(k) \in Int /\ Len(rest[k]) \in Nat
      BY <1>3, <2>1, <3>1
    <3> DEFINE j == i - size(k)
    <3>3. j \in 1..Len(rest[k]) /\ size(k) + j = i
      BY <2>6, <3>2
    <3>4. back[p] = <<k, j>>
      BY <2>2, <2>6
    <3> HIDE DEF j
    <3>5. k \in DOMAIN F /\ j \in DOMAIN F[k]
      BY <1>3, <1>4, <3>1, <3>3
    <3>6. <<k, j>> \in Places(F)
      BY <3>5, PlacesAre
    <3>7. to[<<k, j>>] = <<k, size(k) + j>>
      BY <2>3, <2>6, <3>6
    <3> QED
      BY <2>1, <3>3, <3>4, <3>6, <3>7
  <2> QED
    BY <2>4, <2>5, <2>6
<1>9. to \in [Places(F) -> Places(G)] /\ back \in [Places(G) -> Places(F)]
  <2>1. \A p \in Places(F) : to[p] \in Places(G)
    BY <1>7
  <2>2. \A p \in Places(G) : back[p] \in Places(F)
    BY <1>8
  <2>3. to = [p \in Places(F) |-> to[p]] /\ back = [p \in Places(G) |-> back[p]]
    OBVIOUS
  <2> HIDE DEF to, back
  <2> QED
    BY <2>1, <2>2, <2>3
<1> HIDE DEF to, back
<1>10. DOMAIN All(F) = Places(F) /\ DOMAIN All(G) = Places(G)
  BY PlacesAre
<1>11. Both(to, back, All(F), All(G))
  BY <1>7, <1>8, <1>9, <1>10 DEF Both
<1>12. Same(All(F), All(G))
  BY <1>11, BothWays
<1> QED
  BY <1>12 DEF F, G

LEMMA SplitIs ==
  ASSUME NEW s \in Ints, NEW n \in 0..Len(s)
  PROVE  /\ SubSeq(s, 1, n) \in Ints /\ Len(SubSeq(s, 1, n)) = n
         /\ \A i \in 1..n : SubSeq(s, 1, n)[i] = s[i]
         /\ SubSeq(s, n + 1, Len(s)) \in Ints /\ Len(SubSeq(s, n + 1, Len(s))) = Len(s) - n
         /\ \A i \in 1..(Len(s) - n) : SubSeq(s, n + 1, Len(s))[i] = s[n + i]
<1>1. s \in Seq(Int) /\ Len(s) \in Nat
  BY DEF Ints
<1>2. SubSeq(s, 1, n) \in Ints /\ Len(SubSeq(s, 1, n)) = n /\ \A i \in 1..n : SubSeq(s, 1, n)[i] = s[i]
  BY <1>1 DEF Ints
<1>3. /\ SubSeq(s, n + 1, Len(s)) \in Ints /\ Len(SubSeq(s, n + 1, Len(s))) = Len(s) - n
      /\ \A i \in 1..(Len(s) - n) : SubSeq(s, n + 1, Len(s))[i] = s[n + i]
  BY <1>1 DEF Ints
<1> QED
  BY <1>2, <1>3

\* SortExRun_pop_slice: what it takes off a run, and what it leaves.
LEMMA RunSliceIs ==
  ASSUME NEW run \in RunSet, Sorted(Items(run)), NEW endpost \in Int
  PROVE  /\ Slice(run, endpost) \in Ints /\ Sorted(Slice(run, endpost))
         /\ WithoutSlice(run, endpost) \in RunSet
         /\ Items(run) = Slice(run, endpost) \o Items(WithoutSlice(run, endpost))
         /\ \A i \in DOMAIN Slice(run, endpost) : Slice(run, endpost)[i] <= endpost
         /\ run.cache # <<>> /\ endpost <= Last(run.cache) =>
               \A i \in DOMAIN Items(WithoutSlice(run, endpost)) :
                  endpost <= Items(WithoutSlice(run, endpost))[i]
         /\ run.cache # <<>> /\ endpost = Last(run.cache) => Slice(run, endpost) # <<>>
<1> DEFINE cache == run.cache
           external == run.external
           size == SliceSize(cache, endpost)
           slice == SubSeq(cache, 1, size)
           left == SubSeq(cache, size + 1, Len(cache))
           all == Items(run)
           rest == Items(WithoutSlice(run, endpost))
           nc == Len(cache)
           ne == Len(external)
<1>1. /\ cache \in Ints /\ external \in Ints /\ nc \in Nat /\ ne \in Nat
      /\ all \in Ints /\ Len(all) = nc + ne /\ DOMAIN all = 1..(nc + ne)
      /\ \A i \in 1..nc : all[i] = cache[i]
      /\ \A i \in (nc + 1)..(nc + ne) : all[i] = external[i - nc]
      /\ DOMAIN cache = 1..nc /\ DOMAIN external = 1..ne
  BY ConcatIs DEF RunSet, Items
<1>2. \A i, j \in 1..(nc + ne) : i <= j => all[i] <= all[j]
  BY <1>1 DEF Sorted
<1>3. Sorted(cache)
  <2> SUFFICES ASSUME NEW i \in 1..nc, NEW j \in 1..nc, i <= j PROVE cache[i] <= cache[j]
    BY <1>1 DEF Sorted
  <2>1. i \in 1..(nc + ne) /\ j \in 1..(nc + ne)
    <3>1. nc \in Nat /\ ne \in Nat
      BY <1>1
    <3> HIDE DEF nc, ne
    <3> QED
      BY <3>1
  <2>2. all[i] <= all[j] /\ all[i] = cache[i] /\ all[j] = cache[j]
    BY <1>1, <1>2, <2>1
  <2> QED
    BY <2>2
<1>4. /\ size \in 0..nc /\ \A i \in 1..size : cache[i] <= endpost
      /\ \A i \in (size + 1)..nc : cache[i] > endpost
  BY <1>1, <1>3, SliceSizeIs
<1>5. /\ Slice(run, endpost) = slice /\ WithoutSlice(run, endpost) = [run EXCEPT !.cache = left]
  BY DEF Slice, WithoutSlice
<1>6. rest = left \o external
  BY <1>5 DEF Items, RunSet
<1>7. \A i \in 1..nc : cache[i] \in Int
  BY <1>1 DEF Ints
<1>8. Last(cache) = cache[nc]
  BY DEF Last
<1>9. cache # <<>> => nc >= 1
  BY <1>1 DEF Ints
<1> HIDE DEF size
<1>10. /\ slice \in Ints /\ Len(slice) = size /\ \A i \in 1..size : slice[i] = cache[i]
  BY <1>1, <1>4, SplitIs
<1>11. /\ left \in Ints /\ Len(left) = nc - size /\ \A i \in 1..(nc - size) : left[i] = cache[size + i]
  BY <1>1, <1>4, SplitIs
<1>12. WithoutSlice(run, endpost) \in RunSet
  BY <1>5, <1>11 DEF RunSet
<1> HIDE DEF cache, external, slice, left, all, rest, nc, ne
<1>13. /\ rest \in Ints /\ Len(rest) = nc - size + ne /\ DOMAIN rest = 1..(nc - size + ne)
       /\ \A i \in 1..(nc - size) : rest[i] = left[i]
       /\ \A i \in ((nc - size) + 1)..(nc - size + ne) : rest[i] = external[i - (nc - size)]
  <2>1. Len(external) = ne
    BY DEF ne
  <2>2. left \in Ints /\ external \in Ints
    BY <1>1, <1>11
  <2>3. /\ rest \in Ints /\ Len(rest) = Len(left) + ne /\ DOMAIN rest = 1..(Len(left) + ne)
        /\ \A i \in 1..Len(left) : rest[i] = left[i]
        /\ \A i \in (Len(left) + 1)..(Len(left) + ne) : rest[i] = external[i - Len(left)]
    BY <1>6, <2>1, <2>2, ConcatIs
  <2> QED
    BY <1>11, <2>3
<1>14. \A i \in 1..(nc - size + ne) : rest[i] = all[size + i] /\ size + i \in 1..(nc + ne)
  <2> SUFFICES ASSUME NEW i \in 1..(nc - size + ne) PROVE rest[i] = all[size + i] /\ size + i \in 1..(nc + ne)
    OBVIOUS
  <2> DEFINE j == size + i
  <2>1. j \in 1..(nc + ne) /\ i \in Int
    BY <1>1, <1>4
  <2>2. CASE i <= nc - size
    <3>1. i \in 1..(nc - size) /\ j \in 1..nc
      BY <1>1, <1>4, <2>2
    <3>2. rest[i] = cache[j]
      BY <1>11, <1>13, <3>1
    <3> HIDE DEF j
    <3>3. all[j] = cache[j]
      BY <1>1, <3>1
    <3> QED
      BY <2>1, <3>2, <3>3 DEF j
  <2>3. CASE ~ (i <= nc - size)
    <3> DEFINE h == i - (nc - size)
    <3>1. i \in ((nc - size) + 1)..(nc - size + ne) /\ j \in (nc + 1)..(nc + ne) /\ j - nc = h
      BY <1>1, <1>4, <2>1, <2>3
    <3>2. rest[i] = external[h]
      BY <1>13, <3>1
    <3> HIDE DEF j, h
    <3>3. all[j] = external[h]
      BY <1>1, <3>1
    <3> QED
      BY <2>1, <3>2, <3>3 DEF j
  <2> QED
    BY <2>2, <2>3
<1>15. all = slice \o rest
  <2>1. /\ slice \o rest \in Ints /\ Len(slice \o rest) = size + (nc - size + ne)
        /\ \A i \in 1..size : (slice \o rest)[i] = slice[i]
        /\ \A i \in (size + 1)..(size + (nc - size + ne)) : (slice \o rest)[i] = rest[i - size]
    <3>1. /\ slice \o rest \in Ints /\ Len(slice \o rest) = Len(slice) + Len(rest)
          /\ \A i \in 1..Len(slice) : (slice \o rest)[i] = slice[i]
          /\ \A i \in (Len(slice) + 1)..(Len(slice) + Len(rest)) : (slice \o rest)[i] = rest[i - Len(slice)]
      BY <1>10, <1>13, ConcatIs
    <3>2. Len(slice) = size /\ Len(rest) = nc - size + ne
      BY <1>10, <1>13
    <3> QED
      BY <1>10, <3>1, <3>2
  <2>2. size + (nc - size + ne) = nc + ne
    BY <1>1, <1>4
  <2>3. \A i \in 1..(nc + ne) : (slice \o rest)[i] = all[i]
    <3> SUFFICES ASSUME NEW i \in 1..(nc + ne) PROVE (slice \o rest)[i] = all[i]
      OBVIOUS
    <3>1. CASE i <= size
      <4>1. i \in 1..size /\ i \in 1..nc
        BY <1>1, <1>4, <3>1
      <4> QED
        BY <1>1, <1>10, <2>1, <4>1
    <3>2. CASE ~ (i <= size)
      <4> DEFINE h == i - size
      <4>1. i \in (size + 1)..(size + (nc - size + ne)) /\ h \in 1..(nc - size + ne) /\ size + h = i
        BY <1>1, <1>4, <3>2
      <4>2. (slice \o rest)[i] = rest[h]
        BY <2>1, <4>1
      <4> HIDE DEF h
      <4> QED
        BY <1>14, <4>1, <4>2
    <3> QED
      BY <3>1, <3>2
  <2> DEFINE s == slice \o rest
  <2>4. s \in Ints /\ Len(s) = Len(all) /\ \A i \in 1..Len(all) : s[i] = all[i]
    BY <1>1, <2>1, <2>2, <2>3
  <2> HIDE DEF s
  <2>5. s = all
    BY <1>1, <2>4, SameItems
  <2> QED
    BY <2>5 DEF s
<1>16. Sorted(slice) /\ \A i \in DOMAIN slice : slice[i] <= endpost
  <2>1. DOMAIN slice = 1..size
    BY <1>10 DEF Ints
  <2>2. \A i \in 1..size : slice[i] = all[i] /\ i \in 1..(nc + ne)
    <3>1. \A i \in 1..size : i \in 1..nc /\ i \in 1..(nc + ne)
      BY <1>1, <1>4
    <3> QED
      BY <1>1, <1>10, <3>1
  <2>3. \A i, j \in 1..size : i <= j => slice[i] <= slice[j]
    BY <1>2, <2>2
  <2> QED
    BY <1>4, <1>10, <2>1, <2>3 DEF Sorted
<1>17. ASSUME cache # <<>>, endpost <= Last(cache)
       PROVE  \A i \in DOMAIN rest : endpost <= rest[i]
  <2> SUFFICES ASSUME NEW i \in 1..(nc - size + ne) PROVE endpost <= rest[i]
    BY <1>13
  <2>1. CASE i <= nc - size
    <3>1. i \in 1..(nc - size) /\ size + i \in (size + 1)..nc /\ size + i \in 1..nc
      BY <1>1, <1>4, <2>1
    <3>2. rest[i] = cache[size + i]
      BY <1>11, <1>13, <3>1
    <3> DEFINE x == cache[size + i]
    <3>3. x > endpost /\ x \in Int
      BY <1>4, <1>7, <3>1
    <3> HIDE DEF x
    <3>4. endpost <= x
      BY <3>3
    <3> QED
      BY <3>2, <3>4 DEF x
  <2>2. CASE ~ (i <= nc - size)
    <3>1. nc \in 1..nc /\ nc \in 1..(nc + ne) /\ nc <= size + i
      BY <1>1, <1>4, <1>9, <1>17, <2>2
    <3> DEFINE x == all[size + i]
               y == cache[nc]
    <3>2. rest[i] = x /\ size + i \in 1..(nc + ne) /\ all[nc] = y
      BY <1>1, <1>14, <3>1
    <3>3. y <= x
      BY <1>2, <3>1, <3>2
    <3>4. y \in Int /\ x \in Int
      BY <1>1, <1>7, <3>1, <3>2 DEF Ints
    <3>5. endpost <= y
      BY <1>8, <1>17
    <3> HIDE DEF x, y
    <3> QED
      BY <3>2, <3>3, <3>4, <3>5
  <2> QED
    BY <2>1, <2>2
<1>18. ASSUME cache # <<>>, endpost = Last(cache) PROVE slice # <<>>
  <2>1. nc \in 1..nc /\ cache[nc] = endpost /\ ~ (cache[nc] > endpost)
    BY <1>1, <1>8, <1>9, <1>18
  <2>2. nc \notin (size + 1)..nc
    BY <1>4, <2>1
  <2>3. size >= 1
    BY <1>1, <1>4, <2>1, <2>2
  <2> QED
    BY <1>10, <2>3
<1> QED
  BY <1>5, <1>10, <1>12, <1>15, <1>16, <1>17, <1>18 DEF cache, all, rest

\* Among some numbers one is the least.
LEMMA LeastOf ==
  ASSUME NEW N \in Nat, N > 0, NEW v \in [1..N -> Int]
  PROVE  \E k \in 1..N : \A j \in 1..N : v[k] <= v[j]
<1> DEFINE P == {n \in 0..N : n = 0 \/ \E k \in 1..n : \A j \in 1..n : v[k] <= v[j]}
<1>1. 0 \in P
  OBVIOUS
<1>2. \A n \in 1..N : n - 1 \in P => n \in P
  <2>0. \A n \in 1..N : n \in 0..N
    OBVIOUS
  <2> SUFFICES ASSUME NEW n \in 1..N, n - 1 \in P
               PROVE  \E k \in 1..n : \A j \in 1..n : v[k] <= v[j]
    BY <2>0
  <2>1. \A j \in 1..n : j \in 1..N /\ v[j] \in Int /\ (j = n \/ j \in 1..(n - 1))
    OBVIOUS
  <2>2. n \in 1..n /\ \A j \in 1..(n - 1) : j \in 1..n
    OBVIOUS
  <2>3. CASE n - 1 = 0
    <3>1. \A j \in 1..n : j = n
      BY <2>1, <2>3
    <3>2. v[n] <= v[n]
      BY <2>1, <2>2
    <3> QED
      BY <2>2, <3>1, <3>2
  <2>4. CASE n - 1 # 0
    <3>1. PICK k \in 1..(n - 1) : \A j \in 1..(n - 1) : v[k] <= v[j]
      BY <2>4
    <3>2. k \in 1..n /\ v[k] \in Int /\ v[n] \in Int
      BY <2>1, <2>2
    <3>3. CASE v[k] <= v[n]
      BY <2>1, <3>1, <3>2, <3>3
    <3>4. CASE ~ (v[k] <= v[n])
      <4>1. \A j \in 1..n : v[n] <= v[j]
        <5> SUFFICES ASSUME NEW j \in 1..n PROVE v[n] <= v[j]
          OBVIOUS
        <5>1. v[j] \in Int /\ (j = n \/ v[k] <= v[j])
          BY <2>1, <3>1
        <5> QED
          BY <3>2, <3>4, <5>1
      <4> QED
        BY <2>2, <4>1
    <3> QED
      BY <3>3, <3>4
  <2> QED
    BY <2>3, <2>4
<1>3. N \in 0..N
  OBVIOUS
<1>4. N \in P
  <2> HIDE DEF P
  <2> QED
    BY <1>1, <1>2, <1>3, Upwards
<1> QED
  BY <1>4

\* S_find_endpost: no run's last item in memory is before it.
LEMMA EndpostIs ==
  ASSUME NEW runs \in Seq(RunSet), Len(runs) > 0, \A k \in 1..Len(runs) : runs[k].cache # <<>>
  PROVE  /\ Endpost(runs) \in Int
         /\ \A k \in 1..Len(runs) : Endpost(runs) <= Last(runs[k].cache)
         /\ \E k \in 1..Len(runs) : Endpost(runs) = Last(runs[k].cache)
<1> DEFINE N == Len(runs)
           v == [k \in 1..N |-> Last(runs[k].cache)]
           lasts == {Last(runs[k].cache) : k \in DOMAIN runs}
           Right(item) == \A other \in lasts : Difference(item, other) <= 0
           end == CHOOSE item \in lasts : Right(item)
<1>1. N \in Nat /\ N > 0 /\ DOMAIN runs = 1..N
  OBVIOUS
<1>2. \A k \in 1..N : Last(runs[k].cache) \in Int
  <2> SUFFICES ASSUME NEW k \in 1..N PROVE Last(runs[k].cache) \in Int
    OBVIOUS
  <2> DEFINE s == runs[k].cache
  <2>1. runs[k] \in RunSet
    OBVIOUS
  <2>2. s \in Ints /\ s # <<>>
    BY <2>1 DEF RunSet
  <2> HIDE DEF s
  <2>3. Last(s) \in Int
    BY <2>2 DEF Ints, Last
  <2> QED
    BY <2>3 DEF s
<1>3. PICK k \in 1..N : \A j \in 1..N : v[k] <= v[j]
  <2>1. v \in [1..N -> Int]
    BY <1>2
  <2> HIDE DEF v, N
  <2> QED
    BY <1>1, <2>1, LeastOf
<1>4. \A j \in 1..N : v[j] = Last(runs[j].cache) /\ v[j] \in Int
  BY <1>2
<1>5. \A item \in lasts : \E j \in 1..N : item = v[j]
  BY <1>1, <1>4
<1>6. \A j \in 1..N : v[j] \in lasts
  BY <1>1, <1>4
<1> HIDE DEF v, lasts, N
<1>7. v[k] \in lasts /\ Right(v[k])
  <2> SUFFICES ASSUME NEW other \in lasts PROVE Difference(v[k], other) <= 0
    BY <1>6
  <2>1. PICK j \in 1..N : other = v[j]
    BY <1>5
  <2>2. v[k] <= v[j] /\ v[k] \in Int /\ v[j] \in Int
    BY <1>3, <1>4
  <2> QED
    BY <2>1, <2>2 DEF Difference
<1>8. end \in lasts /\ Right(end)
  <2> HIDE DEF Right
  <2> QED
    BY <1>7
<1>9. Endpost(runs) = end
  BY DEF Endpost, lasts
<1> HIDE DEF end
<1>10. end \in Int
  BY <1>4, <1>5, <1>8
<1>11. \A j \in 1..N : end <= v[j]
  <2> SUFFICES ASSUME NEW j \in 1..N PROVE end <= v[j]
    OBVIOUS
  <2>1. end - v[j] <= 0
    BY <1>6, <1>8 DEF Difference
  <2>2. v[j] \in Int
    BY <1>4
  <2> QED
    BY <1>10, <2>1, <2>2
<1> QED
  BY <1>4, <1>5, <1>8, <1>9, <1>10, <1>11 DEF N

\* A number that none of the items of the runs is below.
Above(x, runs) == \A k \in 1..Len(runs) : \A j \in DOMAIN Items(runs[k]) : x <= Items(runs[k])[j]

\* S_absorb_slices: what is in order is taken off all runs at once.
LEMMA AbsorbIs ==
  ASSUME NEW runs \in Seq(RunSet), Len(runs) > 0,
         \A k \in 1..Len(runs) : runs[k].cache # <<>> /\ Sorted(Items(runs[k])),
         NEW end, end = Endpost(runs),
         NEW merged, merged = MergeSlices(SomeSlices([k \in DOMAIN runs |-> Slice(runs[k], end)])),
         NEW rest, rest = [k \in DOMAIN runs |-> WithoutSlice(runs[k], end)]
  PROVE  /\ merged \in Ints /\ Sorted(merged) /\ merged # <<>> /\ rest \in Seq(RunSet)
         /\ \A z \in Ints : Same(All(Stock(z \o merged, rest)), All(Stock(z, runs)))
         /\ \A i \in DOMAIN merged : Above(merged[i], rest)
         /\ \A x : Above(x, runs) => Above(x, rest) /\ \A i \in DOMAIN merged : x <= merged[i]
         /\ \A k \in 1..Len(rest) : Sorted(Items(rest[k]))
<1> DEFINE N == Len(runs)
           slices == [k \in 1..N |-> Slice(runs[k], end)]
           picked == SomeSlices(slices)
<1>1. N \in Nat /\ N > 0 /\ DOMAIN runs = 1..N
  OBVIOUS
<1>2. /\ end \in Int /\ \A k \in 1..N : end <= Last(runs[k].cache)
      /\ \E k \in 1..N : end = Last(runs[k].cache)
  BY EndpostIs
<1>3. \A k \in 1..N : runs[k] \in RunSet /\ runs[k].cache # <<>> /\ Sorted(Items(runs[k]))
  OBVIOUS
<1>4. /\ merged = MergeSlices(picked)
      /\ rest = [k \in 1..N |-> WithoutSlice(runs[k], end)]
  BY <1>1
<1>5. \A k \in 1..N :
         /\ slices[k] \in Ints /\ Sorted(slices[k]) /\ rest[k] \in RunSet
         /\ Items(runs[k]) = slices[k] \o Items(rest[k])
         /\ \A i \in DOMAIN slices[k] : slices[k][i] <= end
         /\ \A i \in DOMAIN Items(rest[k]) : end <= Items(rest[k])[i]
         /\ end = Last(runs[k].cache) => slices[k] # <<>>
  <2> SUFFICES ASSUME NEW k \in 1..N
               PROVE  /\ slices[k] \in Ints /\ Sorted(slices[k]) /\ rest[k] \in RunSet
                      /\ Items(runs[k]) = slices[k] \o Items(rest[k])
                      /\ \A i \in DOMAIN slices[k] : slices[k][i] <= end
                      /\ \A i \in DOMAIN Items(rest[k]) : end <= Items(rest[k])[i]
                      /\ end = Last(runs[k].cache) => slices[k] # <<>>
    OBVIOUS
  <2> DEFINE run == runs[k]
  <2>1. slices[k] = Slice(run, end) /\ rest[k] = WithoutSlice(run, end)
    BY <1>4
  <2>2. run \in RunSet /\ run.cache # <<>> /\ Sorted(Items(run)) /\ end <= Last(run.cache)
    BY <1>2, <1>3
  <2> HIDE DEF run, slices
  <2>3. /\ Slice(run, end) \in Ints /\ Sorted(Slice(run, end))
        /\ WithoutSlice(run, end) \in RunSet
        /\ Items(run) = Slice(run, end) \o Items(WithoutSlice(run, end))
        /\ \A i \in DOMAIN Slice(run, end) : Slice(run, end)[i] <= end
        /\ \A i \in DOMAIN Items(WithoutSlice(run, end)) : end <= Items(WithoutSlice(run, end))[i]
        /\ end = Last(run.cache) => Slice(run, end) # <<>>
    BY <1>2, <2>2, RunSliceIs
  <2> QED
    BY <2>1, <2>3 DEF run
<1>6. slices \in Seq(Ints) /\ Len(slices) = N /\ DOMAIN slices = 1..N
  <2>1. slices = [k \in 1..N |-> slices[k]]
    OBVIOUS
  <2> HIDE DEF slices
  <2>2. slices \in [1..N -> Ints]
    BY <1>5, <2>1
  <2> HIDE DEF N
  <2> QED
    BY <1>1, <2>2
<1>7. rest \in Seq(RunSet) /\ Len(rest) = N
  <2>1. rest \in [1..N -> RunSet]
    BY <1>4, <1>5
  <2> HIDE DEF N
  <2> QED
    BY <1>1, <2>1
<1> HIDE DEF slices, N
<1>8. /\ picked \in Seq(Ints) /\ Same(All(picked), All(slices))
      /\ \A j \in 1..Len(picked) : Sorted(picked[j])
  <2>1. /\ picked \in Seq(Ints) /\ Same(All(picked), All(slices))
        /\ \A j \in 1..Len(picked) : \E k \in 1..N : picked[j] = slices[k]
    BY <1>6, SomeSlicesAre
  <2> HIDE DEF picked
  <2> QED
    BY <1>5, <2>1
<1> HIDE DEF picked
<1>9. \E place : place \in Places(slices)
  <2>1. PICK k \in 1..N : slices[k] # <<>>
    BY <1>2, <1>5
  <2> DEFINE s == slices[k]
  <2>2. s \in Ints /\ s # <<>>
    BY <1>5, <2>1
  <2> HIDE DEF s
  <2>3. 1 \in DOMAIN s
    BY <2>2 DEF Ints
  <2>4. k \in DOMAIN slices /\ 1 \in DOMAIN slices[k]
    BY <1>6, <2>3 DEF s
  <2>5. <<k, 1>> \in Places(slices)
    BY <2>4, PlacesAre
  <2> QED
    BY <2>5
<1>10. Len(picked) > 0
  <2>1. PICK place : place \in Places(slices)
    BY <1>9
  <2>2. PICK b : Matches(b, All(picked), All(slices))
    BY <1>8 DEF Same
  <2>3. PICK q \in Places(picked) : TRUE
    BY <2>1, <2>2, PlacesAre DEF Matches
  <2>4. q[1] \in DOMAIN picked
    BY PlacesAre
  <2> QED
    BY <1>8, <2>4
<1>11. merged \in Ints /\ Sorted(merged) /\ Same(merged, All(picked))
  BY <1>4, <1>8, <1>10, MergeSlicesIs
<1>12. Same(merged, All(slices))
  BY <1>8, <1>11, SameOn
<1>13. merged # <<>>
  <2>1. PICK place : place \in Places(slices)
    BY <1>9
  <2>2. PICK b : Matches(b, merged, All(slices))
    BY <1>12 DEF Same
  <2>3. DOMAIN merged # {}
    BY <2>1, <2>2, PlacesAre DEF Matches
  <2> QED
    BY <2>3
<1>14. \A i \in DOMAIN merged : \E k \in 1..N : \E j \in DOMAIN slices[k] : merged[i] = slices[k][j]
  <2> SUFFICES ASSUME NEW i \in DOMAIN merged
               PROVE  \E k \in 1..N : \E j \in DOMAIN slices[k] : merged[i] = slices[k][j]
    OBVIOUS
  <2>1. PICK b : Matches(b, merged, All(slices))
    BY <1>12 DEF Same
  <2> DEFINE place == b[i]
  <2>2. place \in Places(slices) /\ All(slices)[place] = merged[i]
    BY <2>1, PlacesAre DEF Matches
  <2> HIDE DEF place
  <2>3. place[1] \in 1..N /\ place[2] \in DOMAIN slices[place[1]] /\ place = <<place[1], place[2]>>
    BY <1>6, <2>2, PlacesAre
  <2>4. All(slices)[<<place[1], place[2]>>] = slices[place[1]][place[2]]
    BY <1>6, <2>3, PlacesAre
  <2> QED
    BY <2>2, <2>3, <2>4
<1>15. \A z \in Ints : Same(All(Stock(z \o merged, rest)), All(Stock(z, runs)))
  <2> SUFFICES ASSUME NEW z \in Ints PROVE Same(All(Stock(z \o merged, rest)), All(Stock(z, runs)))
    OBVIOUS
  <2> DEFINE left == [k \in 1..N |-> Items(rest[k])]
  <2>1. left \in [1..N -> Ints] /\ \A k \in 1..N : left[k] = Items(rest[k])
    <3>1. \A k \in 1..N : Items(rest[k]) \in Ints
      BY <1>5, ConcatIs DEF Items, RunSet
    <3> QED
      BY <3>1
  <2> HIDE DEF left
  <2>2. slices \in [1..N -> Ints]
    BY <1>6
  <2>3. Same(All([k \in 0..N |-> IF k = 0 THEN z \o merged ELSE left[k]]),
             All([k \in 0..N |-> IF k = 0 THEN z ELSE slices[k] \o left[k]]))
    BY <1>1, <1>11, <1>12, <2>1, <2>2, SameTaken
  <2>4. \A k \in 0..N : k = 0 \/ k \in 1..N
    BY <1>1
  <2>5. [k \in 0..N |-> IF k = 0 THEN z \o merged ELSE left[k]] = Stock(z \o merged, rest)
    BY <1>7, <2>1, <2>4 DEF Stock
  <2>6. [k \in 0..N |-> IF k = 0 THEN z ELSE slices[k] \o left[k]] = Stock(z, runs)
    BY <1>5, <2>1, <2>4 DEF Stock, N
  <2> QED
    BY <2>3, <2>5, <2>6
<1>16. \A i \in DOMAIN merged : merged[i] <= end /\ merged[i] \in Int
  <2>1. \A i \in DOMAIN merged : merged[i] <= end
    BY <1>5, <1>14
  <2>2. \A i \in DOMAIN merged : merged[i] \in Int
    BY <1>11 DEF Ints
  <2> QED
    BY <2>1, <2>2
<1>17. \A i \in DOMAIN merged : Above(merged[i], rest)
  <2> SUFFICES ASSUME NEW i \in DOMAIN merged, NEW k \in 1..N, NEW j \in DOMAIN Items(rest[k])
               PROVE  merged[i] <= Items(rest[k])[j]
    BY <1>7 DEF Above
  <2> DEFINE s == Items(rest[k])
  <2>1. s \in Ints
    BY <1>5, ConcatIs DEF Items, RunSet
  <2>2. end <= s[j]
    BY <1>5
  <2> HIDE DEF s
  <2>3. s[j] \in Int
    BY <2>1 DEF Ints, s
  <2>4. merged[i] <= s[j]
    BY <1>2, <1>16, <2>2, <2>3
  <2> QED
    BY <2>4 DEF s
<1>18. \A k \in 1..N :
          /\ \A j \in DOMAIN slices[k] : \E i \in DOMAIN Items(runs[k]) : slices[k][j] = Items(runs[k])[i]
          /\ \A j \in DOMAIN Items(rest[k]) : \E i \in DOMAIN Items(runs[k]) : Items(rest[k])[j] = Items(runs[k])[i]
          /\ Sorted(Items(rest[k]))
  <2> SUFFICES ASSUME NEW k \in 1..N
               PROVE  /\ \A j \in DOMAIN slices[k] : \E i \in DOMAIN Items(runs[k]) : slices[k][j] = Items(runs[k])[i]
                      /\ \A j \in DOMAIN Items(rest[k]) : \E i \in DOMAIN Items(runs[k]) : Items(rest[k])[j] = Items(runs[k])[i]
                      /\ Sorted(Items(rest[k]))
    OBVIOUS
  <2> DEFINE s == slices[k]
             t == Items(rest[k])
             u == Items(runs[k])
  <2>1. s \in Ints /\ t \in Ints /\ u = s \o t /\ Sorted(u)
    BY <1>3, <1>5, ConcatIs DEF Items, RunSet, N
  <2> HIDE DEF s, t, u
  <2>2. /\ Len(s) \in Nat /\ Len(t) \in Nat
        /\ DOMAIN u = 1..(Len(s) + Len(t)) /\ DOMAIN s = 1..Len(s) /\ DOMAIN t = 1..Len(t)
        /\ \A i \in 1..Len(s) : u[i] = s[i]
        /\ \A i \in 1..Len(t) : u[Len(s) + i] = t[i]
    BY <2>1, ConcatIs
  <2>3. /\ \A i \in 1..Len(s) : i \in DOMAIN u
        /\ \A i \in 1..Len(t) : Len(s) + i \in DOMAIN u
    BY <2>2
  <2>4. \A i, j \in 1..Len(t) : i <= j => t[i] <= t[j]
    <3> SUFFICES ASSUME NEW i \in 1..Len(t), NEW j \in 1..Len(t), i <= j PROVE t[i] <= t[j]
      OBVIOUS
    <3>1. Len(s) + i <= Len(s) + j
      BY <2>2
    <3>2. u[Len(s) + i] <= u[Len(s) + j]
      BY <2>1, <2>3, <3>1 DEF Sorted
    <3> QED
      BY <2>2, <3>2
  <2>5. \A j \in DOMAIN s : \E i \in DOMAIN u : s[j] = u[i]
    BY <2>2, <2>3
  <2>6. \A j \in DOMAIN t : \E i \in DOMAIN u : t[j] = u[i]
    BY <2>2, <2>3
  <2>7. Sorted(t)
    BY <2>2, <2>4 DEF Sorted
  <2> QED
    BY <2>5, <2>6, <2>7 DEF s, t, u
<1>19. ASSUME NEW x, Above(x, runs) PROVE Above(x, rest) /\ \A i \in DOMAIN merged : x <= merged[i]
  <2>1. \A k \in 1..N : \A j \in DOMAIN Items(runs[k]) : x <= Items(runs[k])[j]
    BY <1>19 DEF Above, N
  <2>2. Above(x, rest)
    BY <1>7, <1>18, <2>1 DEF Above
  <2>3. ASSUME NEW i \in DOMAIN merged PROVE x <= merged[i]
    <3>1. PICK k \in 1..N : \E j \in DOMAIN slices[k] : merged[i] = slices[k][j]
      BY <1>14
    <3>2. PICK j \in DOMAIN slices[k] : merged[i] = slices[k][j]
      BY <3>1
    <3>3. PICK h \in DOMAIN Items(runs[k]) : slices[k][j] = Items(runs[k])[h]
      BY <1>18
    <3>4. x <= Items(runs[k])[h]
      BY <2>1
    <3> QED
      BY <3>2, <3>3, <3>4
  <2> QED
    BY <2>2, <2>3
<1> QED
  BY <1>7, <1>11, <1>13, <1>15, <1>17, <1>18, <1>19

-----------------------------------------------------------------------------
(* S_refill_cache                                                           *)

LEMMA SortedConcat ==
  ASSUME NEW z \in Ints, NEW m \in Ints, Sorted(z), Sorted(m),
         \A i \in DOMAIN z : \A j \in DOMAIN m : z[i] <= m[j]
  PROVE  Sorted(z \o m)
<1> DEFINE u == z \o m
<1>1. /\ Len(z) \in Nat /\ Len(m) \in Nat /\ DOMAIN u = 1..(Len(z) + Len(m))
      /\ DOMAIN z = 1..Len(z) /\ DOMAIN m = 1..Len(m)
      /\ \A i \in 1..Len(z) : u[i] = z[i]
      /\ \A i \in (Len(z) + 1)..(Len(z) + Len(m)) : u[i] = m[i - Len(z)]
  BY ConcatIs
<1> HIDE DEF u
<1>2. ASSUME NEW i \in DOMAIN u, NEW j \in DOMAIN u, i <= j PROVE u[i] <= u[j]
  <2>1. i \in Int /\ j \in Int
    BY <1>1
  <2>2. CASE j <= Len(z)
    <3>1. i \in DOMAIN z /\ j \in DOMAIN z
      BY <1>1, <1>2, <2>1, <2>2
    <3>2. z[i] <= z[j]
      BY <1>2, <3>1 DEF Sorted
    <3> QED
      BY <1>1, <3>1, <3>2
  <2>3. CASE i <= Len(z) /\ Len(z) < j
    <3>1. i \in DOMAIN z /\ j - Len(z) \in DOMAIN m /\ j \in (Len(z) + 1)..(Len(z) + Len(m))
      BY <1>1, <2>1, <2>3
    <3>2. z[i] <= m[j - Len(z)]
      BY <3>1
    <3> QED
      BY <1>1, <3>1, <3>2
  <2>4. CASE Len(z) < i
    <3> DEFINE k == i - Len(z)
               l == j - Len(z)
    <3>1. /\ k \in DOMAIN m /\ l \in DOMAIN m /\ k <= l
          /\ i \in (Len(z) + 1)..(Len(z) + Len(m)) /\ j \in (Len(z) + 1)..(Len(z) + Len(m))
      BY <1>1, <1>2, <2>1, <2>4
    <3>2. u[i] = m[k] /\ u[j] = m[l]
      BY <1>1, <3>1
    <3> HIDE DEF k, l
    <3>3. m[k] <= m[l]
      BY <3>1 DEF Sorted
    <3> QED
      BY <3>2, <3>3
  <2> QED
    BY <1>1, <2>1, <2>2, <2>3, <2>4
<1> QED
  BY <1>2 DEF u, Sorted

\* A SortExternal.
SorterSet == [cache : Ints, runs : Seq(RunSet), flipped : BOOLEAN]

\* What was taken before, and what is ready in the cache, is in order, and
\* nothing in the runs belongs before it.
Ordered(z, queue) ==
    /\ Sorted(z \o queue.cache)
    /\ \A i \in DOMAIN (z \o queue.cache) : Above((z \o queue.cache)[i], queue.runs)
    /\ \A k \in 1..Len(queue.runs) : Sorted(Items(queue.runs[k]))

\* A cache that is refilled with all that can be in order.
LEMMA RefillCacheIs ==
  ASSUME Parameters, NEW z \in Ints, NEW queue \in SorterSet, Ordered(z, queue), queue.cache = <<>>
  PROVE  LET ready == RefillCache(queue)
         IN  /\ ready \in SorterSet /\ Ordered(z, ready) /\ ready.flipped = queue.flipped
             /\ Same(All(Stock(z \o ready.cache, ready.runs)), All(Stock(z, queue.runs)))
             /\ ready.cache = <<>> => ready.runs = <<>>
<1> DEFINE runs == RefillRuns(queue.runs)
<1>1. /\ runs \in Seq(RunSet) /\ \A k \in 1..Len(runs) : runs[k].cache # <<>>
      /\ Same(All(Stock(z, runs)), All(Stock(z, queue.runs)))
      /\ \A k \in 1..Len(runs) : \E j \in 1..Len(queue.runs) : Items(runs[k]) = Items(queue.runs[j])
  BY RefillRunsIs DEF SorterSet
<1>2. RefillCache(queue) = IF runs = <<>> THEN [queue EXCEPT !.runs = <<>>, !.cache = <<>>]
                           ELSE AbsorbSlices(queue, runs, Endpost(runs))
  BY DEF RefillCache
<1> HIDE DEF runs
<1>3. z \o <<>> = z /\ <<>> \in Ints /\ <<>> \in Seq(RunSet)
  BY DEF Ints
<1>4. Sorted(z) /\ \A i \in DOMAIN z : Above(z[i], queue.runs)
  BY <1>3 DEF Ordered
<1>5. \A x : Above(x, queue.runs) => Above(x, runs)
  <2> SUFFICES ASSUME NEW x, Above(x, queue.runs), NEW k \in 1..Len(runs), NEW j \in DOMAIN Items(runs[k])
               PROVE  x <= Items(runs[k])[j]
    BY DEF Above
  <2>1. PICK h \in 1..Len(queue.runs) : Items(runs[k]) = Items(queue.runs[h])
    BY <1>1
  <2>2. \A i \in DOMAIN Items(queue.runs[h]) : x <= Items(queue.runs[h])[i]
    BY DEF Above
  <2> QED
    BY <2>1, <2>2
<1>6. \A k \in 1..Len(runs) : Sorted(Items(runs[k]))
  <2>1. \A k \in 1..Len(queue.runs) : Sorted(Items(queue.runs[k]))
    BY DEF Ordered
  <2> QED
    BY <1>1, <2>1
<1>7. CASE runs = <<>>
  <2> DEFINE ready == RefillCache(queue)
  <2>1. ready \in SorterSet /\ ready.cache = <<>> /\ ready.runs = <<>> /\ ready.flipped = queue.flipped
    BY <1>2, <1>3, <1>7 DEF SorterSet
  <2>2. ready.runs = runs /\ z \o ready.cache = z
    BY <1>3, <1>7, <2>1
  <2> HIDE DEF ready
  <2>3. Ordered(z, ready)
    BY <1>4, <1>5, <1>6, <2>2 DEF Ordered
  <2>4. Same(All(Stock(z \o ready.cache, ready.runs)), All(Stock(z, queue.runs)))
    BY <1>1, <2>2
  <2> QED
    BY <2>1, <2>3, <2>4 DEF ready
<1>8. CASE runs # <<>>
  <2> DEFINE ready == RefillCache(queue)
             end == Endpost(runs)
             merged == MergeSlices(SomeSlices([k \in DOMAIN runs |-> Slice(runs[k], end)]))
             rest == [k \in DOMAIN runs |-> WithoutSlice(runs[k], end)]
  <2>1. ready = [queue EXCEPT !.runs = rest, !.cache = merged]
    BY <1>2, <1>8 DEF AbsorbSlices
  <2>2. Len(runs) > 0
    BY <1>1, <1>8
  <2> HIDE DEF ready
  <2>3. /\ merged \in Ints /\ Sorted(merged) /\ merged # <<>> /\ rest \in Seq(RunSet)
        /\ \A y \in Ints : Same(All(Stock(y \o merged, rest)), All(Stock(y, runs)))
        /\ \A i \in DOMAIN merged : Above(merged[i], rest)
        /\ \A x : Above(x, runs) => Above(x, rest) /\ \A i \in DOMAIN merged : x <= merged[i]
        /\ \A k \in 1..Len(rest) : Sorted(Items(rest[k]))
    <3> HIDE DEF end
    <3>1. end = Endpost(runs)
      BY DEF end
    <3> QED
      BY <1>1, <1>6, <2>2, <3>1, AbsorbIs
  <2> HIDE DEF merged, rest
  <2>4. ready \in SorterSet /\ ready.cache = merged /\ ready.runs = rest /\ ready.flipped = queue.flipped
    BY <2>1, <2>3 DEF SorterSet
  <2>5. \A i \in DOMAIN z : Above(z[i], rest) /\ \A j \in DOMAIN merged : z[i] <= merged[j]
    BY <1>4, <1>5, <2>3
  <2>6. Sorted(z \o merged)
    BY <1>4, <2>3, <2>5, SortedConcat
  <2>7. \A i \in DOMAIN (z \o merged) : Above((z \o merged)[i], rest)
    <3>1. /\ Len(z) \in Nat /\ Len(merged) \in Nat /\ DOMAIN (z \o merged) = 1..(Len(z) + Len(merged))
          /\ DOMAIN z = 1..Len(z) /\ DOMAIN merged = 1..Len(merged)
          /\ \A i \in 1..Len(z) : (z \o merged)[i] = z[i]
          /\ \A i \in (Len(z) + 1)..(Len(z) + Len(merged)) : (z \o merged)[i] = merged[i - Len(z)]
      BY <2>3, ConcatIs
    <3> DEFINE u == z \o merged
    <3> HIDE DEF u
    <3> SUFFICES ASSUME NEW i \in DOMAIN u PROVE Above(u[i], rest)
      BY DEF u
    <3>2. CASE i <= Len(z)
      <4>1. i \in DOMAIN z /\ u[i] = z[i]
        BY <3>1, <3>2 DEF u
      <4> QED
        BY <2>5, <4>1
    <3>3. CASE ~(i <= Len(z))
      <4>1. i - Len(z) \in DOMAIN merged /\ u[i] = merged[i - Len(z)]
        BY <3>1, <3>3 DEF u
      <4> QED
        BY <2>3, <4>1
    <3> QED
      BY <3>2, <3>3
  <2>8. Ordered(z, ready)
    BY <2>3, <2>4, <2>6, <2>7 DEF Ordered
  <2>9. Same(All(Stock(z \o merged, rest)), All(Stock(z, runs)))
    BY <2>3
  <2>10. Same(All(Stock(z \o merged, rest)), All(Stock(z, queue.runs)))
    BY <1>1, <2>9, SameOn
  <2> QED
    BY <2>3, <2>4, <2>8, <2>10 DEF ready
<1> QED
  BY <1>7, <1>8

LEMMA ReadyIs ==
  ASSUME Parameters, NEW z \in Ints, NEW queue \in SorterSet, Ordered(z, queue)
  PROVE  LET ready == Ready(queue)
         IN  /\ ready \in SorterSet /\ Ordered(z, ready) /\ ready.flipped = queue.flipped
             /\ Same(All(Stock(z \o ready.cache, ready.runs)), All(Stock(z \o queue.cache, queue.runs)))
             /\ ready.cache = <<>> => ready.runs = <<>>
<1>1. CASE queue.cache = <<>>
  <2>1. z \o queue.cache = z /\ Ready(queue) = RefillCache(queue)
    BY <1>1 DEF Ready, Ints
  <2> QED
    BY <1>1, <2>1, RefillCacheIs
<1>2. CASE queue.cache # <<>>
  <2>1. Ready(queue) = queue
    BY <1>2 DEF Ready
  <2> QED
    BY <1>2, <2>1, SameSelf
<1> QED
  BY <1>1, <1>2

-----------------------------------------------------------------------------
(* What feeding, flushing and fetching move                                 *)

\* A function with one more argument, of which it is item.
OneMore(f, more, u, item) ==
    /\ u \notin DOMAIN f /\ DOMAIN more = DOMAIN f \cup {u}
    /\ \A x \in DOMAIN f : more[x] = f[x]
    /\ more[u] = item

LEMMA SameOneMore ==
  ASSUME NEW f, NEW g, NEW more, NEW bigger, NEW u, NEW v, NEW item, Same(f, g),
         OneMore(f, more, u, item), OneMore(g, bigger, v, item)
  PROVE  Same(more, bigger)
<1>0. /\ u \notin DOMAIN f /\ v \notin DOMAIN g /\ DOMAIN more = DOMAIN f \cup {u}
      /\ DOMAIN bigger = DOMAIN g \cup {v} /\ more[u] = bigger[v]
      /\ \A x \in DOMAIN f : more[x] = f[x]
      /\ \A y \in DOMAIN g : bigger[y] = g[y]
  BY DEF OneMore
<1>1. PICK b : Matches(b, f, g)
  BY DEF Same
<1> DEFINE d == [x \in DOMAIN more |-> IF x = u THEN v ELSE b[x]]
<1>2. /\ \A x \in DOMAIN f : x \in DOMAIN more /\ x # u /\ b[x] \in DOMAIN g /\ d[x] = b[x] /\ b[x] # v
      /\ d[u] = v /\ u \in DOMAIN more
  BY <1>0, <1>1 DEF Matches
<1>3. d \in [DOMAIN more -> DOMAIN bigger]
  BY <1>0, <1>2
<1> HIDE DEF d
<1>4. \A x, y \in DOMAIN more : d[x] = d[y] => x = y
  BY <1>0, <1>1, <1>2 DEF Matches
<1>5. \A z \in DOMAIN bigger : \E x \in DOMAIN more : d[x] = z
  <2> SUFFICES ASSUME NEW z \in DOMAIN bigger PROVE \E x \in DOMAIN more : d[x] = z
    OBVIOUS
  <2>1. CASE z = v
    BY <1>0, <1>2, <2>1
  <2>2. CASE z \in DOMAIN g
    <3>1. PICK x \in DOMAIN f : b[x] = z
      BY <1>0, <1>1, <2>2 DEF Matches
    <3> QED
      BY <1>0, <1>2, <3>1
  <2> QED
    BY <1>0, <2>1, <2>2
<1>6. \A x \in DOMAIN more : bigger[d[x]] = more[x]
  <2> SUFFICES ASSUME NEW x \in DOMAIN more PROVE bigger[d[x]] = more[x]
    OBVIOUS
  <2>1. CASE x = u
    BY <1>0, <1>2, <2>1
  <2>2. CASE x \in DOMAIN f
    <3>1. g[b[x]] = f[x]
      BY <1>0, <1>1, <2>2 DEF Matches
    <3> QED
      BY <1>0, <1>2, <2>2, <3>1
  <2> QED
    BY <1>0, <2>1, <2>2
<1>7. Matches(d, more, bigger)
  BY <1>3, <1>4, <1>5, <1>6 DEF Matches
<1> QED
  BY <1>7 DEF Same

\* What is fed is one more of what the sorter has.
LEMMA FedIs ==
  ASSUME NEW z \in Ints, NEW runs \in Seq(RunSet), NEW fed \in Ints, NEW x \in Int,
         Same(All(Stock(z, runs)), fed)
  PROVE  Same(All(Stock(Append(z, x), runs)), Append(fed, x))
<1> DEFINE N == Len(runs)
           F == Stock(z, runs)
           G == Stock(Append(z, x), runs)
           f == All(F)
           more == All(G)
           u == <<0, Len(z) + 1>>
           v == Len(fed) + 1
           bigger == Append(fed, x)
<1>1. /\ N \in Nat /\ DOMAIN F = 0..N /\ DOMAIN G = 0..N /\ F[0] = z /\ G[0] = Append(z, x)
      /\ \A k \in 1..N : G[k] = F[k]
  BY DEF Stock
<1>2. /\ Len(z) \in Nat /\ DOMAIN z = 1..Len(z) /\ DOMAIN Append(z, x) = 1..(Len(z) + 1)
      /\ \A i \in 1..Len(z) : Append(z, x)[i] = z[i]
      /\ Append(z, x)[Len(z) + 1] = x
  BY DEF Ints
<1>3. /\ Len(fed) \in Nat /\ DOMAIN fed = 1..Len(fed) /\ DOMAIN bigger = 1..(Len(fed) + 1)
      /\ \A i \in 1..Len(fed) : bigger[i] = fed[i]
      /\ bigger[Len(fed) + 1] = x
  BY DEF Ints
<1> HIDE DEF N, F, G
<1>4. v \notin DOMAIN fed /\ DOMAIN bigger = DOMAIN fed \cup {v} /\ bigger[v] = x
  BY <1>3
<1>5. /\ DOMAIN f = Places(F) /\ DOMAIN more = Places(G)
      /\ \A k \in DOMAIN F : \A i \in DOMAIN F[k] : <<k, i>> \in Places(F) /\ f[<<k, i>>] = F[k][i]
      /\ \A k \in DOMAIN G : \A i \in DOMAIN G[k] : <<k, i>> \in Places(G) /\ more[<<k, i>>] = G[k][i]
      /\ \A p \in Places(F) : p[1] \in DOMAIN F /\ p[2] \in DOMAIN F[p[1]] /\ p = <<p[1], p[2]>>
      /\ \A p \in Places(G) : p[1] \in DOMAIN G /\ p[2] \in DOMAIN G[p[1]] /\ p = <<p[1], p[2]>>
  BY PlacesAre
<1> HIDE DEF f, more
<1>6. u \notin DOMAIN f
  <2> SUFFICES ASSUME u \in DOMAIN f PROVE FALSE
    OBVIOUS
  <2>1. u[1] = 0 /\ u[2] = Len(z) + 1
    OBVIOUS
  <2>2. Len(z) + 1 \in DOMAIN F[0]
    BY <1>5, <2>1
  <2> QED
    BY <1>1, <1>2, <2>2
<1>7. u \in DOMAIN more /\ more[u] = x
  <2>1. 0 \in DOMAIN G /\ Len(z) + 1 \in DOMAIN G[0]
    BY <1>1, <1>2
  <2>2. u \in Places(G) /\ more[u] = G[0][Len(z) + 1]
    BY <1>5, <2>1
  <2> QED
    BY <1>1, <1>2, <1>5, <2>2
<1>8. \A p \in DOMAIN f : p \in DOMAIN more /\ more[p] = f[p]
  <2> SUFFICES ASSUME NEW p \in Places(F) PROVE p \in Places(G) /\ more[p] = f[p]
    BY <1>5
  <2> DEFINE k == p[1]
             i == p[2]
  <2>1. k \in DOMAIN F /\ i \in DOMAIN F[k] /\ p = <<k, i>>
    BY <1>5
  <2> HIDE DEF k, i
  <2>2. k \in DOMAIN G /\ i \in DOMAIN G[k] /\ G[k][i] = F[k][i]
    <3>1. CASE k = 0
      <4>1. i \in 1..Len(z) /\ i \in 1..(Len(z) + 1)
        BY <1>1, <1>2, <2>1, <3>1
      <4> QED
        BY <1>1, <1>2, <2>1, <3>1, <4>1
    <3>2. CASE k # 0
      <4>1. k \in 1..N
        BY <1>1, <2>1, <3>2
      <4> QED
        BY <1>1, <2>1, <4>1
    <3> QED
      BY <3>1, <3>2
  <2>3. <<k, i>> \in Places(G) /\ more[<<k, i>>] = G[k][i]
    BY <1>5, <2>2
  <2>4. f[<<k, i>>] = F[k][i]
    BY <1>5, <2>1
  <2> QED
    BY <2>1, <2>2, <2>3, <2>4
<1>9. \A p \in DOMAIN more : p \in DOMAIN f \/ p = u
  <2> SUFFICES ASSUME NEW p \in Places(G) PROVE p \in Places(F) \/ p = u
    BY <1>5
  <2> DEFINE k == p[1]
             i == p[2]
  <2>1. k \in DOMAIN G /\ i \in DOMAIN G[k] /\ p = <<k, i>>
    BY <1>5
  <2> HIDE DEF k, i
  <2>2. CASE k = 0 /\ i = Len(z) + 1
    BY <2>1, <2>2
  <2>3. CASE k = 0 /\ i # Len(z) + 1
    <3>1. i \in 1..Len(z)
      BY <1>1, <1>2, <2>1, <2>3
    <3>2. k \in DOMAIN F /\ i \in DOMAIN F[k]
      BY <1>1, <1>2, <2>3, <3>1
    <3> QED
      BY <1>5, <2>1, <3>2
  <2>4. CASE k # 0
    <3>1. k \in 1..N
      BY <1>1, <2>1, <2>4
    <3>2. k \in DOMAIN F /\ i \in DOMAIN F[k]
      BY <1>1, <2>1, <3>1
    <3> QED
      BY <1>5, <2>1, <3>2
  <2> QED
    BY <2>2, <2>3, <2>4
<1> HIDE DEF u, v, bigger
<1>10. DOMAIN more = DOMAIN f \cup {u}
  BY <1>7, <1>8, <1>9
<1>11. Same(f, fed)
  BY DEF f, F
<1>12. /\ \A p \in DOMAIN f : more[p] = f[p]
       /\ \A i \in DOMAIN fed : bigger[i] = fed[i]
       /\ more[u] = bigger[v]
  BY <1>3, <1>4, <1>7, <1>8
<1>13. Same(more, bigger)
  <2>1. OneMore(f, more, u, x)
    BY <1>6, <1>7, <1>10, <1>12 DEF OneMore
  <2>2. OneMore(fed, bigger, v, x)
    BY <1>4, <1>12 DEF OneMore
  <2> QED
    BY <1>11, <2>1, <2>2, SameOneMore
<1> QED
  BY <1>13 DEF more, G, bigger

\* What is fetched moves from the cache to what the client has.
LEMMA MovedIs ==
  ASSUME NEW z \in Ints, NEW cache \in Ints, cache # <<>>
  PROVE  /\ Head(cache) \in Int /\ Tail(cache) \in Ints /\ Append(z, Head(cache)) \in Ints
         /\ Append(z, Head(cache)) \o Tail(cache) = z \o cache
<1> DEFINE x == Head(cache)
           rest == Tail(cache)
           more == Append(z, x)
<1>1. Len(cache) \in Nat /\ Len(cache) > 0 /\ x = cache[1]
  BY DEF Ints
<1>2. x \in Int
  BY <1>1 DEF Ints
<1>3. rest \in Ints /\ Len(rest) = Len(cache) - 1 /\ \A i \in 1..Len(rest) : rest[i] = cache[i + 1]
  BY <1>1 DEF Ints
<1> HIDE DEF x, rest
<1>4. /\ more \in Ints /\ Len(more) = Len(z) + 1 /\ Len(z) \in Nat
      /\ \A i \in 1..Len(z) : more[i] = z[i]
      /\ more[Len(z) + 1] = x
  BY <1>2 DEF Ints
<1> HIDE DEF more
<1> DEFINE s == more \o rest
           t == z \o cache
<1>5. /\ s \in Ints /\ Len(s) = Len(more) + Len(rest)
      /\ \A i \in 1..Len(more) : s[i] = more[i]
      /\ \A i \in (Len(more) + 1)..(Len(more) + Len(rest)) : s[i] = rest[i - Len(more)]
  BY <1>3, <1>4, ConcatIs
<1>6. /\ t \in Ints /\ Len(t) = Len(z) + Len(cache)
      /\ \A i \in 1..Len(z) : t[i] = z[i]
      /\ \A i \in (Len(z) + 1)..(Len(z) + Len(cache)) : t[i] = cache[i - Len(z)]
  BY ConcatIs
<1> HIDE DEF s, t
<1>7. Len(s) = Len(t)
  BY <1>1, <1>3, <1>4, <1>5, <1>6
<1>8. ASSUME NEW i \in 1..Len(t) PROVE s[i] = t[i]
  <2>0. i \in Int /\ 1 <= i /\ i <= Len(z) + Len(cache)
    BY <1>1, <1>4, <1>6
  <2>1. CASE i <= Len(z)
    <3>1. i \in 1..Len(z) /\ i \in 1..Len(more)
      BY <1>4, <2>0, <2>1
    <3> QED
      BY <1>4, <1>5, <1>6, <3>1
  <2>2. CASE i = Len(z) + 1
    <3>1. i \in 1..Len(more) /\ i \in (Len(z) + 1)..(Len(z) + Len(cache)) /\ i - Len(z) = 1
      BY <1>1, <1>4, <2>0, <2>2
    <3>2. s[i] = x
      BY <1>4, <1>5, <2>2, <3>1
    <3>3. t[i] = cache[1]
      BY <1>6, <3>1
    <3> QED
      BY <1>1, <3>2, <3>3 DEF x
  <2>3. CASE i > Len(z) + 1
    <3> DEFINE j == i - Len(more)
    <3>1. /\ i \in (Len(more) + 1)..(Len(more) + Len(rest)) /\ j \in 1..Len(rest)
          /\ i \in (Len(z) + 1)..(Len(z) + Len(cache)) /\ i - Len(z) = j + 1
      BY <1>1, <1>3, <1>4, <2>0, <2>3
    <3> HIDE DEF j
    <3>2. s[i] = rest[j]
      BY <1>5, <3>1 DEF j
    <3>3. t[i] = cache[j + 1]
      BY <1>6, <3>1
    <3> QED
      BY <1>3, <3>1, <3>2, <3>3
  <2> QED
    BY <1>4, <2>0, <2>1, <2>2, <2>3
<1>9. s = t
  BY <1>5, <1>6, <1>7, <1>8, SameItems
<1> QED
  BY <1>2, <1>3, <1>4, <1>9 DEF x, rest, more, s, t

\* What was in the cache is a run of its own.
LEMMA FlushedIs ==
  ASSUME NEW queue \in SorterSet, \A k \in 1..Len(queue.runs) : Sorted(Items(queue.runs[k]))
  PROVE  LET flushed == Flushed(queue)
         IN  /\ flushed \in SorterSet /\ flushed.cache = <<>> /\ flushed.flipped = queue.flipped
             /\ \A k \in 1..Len(flushed.runs) : Sorted(Items(flushed.runs[k]))
             /\ Same(All(Stock(<<>>, flushed.runs)), All(Stock(queue.cache, queue.runs)))
<1>1. CASE queue.cache = <<>>
  <2>1. Flushed(queue) = queue
    BY <1>1 DEF Flushed
  <2> QED
    BY <1>1, <2>1, SameSelf
<1>2. CASE queue.cache # <<>>
  <2> DEFINE cache == queue.cache
             runs == queue.runs
             items == MergeSort(cache)
             run == [cache |-> <<>>, external |-> items]
             more == Append(runs, run)
             N == Len(runs)
  <2>1. cache \in Ints /\ runs \in Seq(RunSet)
    BY DEF SorterSet
  <2>2. items \in Ints /\ Sorted(items) /\ Same(items, cache)
    BY <2>1, MergeSortIs
  <2>3. Flushed(queue) = [queue EXCEPT !.cache = <<>>, !.runs = more]
    BY <1>2 DEF Flushed
  <2> HIDE DEF items
  <2>4. run \in RunSet /\ Items(run) = items
    BY <2>2 DEF RunSet, Items, Ints
  <2> HIDE DEF run, cache, runs
  <2>5. /\ more \in Seq(RunSet) /\ N \in Nat /\ Len(more) = N + 1
        /\ \A k \in 1..N : more[k] = runs[k] /\ k \in 1..(N + 1)
        /\ more[N + 1] = run
    BY <2>1, <2>4
  <2> HIDE DEF more
  <2>6. LET flushed == Flushed(queue)
        IN  flushed \in SorterSet /\ flushed.cache = <<>> /\ flushed.runs = more /\ flushed.flipped = queue.flipped
    <3>1. <<>> \in Ints
      BY DEF Ints
    <3> QED
      BY <2>3, <2>5, <3>1 DEF SorterSet
  <2>7. \A k \in 1..Len(more) : Sorted(Items(more[k]))
    <3> SUFFICES ASSUME NEW k \in 1..(N + 1) PROVE Sorted(Items(more[k]))
      BY <2>5
    <3>1. CASE k = N + 1
      BY <2>2, <2>4, <2>5, <3>1
    <3>2. CASE k # N + 1
      <4>1. k \in 1..N
        BY <2>5, <3>2
      <4> QED
        BY <2>5, <4>1 DEF runs, N
    <3> QED
      BY <3>1, <3>2
  <2> DEFINE F == Stock(cache, runs)
             G == Stock(items, runs)
             H == Stock(<<>>, more)
             map == [k \in 0..N |-> IF k = 0 THEN N + 1 ELSE k]
  <2>8. /\ DOMAIN F = 0..N /\ DOMAIN G = 0..N /\ F[0] = cache /\ G[0] = items
        /\ \A k \in 1..N : G[k] = F[k] /\ G[k] = Items(runs[k])
    BY <2>5 DEF Stock
  <2>9. DOMAIN H = 0..(N + 1) /\ H[0] = <<>> /\ \A k \in 1..(N + 1) : H[k] = Items(more[k])
    BY <2>5 DEF Stock
  <2>10. /\ map \in [0..N -> 0..(N + 1)] /\ map[0] = N + 1
         /\ \A k \in 1..N : map[k] = k
    BY <2>5
  <2>11. \A k \in 0..N : k = 0 \/ k \in 1..N
    BY <2>5
  <2>12. \A k \in 0..(N + 1) : k = 0 \/ k \in 1..N \/ k = N + 1
    BY <2>5
  <2>13. 0 \in 0..N /\ N + 1 \in 1..(N + 1) /\ \A k \in 1..N : k \in 0..N /\ k # N + 1
    BY <2>5
  <2> HIDE DEF F, G, H, map, N
  <2>14. Same(All(G), All(F))
    <3>1. \A k \in DOMAIN G : Same(G[k], F[k])
      BY <2>2, <2>8, <2>11, SameSelf
    <3> QED
      BY <2>8, <3>1, SameEach
  <2>15. Renumbers(map, G, H)
    <3>1. map \in [DOMAIN G -> DOMAIN H]
      BY <2>8, <2>9, <2>10
    <3>2. \A j, k \in DOMAIN G : map[j] = map[k] => j = k
      BY <2>8, <2>10, <2>11, <2>13
    <3>3. \A j \in DOMAIN G : H[map[j]] = G[j]
      BY <2>4, <2>5, <2>8, <2>9, <2>10, <2>11, <2>13
    <3>4. \A k \in DOMAIN H : (\E j \in DOMAIN G : map[j] = k) \/ DOMAIN H[k] = {}
      BY <2>8, <2>9, <2>10, <2>12, <2>13
    <3> QED
      BY <3>1, <3>2, <3>3, <3>4 DEF Renumbers
  <2>16. Same(All(G), All(H))
    BY <2>15, SameRenumbered
  <2>17. Same(All(H), All(F))
    BY <2>14, <2>16, SameBack, SameOn
  <2> QED
    BY <2>6, <2>7, <2>17 DEF H, F, cache, runs
<1> QED
  BY <1>1, <1>2

\* Where there are no runs, a refill finds none.
LEMMA NoRunsIs ==
  ASSUME Parameters, NEW queue \in SorterSet, queue.cache = <<>>, queue.runs = <<>>
  PROVE  Ready(queue).cache = <<>> /\ Ready(queue).runs = <<>>
<1> DEFINE runs == RefillRuns(queue.runs)
<1>1. Len(queue.runs) = 0 /\ queue.runs \in Seq(RunSet)
  BY DEF SorterSet
<1>2. runs \in Seq(RunSet) /\ \A k \in 1..Len(runs) : \E j \in 1..Len(queue.runs) : Items(runs[k]) = Items(queue.runs[j])
  BY <1>1, RefillRunsIs
<1>3. Ready(queue) = IF runs = <<>> THEN [queue EXCEPT !.runs = <<>>, !.cache = <<>>]
                     ELSE AbsorbSlices(queue, runs, Endpost(runs))
  BY DEF Ready, RefillCache
<1> HIDE DEF runs
<1>4. runs = <<>>
  <2>1. Len(runs) \in Nat
    BY <1>2
  <2>2. ~(1 \in 1..Len(runs))
    BY <1>1, <1>2
  <2>3. Len(runs) = 0
    BY <2>1, <2>2
  <2> QED
    BY <1>2, <2>3
<1> QED
  BY <1>3, <1>4 DEF SorterSet

-----------------------------------------------------------------------------
(* The calls                                                                *)

\* What its client has seen of it.
SeenSet == [fed : Ints, fetched : Ints, ended : BOOLEAN]

\* Fed is what the client has fetched, what is in the cache and what is in the
\* runs, which are in order each.  After the flip all of it is in order.
SortInv ==
    /\ self \in SorterSet /\ seen \in SeenSet
    /\ Same(All(Stock(seen.fetched \o self.cache, self.runs)), seen.fed)
    /\ \A k \in 1..Len(self.runs) : Sorted(Items(self.runs[k]))
    /\ self.flipped => Ordered(seen.fetched, self)
    /\ ~self.flipped => seen.fetched = <<>> /\ ~seen.ended
    /\ seen.ended => self.cache = <<>> /\ self.runs = <<>>

LEMMA SortInvInit ==
  ASSUME Init
  PROVE  SortInv
<1>1. /\ self.cache = <<>> /\ self.runs = <<>> /\ self.flipped = FALSE
      /\ seen.fed = <<>> /\ seen.fetched = <<>> /\ seen.ended = FALSE
  BY DEF Init
<1>2. <<>> \in Ints /\ <<>> \in Seq(RunSet) /\ Len(<<>>) = 0 /\ <<>> \o <<>> = <<>>
  BY DEF Ints
<1>3. self \in SorterSet /\ seen \in SeenSet
  <2>1. self = [cache |-> <<>>, runs |-> <<>>, flipped |-> FALSE]
    BY DEF Init
  <2>2. seen = [fed |-> <<>>, fetched |-> <<>>, ended |-> FALSE]
    BY DEF Init
  <2> QED
    BY <1>2, <2>1, <2>2 DEF SorterSet, SeenSet
<1> DEFINE F == Stock(<<>>, <<>>)
<1>4. DOMAIN F = {0} /\ F[0] = <<>>
  BY <1>2 DEF Stock
<1> HIDE DEF F
<1>5. Same(F[0], All(F))
  BY <1>4, SameAlone
<1>6. Same(All(F), <<>>)
  BY <1>4, <1>5, SameBack
<1>7. Same(All(Stock(seen.fetched \o self.cache, self.runs)), seen.fed)
  BY <1>1, <1>2, <1>6 DEF F
<1> QED
  BY <1>1, <1>2, <1>3, <1>7 DEF SortInv

LEMMA SortInvFeed ==
  ASSUME Parameters, SortInv, NEW x \in Elem, Feed(x)
  PROVE  SortInv'
<1> DEFINE fuller == [self EXCEPT !.cache = Append(@, x)]
           cache == self.cache
           runs == self.runs
<1>1. /\ ~self.flipped /\ seen.fetched = <<>> /\ ~seen.ended /\ x \in Int
      /\ self \in SorterSet /\ seen \in SeenSet
      /\ \A k \in 1..Len(runs) : Sorted(Items(runs[k]))
      /\ Same(All(Stock(seen.fetched \o cache, runs)), seen.fed)
  BY DEF SortInv, Feed, Parameters
<1>2. cache \in Ints /\ runs \in Seq(RunSet) /\ seen.fed \in Ints /\ <<>> \in Ints
  BY <1>1 DEF SorterSet, SeenSet, Ints
<1>3. <<>> \o cache = cache /\ <<>> \o <<>> = <<>> /\ Append(cache, x) \in Ints /\ Append(seen.fed, x) \in Ints
  BY <1>1, <1>2 DEF Ints
<1>4. <<>> \o Append(cache, x) = Append(cache, x)
  BY <1>3 DEF Ints
<1>5. Same(All(Stock(Append(cache, x), runs)), Append(seen.fed, x))
  BY <1>1, <1>2, <1>3, FedIs
<1>6. fuller \in SorterSet /\ fuller.cache = Append(cache, x) /\ fuller.runs = runs /\ ~fuller.flipped
  BY <1>1, <1>3 DEF SorterSet
<1>7. seen' = [seen EXCEPT !.fed = Append(@, x)]
  BY DEF Feed
<1>8. seen' \in SeenSet /\ seen'.fed = Append(seen.fed, x) /\ seen'.fetched = <<>> /\ ~seen'.ended
  BY <1>1, <1>3, <1>7 DEF SeenSet
<1>9. self' = Flushed(fuller) \/ self' = fuller
  BY DEF Feed
<1> HIDE DEF fuller, cache, runs
<1>10. /\ self' \in SorterSet /\ ~self'.flipped /\ \A k \in 1..Len(self'.runs) : Sorted(Items(self'.runs[k]))
       /\ Same(All(Stock(self'.cache, self'.runs)), All(Stock(fuller.cache, fuller.runs)))
  <2>1. CASE self' = fuller
    BY <1>1, <1>6, <2>1, SameSelf
  <2>2. CASE self' = Flushed(fuller)
    <3>1. \A k \in 1..Len(fuller.runs) : Sorted(Items(fuller.runs[k]))
      BY <1>1, <1>6
    <3> QED
      BY <1>6, <2>2, <3>1, FlushedIs
  <2> QED
    BY <1>9, <2>1, <2>2
<1>11. <<>> \o self'.cache = self'.cache
  BY <1>10 DEF SorterSet, Ints
<1>12. Same(All(Stock(self'.cache, self'.runs)), seen'.fed)
  BY <1>5, <1>6, <1>8, <1>10, SameOn
<1>13. Same(All(Stock(seen'.fetched \o self'.cache, self'.runs)), seen'.fed)
  BY <1>8, <1>11, <1>12
<1> QED
  BY <1>8, <1>10, <1>13 DEF SortInv

LEMMA SortInvFlip ==
  ASSUME Parameters, SortInv, Flip
  PROVE  SortInv'
<1> DEFINE flushed == Flushed(self)
<1>1. /\ ~self.flipped /\ seen.fetched = <<>> /\ ~seen.ended
      /\ self \in SorterSet /\ seen \in SeenSet
      /\ \A k \in 1..Len(self.runs) : Sorted(Items(self.runs[k]))
      /\ Same(All(Stock(seen.fetched \o self.cache, self.runs)), seen.fed)
  BY DEF SortInv, Flip
<1>2. <<>> \o self.cache = self.cache /\ <<>> \o <<>> = <<>> /\ <<>> \in Ints
  BY <1>1 DEF SorterSet, Ints
<1>3. /\ flushed \in SorterSet /\ flushed.cache = <<>>
      /\ \A k \in 1..Len(flushed.runs) : Sorted(Items(flushed.runs[k]))
      /\ Same(All(Stock(<<>>, flushed.runs)), All(Stock(self.cache, self.runs)))
  BY <1>1, FlushedIs
<1>4. self' = [flushed EXCEPT !.flipped = TRUE] /\ seen' = seen
  BY DEF Flip
<1> HIDE DEF flushed
<1>5. self' \in SorterSet /\ self'.cache = <<>> /\ self'.runs = flushed.runs /\ self'.flipped
  BY <1>3, <1>4 DEF SorterSet
<1>6. Same(All(Stock(<<>>, self'.runs)), seen'.fed)
  BY <1>1, <1>2, <1>3, <1>4, <1>5, SameOn
<1>7. Same(All(Stock(seen'.fetched \o self'.cache, self'.runs)), seen'.fed)
  BY <1>1, <1>2, <1>4, <1>5, <1>6
<1>8. \A k \in 1..Len(self'.runs) : Sorted(Items(self'.runs[k]))
  BY <1>3, <1>5
<1>9. Ordered(seen'.fetched, self')
  <2>1. seen'.fetched \o self'.cache = <<>>
    BY <1>1, <1>2, <1>4, <1>5
  <2>2. Sorted(<<>>) /\ DOMAIN <<>> = {}
    BY DEF Sorted
  <2> QED
    BY <1>8, <2>1, <2>2 DEF Ordered
<1> QED
  BY <1>1, <1>4, <1>5, <1>7, <1>8, <1>9 DEF SortInv

\* What Ready leaves after the flip.
LEMMA SortInvReady ==
  ASSUME Parameters, SortInv, self.flipped
  PROVE  LET ready == Ready(self)
         IN  /\ ready \in SorterSet /\ ready.flipped /\ Ordered(seen.fetched, ready)
             /\ Same(All(Stock(seen.fetched \o ready.cache, ready.runs)), seen.fed)
             /\ ready.cache = <<>> => ready.runs = <<>>
             /\ seen.ended => ready.cache = <<>>
<1>1. self \in SorterSet /\ seen \in SeenSet /\ Ordered(seen.fetched, self)
  BY DEF SortInv
<1>2. seen.fetched \in Ints
  BY <1>1 DEF SeenSet
<1> DEFINE ready == Ready(self)
<1>3. /\ ready \in SorterSet /\ Ordered(seen.fetched, ready) /\ ready.flipped = self.flipped
      /\ Same(All(Stock(seen.fetched \o ready.cache, ready.runs)), All(Stock(seen.fetched \o self.cache, self.runs)))
      /\ ready.cache = <<>> => ready.runs = <<>>
  BY <1>1, <1>2, ReadyIs
<1>4. seen.ended => ready.cache = <<>>
  BY <1>1, NoRunsIs DEF SortInv
<1> HIDE DEF ready
<1>5. Same(All(Stock(seen.fetched \o self.cache, self.runs)), seen.fed)
  BY DEF SortInv
<1>6. Same(All(Stock(seen.fetched \o ready.cache, ready.runs)), seen.fed)
  BY <1>3, <1>5, SameOn
<1> QED
  BY <1>3, <1>4, <1>6 DEF ready

LEMMA SortInvFetch ==
  ASSUME Parameters, SortInv, Fetch
  PROVE  SortInv'
<1> DEFINE ready == Ready(self)
<1>1. /\ ready \in SorterSet /\ ready.flipped /\ Ordered(seen.fetched, ready)
      /\ Same(All(Stock(seen.fetched \o ready.cache, ready.runs)), seen.fed)
      /\ ready.cache = <<>> => ready.runs = <<>>
  BY SortInvReady DEF Fetch
<1>2. seen \in SeenSet /\ ~seen.ended
  BY DEF SortInv, Fetch
<1>3. \/ /\ ready.cache = <<>> /\ self' = ready
         /\ seen' = [seen EXCEPT !.ended = TRUE]
      \/ /\ ready.cache # <<>> /\ self' = [ready EXCEPT !.cache = Tail(@)]
         /\ seen' = [seen EXCEPT !.fetched = Append(@, Head(ready.cache))]
  BY DEF Fetch
<1> HIDE DEF ready
<1>4. CASE ready.cache = <<>>
  <2>1. self' = ready /\ seen' = [seen EXCEPT !.ended = TRUE]
    BY <1>3, <1>4
  <2>2. seen' \in SeenSet /\ seen'.fetched = seen.fetched /\ seen'.fed = seen.fed
    BY <1>2, <2>1 DEF SeenSet
  <2>3. \A k \in 1..Len(ready.runs) : Sorted(Items(ready.runs[k]))
    BY <1>1 DEF Ordered
  <2> QED
    BY <1>1, <1>4, <2>1, <2>2, <2>3 DEF SortInv
<1>5. CASE ready.cache # <<>>
  <2>1. /\ self' = [ready EXCEPT !.cache = Tail(@)]
        /\ seen' = [seen EXCEPT !.fetched = Append(@, Head(ready.cache))]
    BY <1>3, <1>5
  <2>2. ready.cache \in Ints /\ seen.fetched \in Ints
    BY <1>1, <1>2 DEF SorterSet, SeenSet
  <2>3. /\ Head(ready.cache) \in Int /\ Tail(ready.cache) \in Ints
        /\ Append(seen.fetched, Head(ready.cache)) \in Ints
        /\ Append(seen.fetched, Head(ready.cache)) \o Tail(ready.cache) = seen.fetched \o ready.cache
    BY <1>5, <2>2, MovedIs
  <2>4. self' \in SorterSet /\ self'.flipped /\ self'.runs = ready.runs /\ self'.cache = Tail(ready.cache)
    BY <1>1, <2>1, <2>3 DEF SorterSet
  <2>5. /\ seen' \in SeenSet /\ ~seen'.ended /\ seen'.fed = seen.fed
        /\ seen'.fetched = Append(seen.fetched, Head(ready.cache))
    BY <1>2, <2>1, <2>3 DEF SeenSet
  <2>6. seen'.fetched \o self'.cache = seen.fetched \o ready.cache
    BY <2>3, <2>4, <2>5
  <2>7. Ordered(seen'.fetched, self')
    BY <1>1, <2>4, <2>6 DEF Ordered
  <2>8. Same(All(Stock(seen'.fetched \o self'.cache, self'.runs)), seen'.fed)
    BY <1>1, <2>4, <2>5, <2>6
  <2>9. \A k \in 1..Len(self'.runs) : Sorted(Items(self'.runs[k]))
    BY <2>7 DEF Ordered
  <2> QED
    BY <2>4, <2>5, <2>7, <2>8, <2>9 DEF SortInv
<1> QED
  BY <1>4, <1>5

LEMMA SortInvPeek ==
  ASSUME Parameters, SortInv, Peek
  PROVE  SortInv'
<1> DEFINE ready == Ready(self)
<1>1. /\ ready \in SorterSet /\ ready.flipped /\ Ordered(seen.fetched, ready)
      /\ Same(All(Stock(seen.fetched \o ready.cache, ready.runs)), seen.fed)
      /\ ready.cache = <<>> => ready.runs = <<>>
      /\ seen.ended => ready.cache = <<>>
  BY SortInvReady DEF Peek
<1>2. self' = ready /\ seen' = seen /\ seen \in SeenSet
  BY DEF Peek, SortInv
<1> HIDE DEF ready
<1>3. \A k \in 1..Len(ready.runs) : Sorted(Items(ready.runs[k]))
  BY <1>1 DEF Ordered
<1> QED
  BY <1>1, <1>2, <1>3 DEF SortInv

\* For all elements, bounds and thresholds: what the sorter keeps.
THEOREM SortIsKept ==
  ASSUME Parameters
  PROVE  Spec => []SortInv
<1>1. Init => SortInv
  BY SortInvInit
<1>2. SortInv /\ [Next]_vars => SortInv'
  <2> SUFFICES ASSUME SortInv, [Next]_vars PROVE SortInv'
    OBVIOUS
  <2>1. CASE \E x \in Elem : Feed(x)
    BY <2>1, SortInvFeed
  <2>2. CASE Flip
    BY <2>2, SortInvFlip
  <2>3. CASE Fetch
    BY <2>3, SortInvFetch
  <2>4. CASE Peek
    BY <2>4, SortInvPeek
  <2>5. CASE UNCHANGED vars
    BY <2>5 DEF vars, SortInv
  <2> QED
    BY <2>1, <2>2, <2>3, <2>4, <2>5 DEF Next
<1> QED
  BY <1>1, <1>2, PTL DEF Spec

-----------------------------------------------------------------------------
(* What is fetched                                                          *)

\* The rank of what was fetched: less than n items come before it, and with it
\* and its equals there are n.
LEMMA RankIs ==
  ASSUME Parameters, SortInv, NEW n \in DOMAIN seen.fetched
  PROVE  /\ Cardinality({i \in DOMAIN seen.fed : seen.fed[i] < seen.fetched[n]}) < n
         /\ Cardinality({i \in DOMAIN seen.fed : seen.fed[i] <= seen.fetched[n]}) >= n
<1> DEFINE z == seen.fetched
           fed == seen.fed
           cache == self.cache
           runs == self.runs
           w == z \o cache
           x == z[n]
           N == Len(runs)
           F == Stock(w, runs)
           f == All(F)
           below == {v \in Int : v < x}
           upto == {v \in Int : v <= x}
<1>1. /\ self \in SorterSet /\ seen \in SeenSet /\ Same(f, fed)
      /\ self.flipped => Ordered(z, self)
      /\ ~self.flipped => z = <<>>
  BY DEF SortInv
<1>2. z \in Ints /\ fed \in Ints /\ cache \in Ints /\ runs \in Seq(RunSet)
  BY <1>1 DEF SorterSet, SeenSet
<1>3. self.flipped
  BY <1>1
<1>0. n \in DOMAIN z
  OBVIOUS
<1> HIDE DEF z, fed, cache, runs
<1>4. /\ w \in Ints /\ Len(z) \in Nat /\ Len(cache) \in Nat /\ DOMAIN z = 1..Len(z)
      /\ DOMAIN w = 1..(Len(z) + Len(cache))
      /\ \A i \in 1..Len(z) : w[i] = z[i]
  BY <1>2, ConcatIs
<1>5. n \in Nat /\ n >= 1 /\ n <= Len(z) /\ n \in DOMAIN w /\ w[n] = x /\ x \in Int
  <2>1. n \in 1..Len(z)
    BY <1>4, <1>0
  <2>2. n \in Nat /\ n >= 1 /\ n <= Len(z) /\ n \in DOMAIN w
    BY <1>4, <2>1
  <2>3. x \in Int
    BY <1>0, <1>2 DEF Ints
  <2> QED
    BY <1>4, <2>1, <2>2, <2>3
<1>6. Sorted(w) /\ Above(x, runs)
  BY <1>1, <1>3, <1>5 DEF Ordered, cache, runs
<1>7. fed \in Ints /\ DOMAIN fed = 1..Len(fed) /\ Len(fed) \in Nat /\ \A i \in DOMAIN fed : fed[i] \in Int
  BY <1>2 DEF Ints
<1>8. /\ DOMAIN F = 0..N /\ N \in Nat /\ F[0] = w
      /\ \A k \in 1..N : F[k] = Items(runs[k])
  <2>1. N \in Nat
    BY <1>2
  <2> HIDE DEF N, w
  <2>2. F = [k \in 0..N |-> IF k = 0 THEN w ELSE Items(runs[k])]
    BY DEF Stock, N
  <2>3. 0 \in 0..N /\ \A k \in 1..N : k \in 0..N /\ k # 0
    BY <2>1
  <2> HIDE DEF F
  <2> QED
    BY <2>1, <2>2, <2>3
<1> HIDE DEF w, x, F, N
<1>9. /\ DOMAIN f = Places(F)
      /\ \A k \in DOMAIN F : \A i \in DOMAIN F[k] : <<k, i>> \in Places(F) /\ f[<<k, i>>] = F[k][i]
      /\ \A p \in Places(F) : p[1] \in DOMAIN F /\ p[2] \in DOMAIN F[p[1]] /\ p = <<p[1], p[2]>>
  BY PlacesAre
<1> HIDE DEF f
\* The places of the first items that were fetched.
<1> DEFINE firsts(h) == {0} \X (1..h)
<1>10. ASSUME NEW h \in Nat
       PROVE  IsFiniteSet(firsts(h)) /\ Cardinality(firsts(h)) = h
  <2>1. IsFiniteSet({0}) /\ Cardinality({0}) = 1
    BY FS_Singleton
  <2>2. IsFiniteSet(1..h) /\ Cardinality(1..h) = h
    BY <1>10, FS_Interval
  <2>3. IsFiniteSet(firsts(h)) /\ Cardinality(firsts(h)) = 1 * h
    BY <2>1, <2>2, FS_Product
  <2> QED
    BY <1>10, <2>3
<1> HIDE DEF firsts
<1>11. ASSUME NEW V
       PROVE  IsFiniteSet(PlacesOf(fed, V)) /\ IsFiniteSet(PlacesOf(f, V))
              /\ Cardinality(PlacesOf(f, V)) = Cardinality(PlacesOf(fed, V))
  <2>1. PlacesOf(fed, V) \in SUBSET (1..Len(fed))
    BY <1>7 DEF PlacesOf
  <2>2. IsFiniteSet(1..Len(fed))
    BY <1>7, FS_Interval
  <2>3. IsFiniteSet(PlacesOf(fed, V))
    BY <2>1, <2>2, FS_Subset
  <2>4. Same(fed, f)
    BY <1>1, SameBack
  <2> QED
    BY <2>3, <2>4, SameCount
<1>12. PlacesOf(f, below) \in SUBSET firsts(n - 1)
  <2> SUFFICES ASSUME NEW p \in PlacesOf(f, below) PROVE p \in firsts(n - 1)
    OBVIOUS
  <2> DEFINE k == p[1]
             i == p[2]
  <2>1. p \in Places(F) /\ f[p] < x /\ f[p] \in Int
    BY <1>9 DEF PlacesOf
  <2>2. k \in DOMAIN F /\ i \in DOMAIN F[k] /\ p = <<k, i>>
    BY <1>9, <2>1
  <2> HIDE DEF k, i
  <2>3. f[p] = F[k][i]
    BY <1>9, <2>2
  <2>4. k = 0
    <3> SUFFICES ASSUME k # 0 PROVE FALSE
      OBVIOUS
    <3>1. k \in 1..N
      BY <1>8, <2>2
    <3>2. i \in DOMAIN Items(runs[k]) /\ f[p] = Items(runs[k])[i]
      BY <1>8, <2>2, <2>3, <3>1
    <3>3. x <= Items(runs[k])[i]
      BY <1>6, <3>1, <3>2 DEF Above, N
    <3> QED
      BY <1>5, <2>1, <3>2, <3>3
  <2>5. i \in DOMAIN w /\ i \in Int /\ i >= 1 /\ f[p] = w[i]
    BY <1>4, <1>8, <2>2, <2>3, <2>4
  <2>6. ~(n <= i)
    <3> SUFFICES ASSUME n <= i PROVE FALSE
      OBVIOUS
    <3>1. w[n] <= w[i]
      BY <1>5, <1>6, <2>5 DEF Sorted
    <3> QED
      BY <1>5, <2>1, <2>5, <3>1
  <2>7. i \in 1..(n - 1)
    BY <1>5, <2>5, <2>6
  <2> QED
    BY <2>2, <2>4, <2>7 DEF firsts
<1>13. firsts(n) \in SUBSET PlacesOf(f, upto)
  <2> SUFFICES ASSUME NEW p \in firsts(n) PROVE p \in PlacesOf(f, upto)
    OBVIOUS
  <2>1. PICK i \in 1..n : p = <<0, i>>
    BY DEF firsts
  <2>2. i \in DOMAIN w /\ i <= n /\ i \in Int
    BY <1>4, <1>5
  <2>3. w[i] <= w[n]
    BY <1>5, <1>6, <2>2 DEF Sorted
  <2>4. w[i] \in Int
    BY <1>4, <2>2 DEF Ints
  <2>5. 0 \in DOMAIN F /\ i \in DOMAIN F[0]
    BY <1>8, <2>2
  <2>6. p \in DOMAIN f /\ f[p] = w[i]
    BY <1>8, <1>9, <2>1, <2>5
  <2> QED
    BY <1>5, <2>3, <2>4, <2>6 DEF PlacesOf
<1>14. {i \in DOMAIN fed : fed[i] < x} = PlacesOf(fed, below)
  BY <1>7 DEF PlacesOf
<1>15. {i \in DOMAIN fed : fed[i] <= x} = PlacesOf(fed, upto)
  BY <1>7 DEF PlacesOf
<1> HIDE DEF below, upto
<1>16. Cardinality(PlacesOf(fed, below)) <= n - 1
  <2>1. n - 1 \in Nat
    BY <1>5
  <2>2. IsFiniteSet(firsts(n - 1)) /\ Cardinality(firsts(n - 1)) = n - 1
    BY <1>10, <2>1
  <2>3. Cardinality(PlacesOf(f, below)) <= Cardinality(firsts(n - 1))
    BY <1>12, <2>2, FS_Subset
  <2> QED
    BY <1>11, <2>2, <2>3
<1>17. n <= Cardinality(PlacesOf(fed, upto))
  <2>1. IsFiniteSet(PlacesOf(f, upto))
    BY <1>11
  <2>2. Cardinality(firsts(n)) <= Cardinality(PlacesOf(f, upto))
    BY <1>13, <2>1, FS_Subset
  <2>3. Cardinality(firsts(n)) = n
    BY <1>5, <1>10
  <2> QED
    BY <1>11, <2>2, <2>3
<1>18. Cardinality(PlacesOf(fed, below)) \in Nat /\ Cardinality(PlacesOf(fed, upto)) \in Nat
  BY <1>11, FS_CardinalityType
<1>19. /\ Cardinality(PlacesOf(fed, below)) < n
       /\ Cardinality(PlacesOf(fed, upto)) >= n
  BY <1>5, <1>16, <1>17, <1>18
<1>20. /\ Cardinality({i \in DOMAIN fed : fed[i] < x}) < n
       /\ Cardinality({i \in DOMAIN fed : fed[i] <= x}) >= n
  BY <1>14, <1>15, <1>19
<1> QED
  BY <1>20 DEF x, z, fed

\* At the end nothing that was fed is missing.
LEMMA EndIs ==
  ASSUME SortInv, seen.ended
  PROVE  Len(seen.fetched) = Len(seen.fed)
<1> DEFINE z == seen.fetched
           fed == seen.fed
           F == Stock(z, <<>>)
<1>1. /\ z \in Ints /\ fed \in Ints /\ self.cache = <<>> /\ self.runs = <<>>
      /\ Same(All(Stock(z \o self.cache, self.runs)), fed)
  BY DEF SortInv, SeenSet
<1>2. z \o <<>> = z /\ Len(<<>>) = 0
  BY <1>1 DEF Ints
<1>3. Same(All(F), fed)
  BY <1>1, <1>2
<1>4. DOMAIN F = {0} /\ F[0] = z
  BY <1>2 DEF Stock
<1>5. /\ Len(z) \in Nat /\ Len(fed) \in Nat /\ DOMAIN z = 1..Len(z) /\ DOMAIN fed = 1..Len(fed)
      /\ \A i \in DOMAIN z : z[i] \in Int
      /\ \A i \in DOMAIN fed : fed[i] \in Int
  BY <1>1 DEF Ints
<1> HIDE DEF F, z, fed
<1>6. Same(z, fed)
  <2>1. Same(F[0], All(F))
    BY <1>4, SameAlone
  <2> QED
    BY <1>3, <1>4, <2>1, SameOn
<1>7. PlacesOf(z, Int) = 1..Len(z) /\ PlacesOf(fed, Int) = 1..Len(fed)
  BY <1>5 DEF PlacesOf
<1>8. IsFiniteSet(1..Len(z)) /\ Cardinality(1..Len(z)) = Len(z) /\ Cardinality(1..Len(fed)) = Len(fed)
  <2>1. \A n \in Nat : IsFiniteSet(1..n) /\ Cardinality(1..n) = n
    <3> SUFFICES ASSUME NEW n \in Nat PROVE IsFiniteSet(1..n) /\ Cardinality(1..n) = n
      OBVIOUS
    <3> QED
      BY FS_Interval
  <2> QED
    BY <1>5, <2>1
<1>9. Cardinality(PlacesOf(fed, Int)) = Cardinality(PlacesOf(z, Int))
  BY <1>6, <1>7, <1>8, SameCount
<1> QED
  BY <1>7, <1>8, <1>9 DEF z, fed

\* Whatever is fed, however much of it fits into memory and into a run's cache:
\* SortEx_fetch returns it in order, each item as often as it was fed, and ends
\* when all of it has been fetched.
THEOREM AlwaysFetchedInOrder ==
  ASSUME Parameters
  PROVE  Spec => []FetchedInOrder
<1>1. SortInv => FetchedInOrder
  BY RankIs, EndIs DEF FetchedInOrder
<1> QED
  BY <1>1, SortIsKept, PTL
=============================================================================
