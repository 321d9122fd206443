--------------------------- MODULE DeletionsProofs ---------------------------
(* Deletions.tla for any documents, terms and sessions: merging segments    *)
(* loses no document and no deletion.                                       *)
EXTENDS Deletions, FiniteSetTheorems, WellFoundedInduction, TLAPS

-----------------------------------------------------------------------------
(* Least and greatest numbers, and counting                                 *)

LEMMA Least ==
  ASSUME NEW S \in SUBSET Nat, S # {}
  PROVE  \E m \in S : \A n \in S : m <= n
<1>1. IsWellFoundedOn(OpToRel(<, Nat), Nat)
  BY NatLessThanWellFounded
<1>2. PICK m \in S : \A n \in S : <<n, m>> \notin OpToRel(<, Nat)
  BY <1>1, WFMin
<1>3. \A n \in S : ~ (n < m)
  BY <1>2 DEF OpToRel
<1> QED
  BY <1>3

LEMMA Greatest ==
  ASSUME NEW N \in Nat, NEW S \in SUBSET (0..N), S # {}
  PROVE  \E m \in S : \A n \in S : n <= m
<1> DEFINE T == {n \in Nat : N - n \in S}
<1>1. T # {}
  <2>1. PICK e \in S : TRUE
    OBVIOUS
  <2>2. N - e \in Nat /\ N - (N - e) = e
    BY <2>1
  <2> QED
    BY <2>1, <2>2
<1>2. PICK m \in T : \A n \in T : m <= n
  <2>1. T \in SUBSET Nat
    OBVIOUS
  <2> HIDE DEF T
  <2> QED
    BY <1>1, <2>1, Least
<1>3. ASSUME NEW e \in S PROVE e <= N - m
  <2>1. N - e \in T
    <3>1. N - e \in Nat /\ N - (N - e) = e
      BY <1>3
    <3> QED
      BY <1>3, <3>1
  <2>2. m <= N - e
    BY <1>2, <2>1
  <2>3. m \in Nat /\ e \in 0..N
    BY <1>3
  <2> QED
    BY <2>2, <2>3
<1>4. N - m \in S
  OBVIOUS
<1> QED
  BY <1>3, <1>4

\* How many of the first i documents are kept.
Kept(gone, i) == Cardinality((1..i) \ gone)

LEMMA KeptIs ==
  ASSUME NEW gone, NEW i \in Nat
  PROVE  /\ Kept(gone, i) \in 0..i
         /\ Kept(gone, i + 1) = Kept(gone, i) + (IF i + 1 \in gone THEN 0 ELSE 1)
<1>1. IsFiniteSet(1..i) /\ Cardinality(1..i) = i
  BY FS_Interval
<1>2. (1..i) \ gone \in SUBSET (1..i)
  OBVIOUS
<1>3. IsFiniteSet((1..i) \ gone) /\ Kept(gone, i) <= i
  BY <1>1, <1>2, FS_Subset DEF Kept
<1>4. Kept(gone, i) \in Nat
  BY <1>3, FS_CardinalityType DEF Kept
<1>5. CASE i + 1 \in gone
  <2>1. (1..(i + 1)) \ gone = (1..i) \ gone
    BY <1>5
  <2> QED
    BY <1>3, <1>4, <1>5, <2>1 DEF Kept
<1>6. CASE i + 1 \notin gone
  <2>1. (1..(i + 1)) \ gone = ((1..i) \ gone) \cup {i + 1} /\ i + 1 \notin (1..i) \ gone
    BY <1>6
  <2> QED
    BY <1>3, <1>4, <1>6, <2>1, FS_AddElement DEF Kept
<1> QED
  BY <1>3, <1>4, <1>5, <1>6

LEMMA KeptGrows ==
  ASSUME NEW gone, NEW i \in Nat, NEW j \in Nat, i < j, j \notin gone
  PROVE  Kept(gone, i) < Kept(gone, j)
<1>1. j - 1 \in Nat /\ (j - 1) + 1 = j
  OBVIOUS
<1>2. Kept(gone, j) = Kept(gone, j - 1) + 1 /\ Kept(gone, j - 1) \in Nat
  BY <1>1, KeptIs
<1>3. (1..i) \ gone \in SUBSET ((1..(j - 1)) \ gone)
  OBVIOUS
<1>4. IsFiniteSet((1..(j - 1)) \ gone)
  <2>1. IsFiniteSet(1..(j - 1)) /\ (1..(j - 1)) \ gone \in SUBSET (1..(j - 1))
    BY <1>1, FS_Interval
  <2> QED
    BY <2>1, FS_Subset
<1>5. Kept(gone, i) <= Kept(gone, j - 1)
  BY <1>3, <1>4, FS_Subset DEF Kept
<1>6. Kept(gone, i) \in Nat
  BY KeptIs
<1> QED
  BY <1>2, <1>5, <1>6

\* Every number up to how many are kept is that of one which is.
LEMMA KeptReaches ==
  ASSUME NEW gone, NEW max \in Nat, NEW k \in 1..Kept(gone, max)
  PROVE  \E i \in (1..max) \ gone : Kept(gone, i) = k
<1> DEFINE S == {i \in Nat : Kept(gone, i) >= k}
<1>1. PICK i \in S : \A j \in S : i <= j
  <2>1. max \in S
    BY KeptIs
  <2>2. S \in SUBSET Nat /\ S # {}
    BY <2>1
  <2> HIDE DEF S
  <2> QED
    BY <2>2, Least
<1>2. i \in Nat /\ Kept(gone, i) >= k /\ i <= max
  <2>1. max \in S
    BY KeptIs
  <2> QED
    BY <1>1, <2>1
<1>3. k \in Nat /\ k >= 1
  BY KeptIs
<1>4. Kept(gone, 0) = 0
  <2>1. Kept(gone, 0) \in 0..0
    BY KeptIs
  <2> QED
    BY <2>1
<1>5. i # 0
  BY <1>2, <1>3, <1>4
<1>6. i - 1 \in Nat /\ (i - 1) + 1 = i
  BY <1>2, <1>5
<1>7. ~ (Kept(gone, i - 1) >= k)
  <2>1. ~ (i <= i - 1)
    BY <1>2
  <2> QED
    BY <1>1, <1>6, <2>1
<1>8. /\ Kept(gone, i - 1) \in Nat
      /\ Kept(gone, i) = Kept(gone, i - 1) + (IF i \in gone THEN 0 ELSE 1)
  BY <1>6, KeptIs
<1>9. i \notin gone /\ Kept(gone, i) = k
  BY <1>2, <1>3, <1>7, <1>8
<1> QED
  BY <1>2, <1>5, <1>9

-----------------------------------------------------------------------------
(* DelWriter_generate_doc_map                                               *)

\* Documents that are kept get the numbers after the offset, each its own.
Renumbers(map, gone, max, offset) ==
    /\ DOMAIN map = 1..max
    /\ \A i \in 1..max : i \in gone => map[i] = 0
    /\ \A i \in (1..max) \ gone : map[i] \in (offset + 1)..(offset + Kept(gone, max))
    /\ \A i, j \in (1..max) \ gone : map[i] = map[j] => i = j
    /\ \A n \in (offset + 1)..(offset + Kept(gone, max)) :
          \E i \in (1..max) \ gone : map[i] = n

LEMMA DocMaps ==
  ASSUME NEW gone, NEW max \in Nat, NEW offset \in Nat
  PROVE  Renumbers(DocMap(gone, max, offset), gone, max, offset)
<1> DEFINE map == DocMap(gone, max, offset)
<1>1. /\ DOMAIN map = 1..max
      /\ \A i \in 1..max : map[i] = IF i \in gone THEN 0 ELSE offset + Kept(gone, i)
  BY DEF DocMap, Kept
<1> HIDE DEF map
<1>2. \A i \in 1..max : i \in gone => map[i] = 0
  BY <1>1
<1>3. \A i \in (1..max) \ gone : map[i] = offset + Kept(gone, i) /\ Kept(gone, i) \in Nat
  BY <1>1, KeptIs
<1>4. ASSUME NEW i \in (1..max) \ gone
      PROVE  map[i] \in (offset + 1)..(offset + Kept(gone, max))
  <2>1. Kept(gone, i) >= 1
    <3>1. Kept(gone, 0) \in 0..0 /\ Kept(gone, 0) < Kept(gone, i)
      BY KeptIs, KeptGrows
    <3> QED
      BY <1>3, <3>1
  <2>2. Kept(gone, i) <= Kept(gone, max)
    <3>1. (1..i) \ gone \in SUBSET ((1..max) \ gone)
      OBVIOUS
    <3>2. IsFiniteSet(1..max) /\ (1..max) \ gone \in SUBSET (1..max)
      BY FS_Interval
    <3>3. IsFiniteSet((1..max) \ gone)
      BY <3>2, FS_Subset
    <3> QED
      BY <3>1, <3>3, FS_Subset DEF Kept
  <2>3. Kept(gone, max) \in Nat /\ Kept(gone, i) \in Nat
    BY <1>3, KeptIs
  <2> QED
    BY <1>3, <2>1, <2>2, <2>3
<1>5. ASSUME NEW i \in (1..max) \ gone, NEW j \in (1..max) \ gone, map[i] = map[j]
      PROVE  i = j
  <2>1. Kept(gone, i) = Kept(gone, j) /\ Kept(gone, i) \in Nat
    BY <1>3, <1>5
  <2>2. ~ (i < j) /\ ~ (j < i)
    BY <2>1, KeptGrows
  <2> QED
    BY <2>2
<1>6. ASSUME NEW n \in (offset + 1)..(offset + Kept(gone, max))
      PROVE  \E i \in (1..max) \ gone : map[i] = n
  <2>1. Kept(gone, max) \in Nat
    BY KeptIs
  <2>2. n - offset \in 1..Kept(gone, max)
    BY <2>1
  <2>3. PICK i \in (1..max) \ gone : Kept(gone, i) = n - offset
    BY <2>2, KeptReaches
  <2>4. map[i] = offset + (n - offset)
    BY <1>3, <2>3
  <2> QED
    BY <2>4
<1>7. Renumbers(map, gone, max, offset)
  BY <1>1, <1>2, <1>4, <1>5, <1>6 DEF Renumbers
<1> QED
  BY <1>7 DEF map


\* f has the documents of old, and of source those that are left.
Joins(f, n, old, source, left) ==
    /\ f \in [1..n -> Doc]
    /\ \A d : (\E j \in 1..n : f[j] = d) <=>
                 \/ \E j \in DOMAIN old : old[j] = d
                 \/ \E i \in left : source[i] = d
    /\ /\ IsInjective(old) /\ IsInjective(source)
       /\ \A j \in DOMAIN old, i \in left : old[j] # source[i]
       => IsInjective(f)

LEMMA Absorbs ==
  ASSUME NEW count \in Nat, NEW target \in [1..count -> Doc],
         NEW max \in Nat, NEW source \in [1..max -> Doc], NEW gone
  PROVE  Joins(Absorb(target, source, DocMap(gone, max, count)), count + Kept(gone, max),
               target, source, (1..max) \ gone)
<1> DEFINE map == DocMap(gone, max, count)
           moved == {map[i] : i \in DOMAIN map} \ {0}
           k == Kept(gone, max)
           all == Absorb(target, source, map)
           kept == (1..max) \ gone
           Of(j) == CHOOSE i \in DOMAIN map : map[i] = j
<1>0. Renumbers(map, gone, max, count)
  BY DocMaps
<1>3. all = [j \in 1..count \cup moved |-> IF j \in 1..count THEN target[j] ELSE source[Of(j)]]
  <2>1. DOMAIN target = 1..count
    OBVIOUS
  <2>2. all = [j \in DOMAIN target \cup moved |->
                 IF j \in DOMAIN target THEN target[j] ELSE source[Of(j)]]
    BY Zenon DEF Absorb
  <2> HIDE DEF moved, Of
  <2> QED
    BY <2>1, <2>2
<1> HIDE DEF map, all
<1>1. /\ DOMAIN map = 1..max
      /\ \A i \in 1..max : i \in gone => map[i] = 0
      /\ \A i \in kept : map[i] \in (count + 1)..(count + k)
      /\ \A i, j \in kept : map[i] = map[j] => i = j
      /\ \A n \in (count + 1)..(count + k) : \E i \in kept : map[i] = n
  BY <1>0 DEF Renumbers
<1>2. k \in Nat
  BY KeptIs
<1> HIDE DEF k
<1>4. moved = (count + 1)..(count + k)
  <2>1. ASSUME NEW n \in moved PROVE n \in (count + 1)..(count + k)
    <3>1. PICK i \in 1..max : map[i] = n /\ n # 0
      BY <1>1
    <3> QED
      BY <1>1, <3>1
  <2>2. ASSUME NEW n \in (count + 1)..(count + k) PROVE n \in moved
    <3>1. PICK i \in kept : map[i] = n
      BY <1>1
    <3>2. n # 0
      BY <1>2
    <3> QED
      BY <1>1, <3>1, <3>2
  <2> QED
    BY <2>1, <2>2
<1>5. ASSUME NEW i \in kept PROVE Of(map[i]) = i
  <2>1. \E e \in DOMAIN map : map[e] = map[i]
    BY <1>1
  <2>2. Of(map[i]) \in 1..max /\ map[Of(map[i])] = map[i]
    BY <1>1, <2>1
  <2>3. map[i] # 0
    BY <1>1, <1>2
  <2> QED
    BY <1>1, <2>2, <2>3
<1>6. ASSUME NEW j \in moved PROVE Of(j) \in kept /\ map[Of(j)] = j
  BY <1>1, <1>4, <1>5
<1>7. 1..count \cup moved = 1..(count + k)
  BY <1>2, <1>4
<1> HIDE DEF Of, moved
<1>8. DOMAIN all = 1..(count + k)
  BY <1>3, <1>7
<1>9. \A j \in 1..count : all[j] = target[j]
  BY <1>3
<1>10. \A j \in moved : all[j] = source[Of(j)] /\ j \notin 1..count
  BY <1>2, <1>3, <1>4
<1>11. all \in [1..(count + k) -> Doc]
  <2>1. \A j \in 1..count : target[j] \in Doc
    OBVIOUS
  <2>2. \A j \in moved : source[Of(j)] \in Doc
    BY <1>6
  <2> QED
    BY <1>3, <1>7, <2>1, <2>2
<1>12. ASSUME NEW d
       PROVE  (\E j \in DOMAIN all : all[j] = d) <=>
                  \/ \E j \in 1..count : target[j] = d
                  \/ \E i \in kept : source[i] = d
  <2>1. ASSUME NEW j \in DOMAIN all, all[j] = d
        PROVE  (\E h \in 1..count : target[h] = d) \/ \E i \in kept : source[i] = d
    BY <1>6, <1>7, <1>8, <1>9, <1>10, <2>1
  <2>2. ASSUME NEW i \in kept PROVE \E j \in DOMAIN all : all[j] = source[i]
    <3>1. map[i] \in moved
      BY <1>1, <1>4
    <3> QED
      BY <1>5, <1>7, <1>8, <1>10, <3>1
  <2>3. ASSUME NEW h \in 1..count PROVE \E j \in DOMAIN all : all[j] = target[h]
    BY <1>7, <1>8, <1>9
  <2> QED
    BY <2>1, <2>2, <2>3
<1>13. ASSUME IsInjective(target), IsInjective(source),
              \A j \in 1..count, i \in kept : target[j] # source[i]
       PROVE  IsInjective(all)
  <2> SUFFICES ASSUME NEW i \in DOMAIN all, NEW j \in DOMAIN all, all[i] = all[j]
               PROVE  i = j
    BY DEF IsInjective
  <2>1. CASE i \in 1..count /\ j \in 1..count
    BY <1>9, <1>13, <2>1 DEF IsInjective
  <2>2. CASE i \in moved /\ j \in moved
    <3>1. Of(i) = Of(j)
      BY <1>6, <1>10, <1>13, <2>2 DEF IsInjective
    <3> QED
      BY <1>6, <2>2, <3>1
  <2>3. CASE i \in 1..count /\ j \in moved
    BY <1>6, <1>9, <1>10, <1>13, <2>3
  <2>4. CASE i \in moved /\ j \in 1..count
    BY <1>6, <1>9, <1>10, <1>13, <2>4
  <2> QED
    BY <1>7, <1>8, <2>1, <2>2, <2>3, <2>4
<1>14. Joins(all, count + k, target, source, kept)
  <2>1. DOMAIN target = 1..count
    OBVIOUS
  <2> QED
    BY <1>8, <1>11, <1>12, <1>13, <2>1 DEF Joins
<1> QED
  BY <1>14 DEF k, all, map

-----------------------------------------------------------------------------
(* Numbers of documents and of segments                                     *)

\* No more documents have numbers than there are.
LEMMA Few ==
  ASSUME NEW n \in Nat, NEW f \in [1..n -> Doc], IsInjective(f)
  PROVE  n <= DocMax
<1>1. IsFiniteSet(Doc)
  BY DeletionsAssumption
<1>2. f \in Injection(1..n, Doc)
  BY DEF Injection
<1>3. Cardinality(1..n) <= Cardinality(Doc)
  BY <1>1, <1>2, FS_Injection
<1>4. Cardinality(1..n) = n
  BY FS_Interval
<1> QED
  BY <1>3, <1>4 DEF DocMax

LEMMA DocMaxIs == DocMax \in Nat
BY DeletionsAssumption, FS_CardinalityType DEF DocMax

LEMMA NewSegIs ==
  ASSUME NEW n \in 1..MaxSession, segs \subseteq 1..(n - 1)
  PROVE  NewSeg \in 1..n /\ \A m \in segs : m < NewSeg
<1> DEFINE Fits(x) == (\A m \in segs : m < x) /\ (x = 1 \/ x - 1 \in segs)
<1>0. MaxSession \in Nat
  BY DeletionsAssumption
<1>1. \E x \in 1..(MaxSession + 1) : Fits(x)
  <2>1. CASE segs = {}
    <3>1. Fits(1) /\ 1 \in 1..(MaxSession + 1)
      BY <1>0, <2>1
    <3> QED
      BY <3>1
  <2>2. CASE segs # {}
    <3>1. segs \in SUBSET (0..(n - 1)) /\ n - 1 \in Nat
      OBVIOUS
    <3>2. PICK m \in segs : \A l \in segs : l <= m
      BY <2>2, <3>1, Greatest
    <3>3. m \in 1..(n - 1) /\ \A l \in segs : l \in Int
      BY <3>2
    <3>4. Fits(m + 1) /\ m + 1 \in 1..(MaxSession + 1)
      BY <1>0, <3>2, <3>3
    <3> QED
      BY <3>4
  <2> QED
    BY <2>1, <2>2
<1>2. NewSeg \in 1..(MaxSession + 1) /\ Fits(NewSeg)
  <2>1. NewSeg = CHOOSE x \in 1..(MaxSession + 1) : Fits(x)
    BY DEF NewSeg
  <2> HIDE DEF Fits
  <2> QED
    BY <1>1, <2>1
<1>3. NewSeg = 1 \/ NewSeg - 1 \in 1..(n - 1)
  BY <1>2
<1> QED
  BY <1>0, <1>2, <1>3

\* What FileFor finds: nothing, or the file of the newest segment that has one.
LEMMA Newest ==
  ASSUME NEW N \in Nat, segs \subseteq 1..N, NEW s
  PROVE  \/ FileFor(s) = NoFile /\ \A n \in segs : dels[n][s] = NoFile
         \/ \E h \in segs : /\ FileFor(s) = dels[h][s] /\ dels[h][s] # NoFile
                            /\ \A n \in segs : dels[n][s] # NoFile => n <= h
<1> DEFINE holders == {n \in segs : dels[n][s] # NoFile}
           h == CHOOSE n \in holders : \A m \in holders : m <= n
<1>1. FileFor(s) = IF holders = {} THEN NoFile ELSE dels[h][s]
  BY DEF FileFor
<1>2. CASE holders = {}
  BY <1>1, <1>2
<1>3. CASE holders # {}
  <2>1. \E n \in holders : \A m \in holders : m <= n
    <3>1. holders \subseteq segs /\ 1..N \subseteq 0..N
      OBVIOUS
    <3> HIDE DEF holders
    <3> QED
      BY <1>3, <3>1, Greatest
  <2>2. h \in holders /\ \A m \in holders : m <= h
    <3> HIDE DEF holders
    <3> QED
      BY <2>1
  <2> QED
    BY <1>1, <1>3, <2>2
<1> QED
  BY <1>2, <1>3

-----------------------------------------------------------------------------
(* Where documents are                                                      *)

\* Documents numbered without gaps.
Lists == UNION {[1..n -> Doc] : n \in Nat}

\* What is on disk: every document is there once, and no deletions file says
\* anything of a document that is not, or of a segment not older.
Stored ==
    /\ session \in 0..MaxSession /\ segs \subseteq 1..session /\ added \subseteq Doc
    /\ docs \in [Seg -> Lists] /\ dels \in [Seg -> [Seg -> DelFile]]
    /\ \A s \in Seg \ segs : docs[s] = NoDocs /\ dels[s] = Unwritten
    /\ \A s, t \in segs : \A i \in DOMAIN docs[s], j \in DOMAIN docs[t] :
          docs[s][i] = docs[t][j] => s = t /\ i = j
    /\ \A s \in segs : \A i \in DOMAIN docs[s] : docs[s][i] \in added
    /\ \A n, s \in segs : dels[n][s].bits \subseteq DOMAIN docs[s]
    /\ \A n \in segs, s \in Seg : dels[n][s] # NoFile => s < n

\* The members of an Indexer.
IsJob(j) ==
    j = [pc |-> j.pc, bits |-> j.bits, updated |-> j.updated, new |-> j.new,
         count |-> j.count, todo |-> j.todo, merged |-> j.merged, optimized |-> j.optimized]

Members ==
    /\ IsJob(job)
    /\ job.pc \in {"closed", "open", "optimizing", "merging"} /\ job.optimized \in BOOLEAN
    /\ job.bits \in [Seg -> SUBSET DocId] /\ job.updated \subseteq segs
    /\ job.count \in Nat /\ job.new \in [1..job.count -> Doc]
    /\ job.merged \subseteq segs /\ job.todo \subseteq segs \ job.merged

\* The segment being written has documents of its own, and what is left of the
\* segments that have been merged.
Working ==
    /\ Members
    /\ job.pc = "closed" => job = Closed
    /\ job.pc # "closed" => session # 0 /\ segs \subseteq 1..(session - 1)
    /\ \A s \in segs : job.bits[s] \subseteq DOMAIN docs[s]
    /\ IsInjective(job.new)
    /\ \A i \in DOMAIN job.new : job.new[i] \in added
    /\ \A s \in segs \ job.merged : \A i \in DOMAIN docs[s], j \in DOMAIN job.new :
          docs[s][i] # job.new[j]
    /\ job.pc = "open" => job.todo = {} /\ (job.optimized \/ job.merged = {})
    /\ job.pc = "optimizing" => ~job.optimized /\ segs \subseteq job.merged \cup job.todo
    /\ job.optimized => segs = job.merged /\ job.todo = {}

LEMMA ListIs ==
  ASSUME NEW f
  PROVE  f \in Lists <=> \E n \in Nat : f \in [1..n -> Doc]
BY DEF Lists

LEMMA SizeIs ==
  ASSUME NEW f \in Lists
  PROVE  Cardinality(DOMAIN f) \in Nat /\ f \in [1..Cardinality(DOMAIN f) -> Doc]
<1>1. PICK n \in Nat : f \in [1..n -> Doc]
  BY ListIs
<1>2. DOMAIN f = 1..n /\ Cardinality(1..n) = n
  BY <1>1, FS_Interval
<1> QED
  BY <1>1, <1>2

LEMMA SegIs ==
  ASSUME Stored
  PROVE  /\ MaxSession \in Nat /\ segs \subseteq Seg
         /\ \A s \in segs : docs[s] \in Lists
         /\ \A n, s \in Seg : dels[n][s] \in DelFile
<1>1. MaxSession \in Nat
  BY DeletionsAssumption
<1>2. segs \subseteq Seg
  BY <1>1 DEF Stored, Seg
<1> QED
  BY <1>1, <1>2 DEF Stored

\* A document's number is at most how many documents there are.
LEMMA NumberIs ==
  ASSUME Stored, NEW s \in segs
  PROVE  DOMAIN docs[s] \subseteq DocId
<1> DEFINE f == docs[s]
           n == Cardinality(DOMAIN f)
<1>1. f \in Lists
  BY SegIs
<1>2. n \in Nat /\ f \in [1..n -> Doc]
  BY <1>1, SizeIs
<1>3. IsInjective(f)
  BY DEF Stored, IsInjective
<1> HIDE DEF f
<1>4. n <= DocMax
  BY <1>2, <1>3, Few
<1> HIDE DEF n
<1>5. DOMAIN f = 1..n
  BY <1>2
<1>6. DOMAIN f \subseteq DocId
  BY <1>2, <1>4, <1>5, DocMaxIs DEF DocId
<1> QED
  BY <1>6 DEF f

LEMMA FileIs ==
  ASSUME Stored, NEW s \in segs
  PROVE  FileFor(s) \in DelFile /\ Deleted(s) \subseteq DOMAIN docs[s]
<1>1. s \in Seg /\ segs \subseteq Seg
  BY SegIs
<1>2. segs \subseteq 1..session /\ session \in Nat
  BY DeletionsAssumption DEF Stored
<1>3. CASE FileFor(s) = NoFile
  <2>1. NoFile \in DelFile /\ NoFile.bits = {}
    BY DocMaxIs DEF NoFile, DelFile
  <2> QED
    BY <1>3, <2>1 DEF Deleted
<1>4. CASE \E h \in segs : FileFor(s) = dels[h][s]
  BY <1>1, <1>4, SegIs DEF Stored, Deleted
<1> QED
  BY <1>2, <1>3, <1>4, Newest

LEMMA Types == Stored /\ Working => TypeOK
<1> SUFFICES ASSUME Stored, Working PROVE TypeOK
  OBVIOUS
<1>1. Members
  BY DEF Working
<1>2. docs \in [Seg -> Numbered]
  <2>1. ASSUME NEW n \in Nat, NEW f \in [1..n -> Doc], IsInjective(f)
        PROVE  f \in Numbered
    <3>1. n \in 0..DocMax
      BY <2>1, Few, DocMaxIs
    <3> QED
      BY <2>1, <3>1 DEF Numbered
  <2>2. ASSUME NEW s \in segs PROVE docs[s] \in Numbered
    <3> DEFINE f == docs[s]
               n == Cardinality(DOMAIN f)
    <3>1. n \in Nat /\ f \in [1..n -> Doc]
      BY SegIs, SizeIs
    <3>2. IsInjective(f)
      BY DEF Stored, IsInjective
    <3> HIDE DEF f, n
    <3>3. f \in Numbered
      BY <2>1, <3>1, <3>2
    <3> QED
      BY <3>3 DEF f
  <2>3. NoDocs \in Numbered
    <3>1. NoDocs \in [1..0 -> Doc] /\ IsInjective(NoDocs) /\ 0 \in Nat
      BY DEF NoDocs, IsInjective
    <3> HIDE DEF NoDocs
    <3> QED
      BY <2>1, <3>1
  <2>4. \A s \in Seg : docs[s] \in Numbered
    BY <2>2, <2>3 DEF Stored
  <2> QED
    BY <2>4 DEF Stored
<1>3. job.count \in 0..DocMax /\ job.new \in Numbered
  <2>1. job.count \in Nat /\ job.new \in [1..job.count -> Doc] /\ IsInjective(job.new)
    BY <1>1 DEF Members, Working
  <2>2. job.count \in 0..DocMax
    BY <2>1, Few, DocMaxIs
  <2> QED
    BY <2>1, <2>2 DEF Numbered
<1>4. job \in [pc : {"closed", "open", "optimizing", "merging"},
                bits : [Seg -> SUBSET DocId], updated : SUBSET Seg,
                new : Numbered, count : 0..DocMax, todo : SUBSET Seg,
                merged : SUBSET Seg, optimized : BOOLEAN]
  <2> DEFINE B == [Seg -> SUBSET DocId]
             S == SUBSET Seg
             K == 0..DocMax
             P == {"closed", "open", "optimizing", "merging"}
  <2>1. /\ job.pc \in P /\ job.bits \in B /\ job.updated \in S /\ job.new \in Numbered
        /\ job.count \in K /\ job.todo \in S /\ job.merged \in S /\ job.optimized \in BOOLEAN
    BY <1>1, <1>3, SegIs DEF Members
  <2>2. job = [pc |-> job.pc, bits |-> job.bits, updated |-> job.updated, new |-> job.new,
               count |-> job.count, todo |-> job.todo, merged |-> job.merged,
               optimized |-> job.optimized]
    BY <1>1 DEF Members, IsJob
  <2> HIDE DEF B, S, K, P
  <2>3. job \in [pc : P, bits : B, updated : S, new : Numbered, count : K, todo : S,
                 merged : S, optimized : BOOLEAN]
    BY <2>1, <2>2
  <2> QED
    BY <2>3 DEF B, S, K, P
<1> QED
  BY <1>2, <1>4, SegIs DEF Stored, TypeOK

-----------------------------------------------------------------------------
(* Every step keeps them                                                    *)

LEMMA StoredSame ==
  ASSUME Stored, UNCHANGED <<segs, docs, dels>>, session' \in session..MaxSession,
         added \subseteq added', added' \subseteq Doc
  PROVE  Stored'
<1>1. session \in Nat /\ session' \in 0..MaxSession /\ 1..session \subseteq 1..session'
  BY DeletionsAssumption DEF Stored
<1>2. segs' \subseteq 1..session'
  BY <1>1 DEF Stored
<1>3. \A s \in segs : \A i \in DOMAIN docs[s] : docs[s][i] \in added'
  BY DEF Stored
<1> QED
  BY <1>1, <1>2, <1>3 DEF Stored, Seg, Lists, DelFile, DocId, DocMax, Unwritten

LEMMA ClosedIs ==
  /\ IsJob(Closed)
  /\ Closed.pc = "closed" /\ Closed.updated = {} /\ Closed.count = 0 /\ Closed.todo = {}
  /\ Closed.merged = {} /\ Closed.optimized = FALSE
  /\ Closed.bits = [s \in Seg |-> {}] /\ Closed.bits \in [Seg -> SUBSET DocId]
  /\ Closed.new = NoDocs /\ NoDocs \in [1..0 -> Doc] /\ DOMAIN NoDocs = {}
<1>1. NoDocs \in [1..0 -> Doc] /\ DOMAIN NoDocs = {}
  BY DEF NoDocs
<1>2. [s \in Seg |-> {}] \in [Seg -> SUBSET DocId]
  OBVIOUS
<1> QED
  BY <1>1, <1>2 DEF Closed, IsJob

LEMMA ClosedRight ==
  ASSUME Stored', job' = Closed
  PROVE  Working'
<1>3. \A s \in segs' : job'.bits[s] = {}
  <2>1. segs' \subseteq 1..session' /\ session' \in 0..MaxSession
    BY DEF Stored
  <2>2. segs' \subseteq Seg
    BY <2>1, DeletionsAssumption DEF Seg
  <2> QED
    BY <2>2, ClosedIs
<1>4. Members'
  <2>1. Closed.new \in [1..Closed.count -> Doc]
    BY ClosedIs
  <2>2. /\ IsJob(job') /\ job'.pc = "closed" /\ job'.optimized = FALSE
        /\ job'.bits \in [Seg -> SUBSET DocId]
    BY ClosedIs
  <2>3. job'.updated = {} /\ job'.merged = {} /\ job'.todo = {}
    BY ClosedIs
  <2>4. job'.count \in Nat /\ job'.new \in [1..job'.count -> Doc]
    BY <2>1, ClosedIs
  <2> QED
    BY <2>2, <2>3, <2>4 DEF Members
<1> QED
  BY <1>3, <1>4, ClosedIs DEF Working, IsInjective

LEMMA InitRight == Init => Stored /\ Working
<1> SUFFICES ASSUME Init PROVE Stored /\ Working
  OBVIOUS
<1>1. NoDocs \in Lists /\ MaxSession \in Nat
  <2>1. NoDocs \in [1..0 -> Doc] /\ 0 \in Nat
    BY DEF NoDocs
  <2> HIDE DEF NoDocs
  <2> QED
    BY <2>1, ListIs, DeletionsAssumption
<1>2. Unwritten \in [Seg -> DelFile]
  BY DocMaxIs DEF Unwritten, NoFile, DelFile
<1>3. Stored
  BY <1>1, <1>2 DEF Stored, Init
<1>6. segs = {} /\ job = Closed
  BY DEF Init
<1>7. Members
  <2>1. Closed.new \in [1..Closed.count -> Doc]
    BY ClosedIs
  <2>2. /\ IsJob(job) /\ job.pc = "closed" /\ job.optimized = FALSE
        /\ job.bits \in [Seg -> SUBSET DocId]
    BY <1>6, ClosedIs
  <2>3. job.updated = {} /\ job.merged = {} /\ job.todo = {}
    BY <1>6, ClosedIs
  <2>4. job.count \in Nat /\ job.new \in [1..job.count -> Doc]
    BY <1>6, <2>1, ClosedIs
  <2> QED
    BY <2>2, <2>3, <2>4 DEF Members
<1> QED
  BY <1>3, <1>6, <1>7, ClosedIs DEF Working, IsInjective

\* An Indexer that its client may still use has merged nothing.
LEMMA UsableIs ==
  ASSUME OptimizeLast, Working, Usable
  PROVE  job.pc = "open" /\ ~job.optimized /\ job.merged = {} /\ job.todo = {}
BY DEF Working, Usable

LEMMA BeginStep ==
  ASSUME Stored, Working, Begin
  PROVE  Stored' /\ Working'
<1> DEFINE bits == [s \in Seg |-> IF s \in segs THEN Deleted(s) ELSE {}]
<1>1. /\ job = Closed /\ session' = session + 1 /\ session < MaxSession
      /\ UNCHANGED <<segs, docs, dels, added>>
  BY DEF Begin, Working
<1>2. session' \in session..MaxSession /\ session \in Nat
  BY <1>1, DeletionsAssumption DEF Stored
<1>3. Stored'
  <2>1. added \subseteq added' /\ added' \subseteq Doc
    BY <1>1 DEF Stored
  <2> QED
    BY <1>1, <1>2, <2>1, StoredSame
<1>4. job' = [Closed EXCEPT !.pc = "open", !.bits = bits]
  BY DEF Begin
<1>5. \A s \in segs : Deleted(s) \subseteq DOMAIN docs[s] /\ Deleted(s) \subseteq DocId
  BY FileIs, NumberIs
<1>6. bits \in [Seg -> SUBSET DocId]
  BY <1>5
<1>7. \A s \in segs : bits[s] = Deleted(s)
  BY SegIs
<1> HIDE DEF bits
<1>8. /\ IsJob(job') /\ job'.pc = "open" /\ job'.bits = bits /\ job'.updated = {}
      /\ job'.new = NoDocs /\ job'.count = 0 /\ job'.todo = {} /\ job'.merged = {}
      /\ job'.optimized = FALSE
  BY <1>4 DEF Closed, IsJob
<1>9. Members'
  <2>1. job'.count \in Nat /\ job'.new \in [1..job'.count -> Doc]
    BY <1>8, ClosedIs
  <2> QED
    BY <1>6, <1>8, <2>1 DEF Members
<1>10. segs \subseteq 1..(session' - 1) /\ session' # 0
  BY <1>1, <1>2 DEF Stored
<1>11. \A s \in segs' : job'.bits[s] \subseteq DOMAIN docs'[s]
  BY <1>1, <1>5, <1>7, <1>8
<1> QED
  BY <1>1, <1>3, <1>8, <1>9, <1>10, <1>11, ClosedIs DEF Working, IsInjective

\* What the client adds to the segment being written.
LEMMA Grows ==
  ASSUME Stored, Working, job.pc = "open", ~job.optimized, job.merged = {},
         UNCHANGED <<segs, docs, dels, session>>,
         added \subseteq added', added' \subseteq Doc,
         NEW n \in Nat, NEW f \in [1..n -> Doc], IsInjective(f),
         \A j \in 1..n : f[j] \in added'
                         /\ (f[j] \notin added \/ \E i \in DOMAIN job.new : f[j] = job.new[i]),
         job' = [job EXCEPT !.new = f, !.count = n]
  PROVE  Stored' /\ Working'
<1>1. Stored'
  <2>1. session' \in session..MaxSession
    BY DeletionsAssumption DEF Stored
  <2> QED
    BY <2>1, StoredSame
<1>2. /\ IsJob(job') /\ job'.pc = "open" /\ job'.bits = job.bits /\ job'.updated = job.updated
      /\ job'.new = f /\ job'.count = n /\ job'.todo = job.todo /\ job'.merged = {}
      /\ job'.optimized = job.optimized
  BY DEF IsJob, Members, Working
<1>3. Members'
  BY <1>2 DEF Members, Working, Seg, DocId, DocMax
<1>4. \A s \in segs : \A i \in DOMAIN docs[s], j \in 1..n : docs[s][i] # f[j]
  BY DEF Stored, Working
<1> QED
  BY <1>1, <1>2, <1>3, <1>4 DEF Working

LEMMA AddDocStep ==
  ASSUME OptimizeLast, Stored, Working, NEW d \in Doc, AddDoc(d)
  PROVE  Stored' /\ Working'
<1> DEFINE n == job.count + 1
           f == [i \in DOMAIN job.new \cup {n} |-> IF i = n THEN d ELSE job.new[i]]
<1>1. job.pc = "open" /\ ~job.optimized /\ job.merged = {} /\ job.todo = {}
  BY UsableIs DEF AddDoc
<1>2. /\ UNCHANGED <<segs, docs, dels, session>> /\ added' = added \cup {d} /\ d \notin added
      /\ job' = [job EXCEPT !.new = f, !.count = n]
  BY DEF AddDoc, Working, Members, IsJob
<1>3. job.count \in Nat /\ job.new \in [1..job.count -> Doc] /\ DOMAIN job.new = 1..job.count
  BY DEF Working, Members
<1>4. n \in Nat /\ 1..job.count \cup {n} = 1..n
  BY <1>3
<1>5. f \in [1..n -> Doc] /\ f[n] = d /\ \A i \in 1..job.count : f[i] = job.new[i]
  BY <1>3, <1>4
<1>6. \A i \in 1..job.count : job.new[i] \in added
  BY <1>3 DEF Working
<1> HIDE DEF f, n
<1>7. IsInjective(f)
  <2> SUFFICES ASSUME NEW i \in 1..n, NEW j \in 1..n, f[i] = f[j] PROVE i = j
    BY <1>5 DEF IsInjective
  <2>1. CASE i = n \/ j = n
    BY <1>2, <1>4, <1>5, <1>6, <2>1
  <2>2. CASE i # n /\ j # n
    BY <1>3, <1>4, <1>5, <2>2 DEF Working, IsInjective
  <2> QED
    BY <2>1, <2>2
<1>8. \A j \in 1..n : f[j] \in added'
                      /\ (f[j] \notin added \/ \E i \in DOMAIN job.new : f[j] = job.new[i])
  BY <1>2, <1>3, <1>4, <1>5, <1>6
<1>9. added \subseteq added' /\ added' \subseteq Doc
  BY <1>2 DEF Stored
<1> QED
  BY <1>1, <1>2, <1>4, <1>5, <1>7, <1>8, <1>9, Grows

\* SegWriter_Add_Segment gives the documents that are not gone new numbers.
LEMMA Takes ==
  ASSUME Members, NEW max \in Nat, NEW source \in [1..max -> Doc], NEW gone
  PROVE  \E n \in Nat, f \in Lists :
            /\ WithSegment(job, source, gone) = [job EXCEPT !.new = f, !.count = n]
            /\ Joins(f, n, job.new, source, (1..max) \ gone)
<1> DEFINE f == Absorb(job.new, source, DocMap(gone, max, job.count))
           n == job.count + Kept(gone, max)
<1>1. Cardinality(DOMAIN source) = max
  BY FS_Interval
<1>2. job.count \in Nat /\ job.new \in [1..job.count -> Doc] /\ DOMAIN job.new = 1..job.count
  BY DEF Members
<1>3. n \in Nat
  BY <1>2, KeptIs
<1>4. WithSegment(job, source, gone) = [job EXCEPT !.new = f, !.count = n]
  <2>1. WithSegment(job, source, gone)
          = [job EXCEPT !.new = Absorb(@, source, DocMap(gone, max, job.count)),
                        !.count = @ + Cardinality((1..max) \ gone)]
    BY <1>1 DEF WithSegment
  <2> QED
    BY <2>1 DEF Members, IsJob, Kept
<1>5. Joins(f, n, job.new, source, (1..max) \ gone)
  BY <1>2, Absorbs
<1> HIDE DEF f, n
<1>6. f \in Lists
  BY <1>3, <1>5, ListIs DEF Joins
<1> QED
  BY <1>3, <1>4, <1>5, <1>6

\* The two documents of another index.
Pair(d, e) == [i \in 1..2 |-> IF i = 1 THEN d ELSE e]

LEMMA AddIndexStep ==
  ASSUME OptimizeLast, Stored, Working, NEW d \in Doc, NEW e \in Doc, NEW D, AddIndex(d, e, D)
  PROVE  Stored' /\ Working'
<1> DEFINE source == Pair(d, e)
           gone == {i \in 1..2 : source[i] \notin D}
<1>1. job.pc = "open" /\ ~job.optimized /\ job.merged = {} /\ job.todo = {}
  BY UsableIs DEF AddIndex
<1>2. /\ UNCHANGED <<segs, docs, dels, session>> /\ added' = added \cup {d, e}
      /\ d \notin added /\ e \notin added /\ d # e
      /\ job' = WithSegment(job, source, gone)
  BY DEF AddIndex, Pair
<1>3. source \in [1..2 -> Doc] /\ source[1] = d /\ source[2] = e
  BY DEF Pair
<1>4. IsInjective(source) /\ \A i \in 1..2 : source[i] \in {d, e}
  <2>1. 1..2 = {1, 2}
    OBVIOUS
  <2> HIDE DEF source
  <2> QED
    BY <1>2, <1>3, <2>1 DEF IsInjective
<1> HIDE DEF source, gone
<1>5. PICK n \in Nat, f \in Lists :
            /\ WithSegment(job, source, gone) = [job EXCEPT !.new = f, !.count = n]
            /\ Joins(f, n, job.new, source, (1..2) \ gone)
  BY <1>3, Takes DEF Working
<1>6. /\ f \in [1..n -> Doc]
      /\ \A x : (\E j \in 1..n : f[j] = x) <=>
                   \/ \E j \in DOMAIN job.new : job.new[j] = x
                   \/ \E i \in (1..2) \ gone : source[i] = x
      /\ /\ IsInjective(job.new) /\ IsInjective(source)
         /\ \A j \in DOMAIN job.new, i \in (1..2) \ gone : job.new[j] # source[i]
         => IsInjective(f)
  BY <1>5 DEF Joins
<1>7. IsInjective(f)
  <2>1. \A j \in DOMAIN job.new, i \in 1..2 : job.new[j] # source[i]
    BY <1>2, <1>4 DEF Working
  <2> QED
    BY <1>4, <1>6, <2>1 DEF Working
<1>8. \A j \in 1..n : f[j] \in added'
                      /\ (f[j] \notin added \/ \E i \in DOMAIN job.new : f[j] = job.new[i])
  <2> SUFFICES ASSUME NEW j \in 1..n
               PROVE  f[j] \in added'
                      /\ (f[j] \notin added \/ \E i \in DOMAIN job.new : f[j] = job.new[i])
    OBVIOUS
  <2>1. CASE \E i \in DOMAIN job.new : job.new[i] = f[j]
    BY <1>2, <2>1 DEF Working
  <2>2. CASE \E i \in (1..2) \ gone : source[i] = f[j]
    BY <1>2, <1>4, <2>2
  <2> QED
    BY <1>6, <2>1, <2>2
<1>9. added \subseteq added' /\ added' \subseteq Doc
  BY <1>2 DEF Stored
<1> QED
  BY <1>1, <1>2, <1>5, <1>6, <1>7, <1>8, <1>9, Grows

\* Steps that leave the snapshot alone and only note something in the Indexer.
LEMMA Notes ==
  ASSUME Stored, Working, UNCHANGED <<segs, docs, dels, added, session>>,
         Members', job.pc # "closed", job'.pc # "closed",
         job'.new = job.new, job'.count = job.count, job'.merged = job.merged,
         \A s \in segs : job'.bits[s] \subseteq DOMAIN docs[s],
         job'.pc = "open" => job'.todo = {} /\ (job'.optimized \/ job'.merged = {}),
         job'.pc = "optimizing" => ~job'.optimized /\ segs \subseteq job'.merged \cup job'.todo,
         job'.optimized => segs = job'.merged /\ job'.todo = {}
  PROVE  Stored' /\ Working'
<1>1. Stored'
  <2>1. session' \in session..MaxSession /\ added' \subseteq Doc
    BY DeletionsAssumption DEF Stored
  <2> QED
    BY <2>1, StoredSame
<1> QED
  BY <1>1 DEF Working

LEMMA DeleteByTermStep ==
  ASSUME OptimizeLast, Stored, Working, NEW t \in Term, DeleteByTerm(t)
  PROVE  Stored' /\ Working'
<1> DEFINE bits == [s \in Seg |-> IF s \in segs THEN job.bits[s] \cup Matches(s, t)
                                  ELSE job.bits[s]]
           updated == job.updated \cup {s \in segs : ~(Matches(s, t) \subseteq job.bits[s])}
<1>1. job.pc = "open" /\ ~job.optimized /\ job.merged = {} /\ job.todo = {}
  BY UsableIs DEF DeleteByTerm
<1>2. Members
  BY DEF Working
<1>3. job' = [job EXCEPT !.bits = bits, !.updated = updated]
  BY <1>2 DEF DeleteByTerm, Members, IsJob
<1>4. \A s \in segs : Matches(s, t) \subseteq DOMAIN docs[s]
  BY DEF Matches
<1>5. \A s \in segs : job.bits[s] \cup Matches(s, t) \subseteq DOMAIN docs[s]
  BY <1>4 DEF Working
<1>6. bits \in [Seg -> SUBSET DocId]
  BY <1>2, <1>5, NumberIs DEF Members
<1>7. \A s \in segs : bits[s] \subseteq DOMAIN docs[s]
  BY <1>5, SegIs
<1>8. updated \subseteq segs
  BY <1>2 DEF Members
<1> HIDE DEF bits, updated
<1>9. /\ IsJob(job') /\ job'.pc = "open" /\ job'.bits = bits /\ job'.updated = updated
      /\ job'.new = job.new /\ job'.count = job.count /\ job'.todo = {} /\ job'.merged = {}
      /\ job'.optimized = job.optimized
  BY <1>1, <1>2, <1>3 DEF Members, IsJob
<1>10. UNCHANGED <<segs, docs, dels, added, session>>
  BY DEF DeleteByTerm
<1>11. Members'
  BY <1>2, <1>6, <1>8, <1>9, <1>10 DEF Members
<1> QED
  BY <1>1, <1>7, <1>9, <1>10, <1>11, Notes

LEMMA OptimizeStep ==
  ASSUME OptimizeLast, Stored, Working, Optimize
  PROVE  Stored' /\ Working'
<1>1. job.pc = "open" /\ ~job.optimized /\ job.merged = {} /\ job.todo = {}
  BY UsableIs DEF Optimize
<1>2. Members
  BY DEF Working
<1>3. /\ IsJob(job') /\ job'.pc = "optimizing" /\ job'.bits = job.bits
      /\ job'.updated = job.updated /\ job'.new = job.new /\ job'.count = job.count
      /\ job'.todo = segs /\ job'.merged = {} /\ job'.optimized = job.optimized
  BY <1>1, <1>2 DEF Optimize, Members, IsJob
<1>4. UNCHANGED <<segs, docs, dels, added, session>>
  BY DEF Optimize
<1>5. Members'
  BY <1>2, <1>3, <1>4 DEF Members
<1>6. \A s \in segs : job'.bits[s] \subseteq DOMAIN docs[s]
  BY <1>3 DEF Working
<1> QED
  BY <1>1, <1>3, <1>4, <1>5, <1>6, Notes

LEMMA OptimizedStep ==
  ASSUME Stored, Working, Optimized
  PROVE  Stored' /\ Working'
<1>1. job.pc = "optimizing" /\ ~job.optimized /\ job.todo = {} /\ segs = job.merged
  BY DEF Optimized, Working, Members
<1>2. Members
  BY DEF Working
<1>3. /\ IsJob(job') /\ job'.pc = "open" /\ job'.bits = job.bits
      /\ job'.updated = job.updated /\ job'.new = job.new /\ job'.count = job.count
      /\ job'.todo = {} /\ job'.merged = job.merged /\ job'.optimized = TRUE
  BY <1>1, <1>2 DEF Optimized, Members, IsJob
<1>4. UNCHANGED <<segs, docs, dels, added, session>>
  BY DEF Optimized
<1>5. Members'
  BY <1>2, <1>3, <1>4 DEF Members
<1>6. \A s \in segs : job'.bits[s] \subseteq DOMAIN docs[s]
  BY <1>3 DEF Working
<1> QED
  BY <1>1, <1>3, <1>4, <1>5, <1>6, Notes

LEMMA PrepareStep ==
  ASSUME Stored, Working, Prepare
  PROVE  Stored' /\ Working'
<1>1. job.pc = "open" /\ job.todo = {} /\ (job.optimized \/ job.merged = {})
  BY DEF Prepare, Working
<1>2. Members
  BY DEF Working
<1>3. PICK M \in SUBSET segs :
         /\ job.optimized => M = {}
         /\ job' = [job EXCEPT !.pc = "merging", !.todo = M]
  BY DEF Prepare
<1>4. /\ IsJob(job') /\ job'.pc = "merging" /\ job'.bits = job.bits
      /\ job'.updated = job.updated /\ job'.new = job.new /\ job'.count = job.count
      /\ job'.todo = M /\ job'.merged = job.merged /\ job'.optimized = job.optimized
  BY <1>2, <1>3 DEF Members, IsJob
<1>5. UNCHANGED <<segs, docs, dels, added, session>>
  BY DEF Prepare
<1>6. M \subseteq segs \ job.merged
  BY <1>1, <1>3
<1>7. Members'
  BY <1>2, <1>4, <1>5, <1>6 DEF Members
<1>8. \A s \in segs : job'.bits[s] \subseteq DOMAIN docs[s]
  BY <1>4 DEF Working
<1>9. job'.optimized => segs = job'.merged /\ job'.todo = {}
  BY <1>3, <1>4 DEF Working
<1> QED
  BY <1>1, <1>4, <1>5, <1>7, <1>8, <1>9, Notes

LEMMA AbandonStep ==
  ASSUME Stored, Working, Abandon
  PROVE  Stored' /\ Working'
<1>1. Stored'
  <2>1. session' \in session..MaxSession /\ added' \subseteq Doc
    BY DeletionsAssumption DEF Abandon, Stored
  <2> QED
    BY <2>1, StoredSame DEF Abandon
<1> QED
  BY <1>1, ClosedRight DEF Abandon

LEMMA MergeSegmentStep ==
  ASSUME Stored, Working, MergeSegment
  PROVE  Stored' /\ Working'
<1>1. Members /\ job.pc \in {"optimizing", "merging"}
  BY DEF MergeSegment, Working
<1>2. UNCHANGED <<segs, docs, dels, added, session>>
  BY DEF MergeSegment
<1>3. PICK n \in job.todo :
          job' = [WithSegment(job, docs[n], job.bits[n]) EXCEPT
                    !.todo = @ \ {n},
                    !.merged = @ \cup {n},
                    !.updated = @ \cup Orphaned(n)]
  BY DEF MergeSegment
<1>4. n \in segs /\ n \notin job.merged
  BY <1>1 DEF Members
<1> DEFINE source == docs[n]
           max == Cardinality(DOMAIN source)
           gone == job.bits[n]
<1>5. max \in Nat /\ source \in [1..max -> Doc] /\ DOMAIN source = 1..max
  BY <1>4, SegIs, SizeIs
<1>6. IsInjective(source)
  BY <1>4 DEF Stored, IsInjective
<1>7. \A i \in DOMAIN source, j \in DOMAIN job.new : source[i] # job.new[j]
  BY <1>4 DEF Working
<1>8. \A s \in segs \ {n} : \A i \in DOMAIN docs[s], j \in DOMAIN source : docs[s][i] # source[j]
  BY <1>4 DEF Stored
<1>9. \A i \in DOMAIN source : source[i] \in added
  BY <1>4 DEF Stored
<1>10. job' = [WithSegment(job, source, gone) EXCEPT
                    !.todo = @ \ {n},
                    !.merged = @ \cup {n},
                    !.updated = @ \cup Orphaned(n)]
  BY <1>3
<1> HIDE DEF source, max, gone
<1>11. PICK c \in Nat, f \in Lists :
            /\ WithSegment(job, source, gone) = [job EXCEPT !.new = f, !.count = c]
            /\ Joins(f, c, job.new, source, (1..max) \ gone)
  BY <1>1, <1>5, Takes
<1>12. /\ f \in [1..c -> Doc]
       /\ \A x : (\E j \in 1..c : f[j] = x) <=>
                    \/ \E j \in DOMAIN job.new : job.new[j] = x
                    \/ \E i \in (1..max) \ gone : source[i] = x
       /\ IsInjective(f)
  BY <1>5, <1>6, <1>7, <1>11 DEF Joins, Working
<1>13. /\ IsJob(job') /\ job'.pc = job.pc /\ job'.bits = job.bits
       /\ job'.updated = job.updated \cup Orphaned(n) /\ job'.new = f /\ job'.count = c
       /\ job'.todo = job.todo \ {n} /\ job'.merged = job.merged \cup {n}
       /\ job'.optimized = job.optimized
  BY <1>1, <1>10, <1>11 DEF Members, IsJob
<1>14. Orphaned(n) \subseteq segs
  BY DEF Orphaned
<1>15. Members'
  BY <1>1, <1>2, <1>4, <1>12, <1>13, <1>14 DEF Members
<1>16. Stored'
  <2>1. session' \in session..MaxSession /\ added' \subseteq Doc
    BY <1>2, DeletionsAssumption DEF Stored
  <2> QED
    BY <1>2, <2>1, StoredSame
<1>17. \A j \in 1..c : f[j] \in added
  <2> SUFFICES ASSUME NEW j \in 1..c PROVE f[j] \in added
    OBVIOUS
  <2> QED
    BY <1>5, <1>9, <1>12 DEF Working
<1>18. \A s \in segs \ (job.merged \cup {n}) : \A i \in DOMAIN docs[s], j \in 1..c : docs[s][i] # f[j]
  <2> SUFFICES ASSUME NEW s \in segs \ (job.merged \cup {n}), NEW i \in DOMAIN docs[s],
                      NEW j \in 1..c, docs[s][i] = f[j]
               PROVE  FALSE
    OBVIOUS
  <2>1. CASE \E m \in DOMAIN job.new : job.new[m] = f[j]
    BY <2>1 DEF Working
  <2>2. CASE \E m \in (1..max) \ gone : source[m] = f[j]
    BY <1>5, <1>8, <2>2
  <2> QED
    BY <1>12, <2>1, <2>2
<1>19. ~job.optimized /\ job.pc # "open" /\ job.pc # "closed"
  BY <1>1, <1>3 DEF Working
<1>20. job.pc = "optimizing" => segs \subseteq (job.merged \cup {n}) \cup (job.todo \ {n})
  BY DEF Working
<1> QED
  BY <1>2, <1>12, <1>13, <1>15, <1>16, <1>17, <1>18, <1>19, <1>20 DEF Working

\* What a commit leaves: the segments that were not merged as they were, and
\* the new one with its documents and the deletions files it writes.
Written(new, files) ==
    /\ new \in Seg /\ new \in 1..session /\ new \notin segs /\ segs \subseteq Seg
    /\ \A s \in segs : s \in Nat /\ s < new
    /\ files \in [Seg -> DelFile]
    /\ \A s \in segs : files[s].bits \subseteq DOMAIN docs[s]
    /\ \A s \in Seg : files[s] # NoFile => s \in segs
    /\ segs' = (segs \ job.merged) \cup {new}
    /\ docs' = [s \in Seg |-> IF s = new THEN job.new
                              ELSE IF s \in job.merged THEN NoDocs ELSE docs[s]]
    /\ dels' = [s \in Seg |-> IF s = new THEN files
                              ELSE IF s \in job.merged THEN Unwritten ELSE dels[s]]
    /\ docs'[new] = job.new /\ dels'[new] = files
    /\ \A s \in segs \ job.merged : docs'[s] = docs[s] /\ dels'[s] = dels[s]
    /\ \A s \in Seg \ segs' : docs'[s] = NoDocs /\ dels'[s] = Unwritten

LEMMA Commits ==
  ASSUME Stored, Working, Commit, NeedsCommit
  PROVE  Written(NewSeg, Finished)
<1>0. job.pc = "merging"
  BY DEF Commit
<1> DEFINE new == NewSeg
           written == Finished
<1>1. /\ segs' = (segs \ job.merged) \cup {new}
      /\ docs' = [s \in Seg |-> IF s = new THEN job.new
                                ELSE IF s \in job.merged THEN NoDocs ELSE docs[s]]
      /\ dels' = [s \in Seg |-> IF s = new THEN written
                                ELSE IF s \in job.merged THEN Unwritten ELSE dels[s]]
  BY DEF Commit
<1>2. Members /\ session \in 1..MaxSession /\ segs \subseteq 1..(session - 1)
  BY <1>0, DeletionsAssumption DEF Working, Stored
<1>3. new \in 1..session /\ \A m \in segs : m < new
  BY <1>2, NewSegIs
<1>4. /\ new \in Seg /\ new \notin segs /\ segs \subseteq Seg
      /\ \A s \in segs : s \in Nat /\ s < new
  <2>1. session \in Nat /\ MaxSession \in Nat /\ session <= MaxSession
    BY <1>2, DeletionsAssumption
  <2>2. new \in Seg
    BY <1>3, <2>1 DEF Seg
  <2>3. segs \subseteq Seg
    BY SegIs
  <2>4. \A s \in segs : s \in Nat /\ s < new
    BY <1>3, <2>3 DEF Seg
  <2>5. new \notin segs
    BY <2>4
  <2> QED
    BY <2>2, <2>3, <2>4, <2>5
<1>5. /\ written \in [Seg -> DelFile]
      /\ \A s \in segs : written[s].bits \subseteq DOMAIN docs[s]
      /\ \A s \in Seg : written[s] # NoFile => s \in segs
  <2> DEFINE file(s) == [count |-> Cardinality(job.bits[s]),
                         bits |-> {i \in job.bits[s] : i < Capacity(s)}]
  <2>1. written = [s \in Seg |-> IF s \in job.updated /\ ~job.optimized THEN file(s) ELSE NoFile]
    BY DEF Finished
  <2>2. NoFile \in DelFile /\ NoFile.bits = {}
    BY DocMaxIs DEF NoFile, DelFile
  <2>3. ASSUME NEW s \in segs
        PROVE  file(s) \in DelFile /\ file(s).bits \subseteq DOMAIN docs[s]
    <3>1. job.bits[s] \subseteq DOMAIN docs[s] /\ job.bits[s] \in SUBSET DocId
      BY NumberIs DEF Working
    <3>2. IsFiniteSet(DocId) /\ Cardinality(DocId) = DocMax
      BY DocMaxIs, FS_Interval DEF DocId
    <3>3. Cardinality(job.bits[s]) \in 0..DocMax
      <4>1. IsFiniteSet(job.bits[s]) /\ Cardinality(job.bits[s]) <= DocMax
        BY <3>1, <3>2, FS_Subset
      <4> QED
        BY <4>1, DocMaxIs, FS_CardinalityType
    <3> QED
      BY <3>1, <3>3 DEF DelFile
  <2> HIDE DEF file
  <2>4. job.updated \subseteq segs
    BY <1>2 DEF Members
  <2> QED
    BY <1>4, <2>1, <2>2, <2>3, <2>4
<1> HIDE DEF new, written
<1>6. /\ docs'[new] = job.new /\ dels'[new] = written
      /\ \A s \in segs \ job.merged : docs'[s] = docs[s] /\ dels'[s] = dels[s]
      /\ \A s \in Seg \ segs' : docs'[s] = NoDocs /\ dels'[s] = Unwritten
  <2>1. \A s \in Seg \ segs' : s # new /\ (s \in job.merged \/ s \notin segs)
    BY <1>1
  <2>2. \A s \in Seg \ segs : docs[s] = NoDocs /\ dels[s] = Unwritten
    BY DEF Stored
  <2> QED
    BY <1>1, <1>4, <2>1, <2>2
<1> QED
  BY <1>1, <1>3, <1>4, <1>5, <1>6 DEF Written, new, written

LEMMA CommitStep ==
  ASSUME Stored, Working, Commit
  PROVE  Stored' /\ Working'
<1>1. /\ job.pc = "merging" /\ job.todo = {} /\ job' = Closed
      /\ UNCHANGED <<added, session>>
  BY DEF Commit
<1>2. Stored'
  <2>1. CASE ~NeedsCommit
    <3>1. session' \in session..MaxSession /\ added' \subseteq Doc
      BY <1>1, DeletionsAssumption DEF Stored
    <3> QED
      BY <1>1, <2>1, <3>1, StoredSame DEF Commit
  <2>2. CASE NeedsCommit
    <3> DEFINE new == NewSeg
               written == Finished
    <3>0. Written(new, written)
      BY <2>2, Commits
    <3> HIDE DEF new, written
    <3>1. /\ segs' = (segs \ job.merged) \cup {new}
          /\ docs' = [s \in Seg |-> IF s = new THEN job.new
                                    ELSE IF s \in job.merged THEN NoDocs ELSE docs[s]]
          /\ dels' = [s \in Seg |-> IF s = new THEN written
                                    ELSE IF s \in job.merged THEN Unwritten ELSE dels[s]]
      BY <3>0 DEF Written
    <3>2. Members
      BY DEF Working
    <3>3. new \in 1..session
      BY <3>0 DEF Written
    <3>4. /\ new \in Seg /\ new \notin segs /\ segs \subseteq Seg
          /\ \A s \in segs : s \in Nat /\ s < new
      BY <3>0 DEF Written
    <3>5. /\ written \in [Seg -> DelFile]
          /\ \A s \in segs : written[s].bits \subseteq DOMAIN docs[s]
          /\ \A s \in Seg : written[s] # NoFile => s \in segs
      BY <3>0 DEF Written
    <3>6. /\ docs'[new] = job.new /\ dels'[new] = written
          /\ \A s \in segs \ job.merged : docs'[s] = docs[s] /\ dels'[s] = dels[s]
          /\ \A s \in Seg \ segs' : docs'[s] = NoDocs /\ dels'[s] = Unwritten
      BY <3>0 DEF Written
    <3>7. job.new \in Lists /\ NoDocs \in Lists /\ Unwritten \in [Seg -> DelFile]
      <4>1. NoDocs \in [1..0 -> Doc] /\ 0 \in Nat
        BY ClosedIs
      <4>2. Unwritten \in [Seg -> DelFile]
        BY DocMaxIs DEF Unwritten, NoFile, DelFile
      <4> QED
        BY <3>2, <4>1, <4>2, ListIs DEF Members
    <3>8. docs' \in [Seg -> Lists] /\ dels' \in [Seg -> [Seg -> DelFile]]
      BY <3>1, <3>5, <3>7 DEF Stored
    <3>9. \A s, t \in segs' : \A i \in DOMAIN docs'[s], j \in DOMAIN docs'[t] :
             docs'[s][i] = docs'[t][j] => s = t /\ i = j
      <4> SUFFICES ASSUME NEW s \in segs', NEW t \in segs',
                          NEW i \in DOMAIN docs'[s], NEW j \in DOMAIN docs'[t],
                          docs'[s][i] = docs'[t][j]
                   PROVE  s = t /\ i = j
        OBVIOUS
      <4>1. CASE s = new /\ t = new
        BY <3>6, <4>1 DEF Working, IsInjective
      <4>2. CASE s = new /\ t # new
        BY <3>1, <3>6, <4>2 DEF Working
      <4>3. CASE s # new /\ t = new
        BY <3>1, <3>6, <4>3 DEF Working
      <4>4. CASE s # new /\ t # new
        <5>1. s \in segs \ job.merged /\ t \in segs \ job.merged
          BY <3>1, <4>4
        <5>2. docs'[s] = docs[s] /\ docs'[t] = docs[t]
          BY <3>6, <5>1
        <5>3. i \in DOMAIN docs[s] /\ j \in DOMAIN docs[t] /\ docs[s][i] = docs[t][j]
          BY <5>2
        <5>4. \A p, q \in segs : \A k \in DOMAIN docs[p], l \in DOMAIN docs[q] :
                 docs[p][k] = docs[q][l] => p = q /\ k = l
          BY Zenon DEF Stored
        <5> QED
          BY <5>1, <5>3, <5>4
      <4> QED
        BY <4>1, <4>2, <4>3, <4>4
    <3>10. \A s \in segs' : \A i \in DOMAIN docs'[s] : docs'[s][i] \in added'
      <4> SUFFICES ASSUME NEW s \in segs', NEW i \in DOMAIN docs'[s]
                   PROVE  docs'[s][i] \in added
        BY <1>1
      <4>1. CASE s = new
        BY <3>6, <4>1 DEF Working
      <4>2. CASE s # new
        <5>1. s \in segs /\ docs'[s] = docs[s]
          BY <3>1, <3>6, <4>2
        <5> QED
          BY <5>1 DEF Stored
      <4> QED
        BY <4>1, <4>2
    <3>11. \A n \in segs', s \in Seg : dels'[n][s] # NoFile => s < n
      BY <3>1, <3>4, <3>5, <3>6 DEF Stored
    <3>12. \A n, s \in segs' : dels'[n][s].bits \subseteq DOMAIN docs'[s]
      <4> SUFFICES ASSUME NEW n \in segs', NEW s \in segs'
                   PROVE  dels'[n][s].bits \subseteq DOMAIN docs'[s]
        OBVIOUS
      <4>1. CASE s = new
        <5>1. dels'[n][s] = NoFile
          <6>1. ~ (s < n)
            <7>1. new \in Nat
              BY <3>4 DEF Seg
            <7>2. CASE n = new
              BY <4>1, <7>1, <7>2
            <7>3. CASE n \in segs
              <8>1. n \in Nat /\ n < new
                BY <3>4, <7>3
              <8> QED
                BY <4>1, <7>1, <8>1
            <7> QED
              BY <3>1, <7>2, <7>3
          <6> QED
            BY <3>4, <3>11, <4>1, <6>1
        <5> QED
          BY <5>1 DEF NoFile
      <4>2. CASE s # new
        BY <3>1, <3>5, <3>6, <4>2 DEF Stored
      <4> QED
        BY <4>1, <4>2
    <3>13. segs' \subseteq 1..session' /\ session' \in 0..MaxSession /\ added' \subseteq Doc
      BY <1>1, <3>1, <3>2, <3>3 DEF Stored
    <3> QED
      BY <3>6, <3>8, <3>9, <3>10, <3>11, <3>12, <3>13
         DEF Stored, Seg, Lists, DelFile, DocId, DocMax, Unwritten
  <2> QED
    BY <2>1, <2>2
<1> QED
  BY <1>1, <1>2, ClosedRight

LEMMA StepRight ==
  ASSUME OptimizeLast
  PROVE  Stored /\ Working /\ [Next]_vars => Stored' /\ Working'
<1> SUFFICES ASSUME Stored, Working, [Next]_vars PROVE Stored' /\ Working'
  OBVIOUS
<1>1. CASE UNCHANGED vars
  BY <1>1 DEF vars, Stored, Working, Members, IsJob, Closed, NoDocs, Seg, Lists, DelFile, DocId,
     DocMax, Unwritten, NoFile, IsInjective
<1>2. CASE Next
  BY <1>2, BeginStep, OptimizeStep, MergeSegmentStep, OptimizedStep, PrepareStep, CommitStep,
     AbandonStep, AddDocStep, AddIndexStep, DeleteByTermStep DEF Next
<1> QED
  BY <1>1, <1>2

-----------------------------------------------------------------------------
\* Through all merges the documents of every segment are numbered from 1
\* without gaps, and no number is more than there are documents
\* (DelWriter_generate_doc_map).
THEOREM TypeCorrect ==
  ASSUME OptimizeLast
  PROVE  Spec => []TypeOK
<1> QED
  BY InitRight, StepRight, Types, PTL DEF Spec

-----------------------------------------------------------------------------
(* Deletions files through merges                                           *)

\* Every bit has a byte in a deletions file: what fails for a segment whose
\* number of documents is a multiple of the bits in a byte.
Roomy == \A s \in segs : \A i \in DOMAIN docs[s] : i < Capacity(s)

\* What Indexer j knows of the deletions of segment s: all there are, at least.
\* Unless it is to write a file of its own, the newest one stays in the
\* snapshot; and if it is, the file will have more bits than all that stay.
Marked(j, s) ==
    /\ Deleted(s) \subseteq j.bits[s]
    /\ s \notin j.updated =>
          /\ j.bits[s] = Deleted(s)
          /\ \A n \in j.merged : dels[n][s] # NoFile => dels[n][s].count # DelCount(s)
    /\ s \in j.updated =>
          /\ j.bits[s] # {}
          /\ \A m \in segs \ j.merged : dels[m][s].count < Cardinality(j.bits[s])

Counting ==
    /\ CountsAgree /\ DeletionsGrow
    /\ job.pc # "closed" => \A s \in segs : Marked(job, s)

LEMMA More ==
  ASSUME NEW T \in SUBSET DocId, NEW S \in SUBSET T
  PROVE  /\ Cardinality(S) \in Nat /\ Cardinality(T) \in Nat
         /\ Cardinality(S) <= Cardinality(T)
         /\ S # T => Cardinality(S) < Cardinality(T)
         /\ T # {} => Cardinality(T) > 0
<1>1. IsFiniteSet(DocId)
  BY DocMaxIs, FS_Interval DEF DocId
<1>2. IsFiniteSet(T)
  BY <1>1, FS_Subset
<1>3. /\ IsFiniteSet(S) /\ Cardinality(S) <= Cardinality(T)
      /\ Cardinality(S) = Cardinality(T) => S = T
  BY <1>2, FS_Subset
<1>4. Cardinality(S) \in Nat /\ Cardinality(T) \in Nat
  BY <1>2, <1>3, FS_CardinalityType
<1>5. T # {} => Cardinality(T) > 0
  BY <1>2, <1>4, FS_EmptySet
<1> QED
  BY <1>3, <1>4, <1>5

LEMMA NoFileIs ==
  ASSUME NEW f \in DelFile, f.count = Cardinality(f.bits)
  PROVE  /\ f.count \in Nat /\ f.bits \in SUBSET DocId
         /\ f # NoFile => f.bits # {} /\ f.count > 0
         /\ f = NoFile => f.bits = {} /\ f.count = 0
<1>1. f = [count |-> f.count, bits |-> f.bits] /\ f.count \in Nat /\ f.bits \in SUBSET DocId
  BY DocMaxIs DEF DelFile
<1>2. f.bits = {} => f.count = 0
  BY <1>1, FS_EmptySet
<1>3. f # NoFile => f.bits # {}
  BY <1>1, <1>2 DEF NoFile
<1>4. f # NoFile => f.count > 0
  BY <1>1, <1>3, More
<1>5. f = NoFile => f.bits = {} /\ f.count = 0
  BY DEF NoFile
<1> QED
  BY <1>1, <1>3, <1>4, <1>5

\* The newest file says all that any other does, and only it has its count.
LEMMA Older ==
  ASSUME Stored, CountsAgree, DeletionsGrow, NEW s \in segs
  PROVE  /\ DelCount(s) = Cardinality(Deleted(s)) /\ DelCount(s) \in Nat
         /\ Deleted(s) \in SUBSET DocId
         /\ \A m \in segs :
               /\ dels[m][s].bits \subseteq Deleted(s)
               /\ dels[m][s].count \in Nat /\ dels[m][s].count <= DelCount(s)
               /\ dels[m][s] # NoFile /\ dels[m][s].count = DelCount(s)
                     => /\ Deleted(s) # {}
                        /\ \A n \in segs \ {m} : dels[n][s].count < DelCount(s)
<1>1. segs \subseteq 1..session /\ session \in Nat
  BY DeletionsAssumption DEF Stored
<1>2. s \in Seg /\ segs \subseteq Seg
  BY SegIs
<1>3. \A m \in segs : dels[m][s] \in DelFile /\ dels[m][s].count = Cardinality(dels[m][s].bits)
  BY <1>2, SegIs DEF CountsAgree
<1>4. \A m \in segs :
         /\ dels[m][s].count \in Nat /\ dels[m][s].bits \in SUBSET DocId
         /\ dels[m][s] # NoFile => dels[m][s].bits # {} /\ dels[m][s].count > 0
         /\ dels[m][s] = NoFile => dels[m][s].bits = {} /\ dels[m][s].count = 0
  BY <1>3, NoFileIs
<1>5. CASE FileFor(s) = NoFile /\ \A n \in segs : dels[n][s] = NoFile
  <2>1. Deleted(s) = {} /\ DelCount(s) = 0 /\ Cardinality({}) = 0
    BY <1>5, FS_EmptySet DEF Deleted, DelCount, NoFile
  <2> QED
    BY <1>4, <1>5, <2>1
<1>6. CASE \E h \in segs : /\ FileFor(s) = dels[h][s] /\ dels[h][s] # NoFile
                           /\ \A n \in segs : dels[n][s] # NoFile => n <= h
  <2>1. PICK h \in segs : /\ FileFor(s) = dels[h][s] /\ dels[h][s] # NoFile
                          /\ \A n \in segs : dels[n][s] # NoFile => n <= h
    BY <1>6
  <2>2. Deleted(s) = dels[h][s].bits /\ DelCount(s) = dels[h][s].count
    BY <2>1 DEF Deleted, DelCount
  <2>3. ASSUME NEW m \in segs, m # h
        PROVE  dels[m][s].bits \subseteq Deleted(s) /\ dels[m][s].count < DelCount(s)
    <3>1. CASE dels[m][s] = NoFile
      BY <1>4, <2>1, <2>2, <3>1
    <3>2. CASE dels[m][s] # NoFile
      <4>1. m <= h /\ m \in Nat /\ h \in Nat
        BY <1>1, <2>1, <3>2
      <4>2. m < h
        BY <2>3, <4>1
      <4> QED
        BY <2>1, <2>2, <4>2 DEF DeletionsGrow
    <3> QED
      BY <3>1, <3>2
  <2> QED
    BY <1>3, <1>4, <2>1, <2>2, <2>3
<1> QED
  BY <1>1, <1>5, <1>6, Newest

LEMMA MarkedSame ==
  ASSUME Counting, UNCHANGED <<segs, dels>>,
         job'.pc # "closed" => \A s \in segs : Marked(job', s)
  PROVE  Counting'
<1>1. CountsAgree' /\ DeletionsGrow'
  BY DEF Counting, CountsAgree, DeletionsGrow
<1>2. ASSUME NEW s, Marked(job', s) PROVE Marked(job, s)'
  BY <1>2 DEF Marked, Deleted, DelCount, FileFor
<1> QED
  BY <1>1, <1>2 DEF Counting

\* Steps that leave deletions alone.
LEMMA CountingSame ==
  ASSUME Counting, UNCHANGED <<segs, dels>>, job.pc # "closed",
         job'.bits = job.bits, job'.updated = job.updated, job'.merged = job.merged
  PROVE  Counting'
<1>1. \A s \in segs : Marked(job', s)
  BY DEF Counting, Marked
<1> QED
  BY <1>1, MarkedSame

LEMMA CountsBegin ==
  ASSUME Stored, Working, Counting, Begin
  PROVE  Counting'
<1> DEFINE bits == [s \in Seg |-> IF s \in segs THEN Deleted(s) ELSE {}]
<1>1. job = Closed /\ UNCHANGED <<segs, dels>> /\ job' = [Closed EXCEPT !.pc = "open", !.bits = bits]
  BY DEF Begin, Working
<1>2. \A s \in segs : bits[s] = Deleted(s)
  BY SegIs
<1> HIDE DEF bits
<1>3. job'.bits = bits /\ job'.updated = {} /\ job'.merged = {}
  BY <1>1 DEF Closed
<1>4. \A s \in segs : Marked(job', s)
  BY <1>2, <1>3 DEF Marked
<1> QED
  BY <1>1, <1>4, MarkedSame

\* Steps of a session that neither delete nor merge.
LEMMA CountsQuiet ==
  ASSUME Stored, Working, Counting,
         \/ \E d \in Doc : AddDoc(d)
         \/ \E d, e \in Doc : \E D \in SUBSET {d, e} : AddIndex(d, e, D)
         \/ Optimize \/ Optimized \/ Prepare
  PROVE  Counting'
<1>0. Members
  BY DEF Working
<1>1. ASSUME NEW d \in Doc, AddDoc(d) PROVE Counting'
  <2>1. /\ UNCHANGED <<segs, dels>> /\ job.pc # "closed"
        /\ job'.bits = job.bits /\ job'.updated = job.updated /\ job'.merged = job.merged
    BY <1>0, <1>1 DEF AddDoc, Usable, Members, IsJob
  <2> QED
    BY <2>1, CountingSame
<1>2. ASSUME NEW d \in Doc, NEW e \in Doc, NEW D, AddIndex(d, e, D) PROVE Counting'
  <2>1. /\ UNCHANGED <<segs, dels>> /\ job.pc # "closed"
        /\ \E source, gone : job' = WithSegment(job, source, gone)
    BY <1>2 DEF AddIndex, Usable
  <2>2. job'.bits = job.bits /\ job'.updated = job.updated /\ job'.merged = job.merged
    <3>1. \E f, n : job' = [job EXCEPT !.new = f, !.count = n]
      BY <1>0, <2>1 DEF WithSegment, Members, IsJob
    <3> QED
      BY <1>0, <3>1 DEF Members, IsJob
  <2> QED
    BY <2>1, <2>2, CountingSame
<1>3. CASE Optimize
  <2>1. /\ UNCHANGED <<segs, dels>> /\ job.pc # "closed"
        /\ job'.bits = job.bits /\ job'.updated = job.updated /\ job'.merged = job.merged
    BY <1>0, <1>3 DEF Optimize, Usable, Members, IsJob
  <2> QED
    BY <2>1, CountingSame
<1>4. CASE Optimized
  <2>1. /\ UNCHANGED <<segs, dels>> /\ job.pc # "closed"
        /\ job'.bits = job.bits /\ job'.updated = job.updated /\ job'.merged = job.merged
    BY <1>0, <1>4 DEF Optimized, Members, IsJob
  <2> QED
    BY <2>1, CountingSame
<1>5. CASE Prepare
  <2>1. PICK M : job' = [job EXCEPT !.pc = "merging", !.todo = M]
    BY <1>5 DEF Prepare
  <2>2. /\ UNCHANGED <<segs, dels>> /\ job.pc # "closed"
        /\ job'.bits = job.bits /\ job'.updated = job.updated /\ job'.merged = job.merged
    BY <1>0, <1>5, <2>1 DEF Prepare, Members, IsJob
  <2> QED
    BY <2>2, CountingSame
<1> QED
  BY <1>1, <1>2, <1>3, <1>4, <1>5

LEMMA CountsDelete ==
  ASSUME OptimizeLast, Stored, Working, Counting, NEW t \in Term, DeleteByTerm(t)
  PROVE  Counting'
<1> DEFINE bits == [s \in Seg |-> IF s \in segs THEN job.bits[s] \cup Matches(s, t)
                                  ELSE job.bits[s]]
           updated == job.updated \cup {s \in segs : ~(Matches(s, t) \subseteq job.bits[s])}
<1>1. job.pc = "open" /\ job.merged = {}
  BY UsableIs DEF DeleteByTerm
<1>2. Members
  BY DEF Working
<1>3. job' = [job EXCEPT !.bits = bits, !.updated = updated]
  BY <1>2 DEF DeleteByTerm, Members, IsJob
<1>4. UNCHANGED <<segs, dels>>
  BY DEF DeleteByTerm
<1>5. \A s \in segs : bits[s] = job.bits[s] \cup Matches(s, t)
  BY SegIs
<1>6. \A s \in segs : s \notin updated =>
                         s \notin job.updated /\ bits[s] = job.bits[s]
  BY <1>5
<1>7. \A s \in segs : s \in updated => s \in job.updated \/ bits[s] # job.bits[s]
  BY <1>5
<1>8. \A s \in segs : bits[s] \in SUBSET DocId
  <2>1. \A s \in segs : Matches(s, t) \subseteq DocId /\ job.bits[s] \subseteq DocId
    BY NumberIs DEF Matches, Working
  <2> QED
    BY <1>5, <2>1
<1> HIDE DEF bits, updated
<1>9. job'.bits = bits /\ job'.updated = updated /\ job'.merged = {}
  BY <1>1, <1>2, <1>3 DEF Members, IsJob
<1>10. ASSUME NEW s \in segs PROVE Marked(job', s)
  <2>1. Marked(job, s)
    BY <1>1 DEF Counting
  <2>2. job.bits[s] \subseteq bits[s] /\ Deleted(s) \subseteq bits[s]
    BY <1>5, <2>1 DEF Marked
  <2>3. s \notin updated => bits[s] = Deleted(s)
    BY <1>6, <2>1 DEF Marked
  <2>4. ASSUME s \in updated
        PROVE  bits[s] # {} /\ \A m \in segs : dels[m][s].count < Cardinality(bits[s])
    <3>1. CASE s \in job.updated
      <4>1. job.bits[s] # {} /\ \A m \in segs : dels[m][s].count < Cardinality(job.bits[s])
        BY <1>1, <2>1, <3>1 DEF Marked
      <4>2. /\ Cardinality(job.bits[s]) \in Nat /\ Cardinality(bits[s]) \in Nat
            /\ Cardinality(job.bits[s]) <= Cardinality(bits[s])
        BY <1>8, <2>2, More
      <4>3. \A m \in segs : dels[m][s].count \in Nat
        BY Older DEF Counting
      <4> QED
        BY <2>2, <4>1, <4>2, <4>3
    <3>2. CASE s \notin job.updated
      <4>1. bits[s] # Deleted(s)
        BY <1>7, <2>1, <2>4, <3>2 DEF Marked
      <4>2. /\ Cardinality(Deleted(s)) \in Nat /\ Cardinality(bits[s]) \in Nat
            /\ Cardinality(Deleted(s)) < Cardinality(bits[s])
        BY <1>8, <2>2, <4>1, More
      <4>3. \A m \in segs : /\ dels[m][s].count \in Nat
                            /\ dels[m][s].count <= Cardinality(Deleted(s))
        BY Older DEF Counting
      <4> QED
        BY <2>2, <4>1, <4>2, <4>3
    <3> QED
      BY <3>1, <3>2
  <2> QED
    BY <1>9, <2>2, <2>3, <2>4 DEF Marked
<1> QED
  BY <1>4, <1>10, MarkedSame

\* A segment whose newest deletions file goes away gets a file of its own.
LEMMA CountsMerge ==
  ASSUME Stored, Working, Counting, MergeSegment
  PROVE  Counting'
<1>1. Members /\ job.pc # "closed"
  BY DEF MergeSegment, Working
<1>2. UNCHANGED <<segs, dels>>
  BY DEF MergeSegment
<1>3. PICK n \in job.todo :
          job' = [WithSegment(job, docs[n], job.bits[n]) EXCEPT
                    !.todo = @ \ {n},
                    !.merged = @ \cup {n},
                    !.updated = @ \cup Orphaned(n)]
  BY DEF MergeSegment
<1>4. n \in segs /\ n \notin job.merged
  BY <1>1 DEF Members
<1>5. PICK f, c : WithSegment(job, docs[n], job.bits[n]) = [job EXCEPT !.new = f, !.count = c]
  BY <1>1 DEF WithSegment, Members, IsJob
<1>6. /\ job'.bits = job.bits /\ job'.updated = job.updated \cup Orphaned(n)
      /\ job'.merged = job.merged \cup {n}
  BY <1>1, <1>3, <1>5 DEF Members, IsJob
<1>7. ASSUME NEW s \in segs PROVE Marked(job', s)
  <2>1. Marked(job, s)
    BY <1>1 DEF Counting
  <2>2. Deleted(s) \subseteq job.bits[s]
    BY <2>1 DEF Marked
  <2>3. CASE s \in job.updated
    BY <1>6, <2>1, <2>3 DEF Marked
  <2>4. CASE s \notin job.updated /\ s \in Orphaned(n)
    <3>1. dels[n][s] # NoFile /\ dels[n][s].count = DelCount(s)
      BY <2>4 DEF Orphaned
    <3>2. /\ Deleted(s) # {} /\ DelCount(s) = Cardinality(Deleted(s))
          /\ \A m \in segs \ {n} : dels[m][s].count < DelCount(s)
      BY <1>4, <3>1, Older DEF Counting
    <3>3. job.bits[s] = Deleted(s)
      BY <2>1, <2>4 DEF Marked
    <3> QED
      BY <1>6, <2>4, <3>2, <3>3 DEF Marked
  <2>5. CASE s \notin job.updated /\ s \notin Orphaned(n)
    <3>1. dels[n][s] # NoFile => dels[n][s].count # DelCount(s)
      BY <2>5 DEF Orphaned
    <3> QED
      BY <1>6, <2>1, <2>5, <3>1 DEF Marked
  <2> QED
    BY <2>3, <2>4, <2>5
<1> QED
  BY <1>2, <1>7, MarkedSame

\* The files that a commit writes have all the bits.
LEMMA FinishedIs ==
  ASSUME Stored, Working, Roomy, NEW s \in segs
  PROVE  /\ s \in job.updated /\ ~job.optimized
               => Finished[s].count = Cardinality(job.bits[s]) /\ Finished[s].bits = job.bits[s]
         /\ ~(s \in job.updated /\ ~job.optimized) => Finished[s] = NoFile
<1>1. s \in Seg
  BY SegIs
<1>2. {i \in job.bits[s] : i < Capacity(s)} = job.bits[s]
  BY DEF Working, Roomy
<1> QED
  BY <1>1, <1>2 DEF Finished

LEMMA CountsCommit ==
  ASSUME Stored, Working, Counting, Roomy, Commit
  PROVE  Counting'
<1>1. job.pc = "merging" /\ job'.pc = "closed"
  BY ClosedIs DEF Commit
<1>2. CASE ~NeedsCommit
  BY <1>1, <1>2, MarkedSame DEF Commit
<1>3. CASE NeedsCommit
  <2> DEFINE new == NewSeg
             files == Finished
  <2>1. Written(new, files)
    BY <1>3, Commits
  <2>2. \A s \in segs :
           /\ s \in job.updated /\ ~job.optimized
                 => files[s].count = Cardinality(job.bits[s]) /\ files[s].bits = job.bits[s]
           /\ ~(s \in job.updated /\ ~job.optimized) => files[s] = NoFile
    BY FinishedIs
  <2> HIDE DEF new, files
  <2>3. NoFile.bits = {} /\ NoFile.count = 0 /\ Cardinality({}) = 0
    BY FS_EmptySet DEF NoFile
  <2>4. /\ segs' = (segs \ job.merged) \cup {new} /\ segs \subseteq Seg
        /\ dels'[new] = files /\ new \in Seg
        /\ \A s \in segs \ job.merged : dels'[s] = dels[s]
        /\ \A s \in segs : s \in Nat /\ s < new
        /\ \A s \in Seg : files[s] # NoFile => s \in segs
    BY <2>1 DEF Written
  <2>5. CountsAgree'
    <3> SUFFICES ASSUME NEW n \in segs', NEW s \in Seg
                 PROVE  dels'[n][s].count = Cardinality(dels'[n][s].bits)
      BY DEF CountsAgree, Seg
    <3>1. CASE n # new
      <4>1. n \in segs /\ dels'[n] = dels[n]
        BY <2>4, <3>1
      <4> QED
        BY <4>1 DEF Counting, CountsAgree
    <3>2. CASE n = new
      <4>1. dels'[n][s] = files[s]
        BY <2>4, <3>2
      <4>2. files[s].count = Cardinality(files[s].bits)
        BY <2>2, <2>3, <2>4
      <4> QED
        BY <4>1, <4>2
    <3> QED
      BY <3>1, <3>2
  <2>6. DeletionsGrow'
    <3> SUFFICES ASSUME NEW m \in segs', NEW n \in segs', NEW s \in segs',
                        m < n, dels'[n][s] # NoFile
                 PROVE  /\ dels'[m][s].bits \subseteq dels'[n][s].bits
                        /\ dels'[m][s].count < dels'[n][s].count
      BY DEF DeletionsGrow, NoFile
    <3>1. new \in Nat /\ new \notin segs
      BY <2>1 DEF Written, Seg
    <3>2. m \in segs \ job.merged /\ dels'[m] = dels[m]
      <4>1. CASE m = new
        <5>1. n = new \/ (n \in Nat /\ n < new)
          BY <2>4
        <5> QED
          BY <3>1, <4>1, <5>1
      <4> QED
        BY <2>4, <4>1
    <3>3. CASE n # new
      <4>1. n \in segs \ job.merged /\ dels'[n] = dels[n]
        BY <2>4, <3>3
      <4>2. s \in Seg /\ dels[n][s] # NoFile
        BY <2>4, <4>1
      <4>3. s < n
        BY <4>1, <4>2 DEF Stored
      <4>4. s # new
        <5>1. n \in Nat /\ n < new
          BY <2>4, <4>1
        <5> QED
          BY <3>1, <4>3, <5>1
      <4>5. s \in segs
        BY <2>4, <4>4
      <4> QED
        BY <3>2, <4>1, <4>2, <4>5 DEF Counting, DeletionsGrow
    <3>4. CASE n = new
      <4>1. files[s] # NoFile /\ dels'[n][s] = files[s] /\ s \in Seg
        BY <2>4, <3>4
      <4>2. s \in segs
        BY <2>4, <4>1
      <4>3. s \in job.updated /\ files[s].count = Cardinality(job.bits[s])
            /\ files[s].bits = job.bits[s]
        BY <2>2, <4>1, <4>2
      <4>4. Marked(job, s)
        BY <1>1, <4>2 DEF Counting
      <4>5. dels[m][s].bits \subseteq Deleted(s)
        BY <3>2, <4>2, Older DEF Counting
      <4>6. Deleted(s) \subseteq job.bits[s] /\ dels[m][s].count < Cardinality(job.bits[s])
        BY <3>2, <4>3, <4>4 DEF Marked
      <4> QED
        BY <3>2, <4>1, <4>3, <4>5, <4>6
    <3> QED
      BY <3>3, <3>4
  <2> QED
    BY <1>1, <2>5, <2>6 DEF Counting
<1> QED
  BY <1>2, <1>3

LEMMA CountsInit == Init => Counting
BY ClosedIs DEF Init, Counting, CountsAgree, DeletionsGrow

LEMMA CountsStep ==
  ASSUME OptimizeLast
  PROVE  Stored /\ Working /\ Roomy /\ Counting /\ [Next]_vars => Counting'
<1> SUFFICES ASSUME Stored, Working, Roomy, Counting, [Next]_vars PROVE Counting'
  OBVIOUS
<1>1. CASE UNCHANGED vars
  <2>1. UNCHANGED <<segs, dels>> /\ job' = job
    BY <1>1 DEF vars
  <2> QED
    BY <2>1, MarkedSame DEF Counting
<1>2. CASE Abandon
  <2>1. UNCHANGED <<segs, dels>> /\ job'.pc = "closed"
    BY <1>2, ClosedIs DEF Abandon
  <2> QED
    BY <2>1, MarkedSame
<1>3. CASE Next /\ ~Abandon
  BY <1>3, CountsBegin, CountsQuiet, CountsDelete, CountsMerge, CountsCommit DEF Next
<1> QED
  BY <1>1, <1>2, <1>3

\* What a deletions file can fail to say, at whatever size of a segment: the
\* count exceeds the bits by at most the last document, and only where the
\* documents fill their bytes, so that its bit has none.
OnlyTheLastLost ==
    \A n, s \in segs :
        LET last == Cardinality(DOMAIN docs[s])
        IN  \/ dels[n][s].count = Cardinality(dels[n][s].bits)
            \/ /\ \E k \in Nat : last = ByteBits * k
               /\ last \notin dels[n][s].bits
               /\ dels[n][s].count = Cardinality(dels[n][s].bits) + 1

\* The bytes that the documents need hold all bits but that of the last one.
LEMMA CapacityIs ==
  ASSUME NEW s, NEW max \in Nat, max = Cardinality(DOMAIN docs[s])
  PROVE  /\ Capacity(s) \in Nat /\ max <= Capacity(s)
         /\ \E k \in Nat : Capacity(s) = ByteBits * k
<1> DEFINE k == (max + ByteBits - 1) \div ByteBits
<1>1. ByteBits \in Nat /\ ByteBits > 0 /\ max + ByteBits - 1 \in Nat
  BY DeletionsAssumption
<1>2. k \in Nat /\ max + ByteBits - 1 < ByteBits * k + ByteBits
  BY <1>1
<1>3. Capacity(s) = ByteBits * k
  BY DEF Capacity
<1> HIDE DEF k
<1>4. ByteBits * k \in Nat
  BY <1>1, <1>2
<1> QED
  BY <1>1, <1>2, <1>3, <1>4

LEMMA LastIs ==
  ASSUME Stored, NEW s \in segs
  PROVE  /\ Cardinality(DOMAIN docs[s]) \in Nat
         /\ DOMAIN docs[s] = 1..Cardinality(DOMAIN docs[s])
<1>1. docs[s] \in Lists
  BY SegIs
<1>2. PICK n \in Nat : docs[s] \in [1..n -> Doc]
  BY <1>1, ListIs
<1>3. DOMAIN docs[s] = 1..n /\ Cardinality(1..n) = n
  BY <1>2, FS_Interval
<1> QED
  BY <1>3

LEMMA LostByFinish ==
  ASSUME Stored, Working, NEW s \in segs
  PROVE  LET last == Cardinality(DOMAIN docs[s])
             file == Finished[s]
         IN  \/ file.count = Cardinality(file.bits)
             \/ /\ \E k \in Nat : last = ByteBits * k
                /\ last \notin file.bits
                /\ file.count = Cardinality(file.bits) + 1
<1> DEFINE last == Cardinality(DOMAIN docs[s])
           bits == job.bits[s]
           kept == {i \in bits : i < Capacity(s)}
<1>1. s \in Seg /\ last \in Nat /\ bits \subseteq 1..last
  BY SegIs, LastIs DEF Working
<1>2. Capacity(s) \in Nat /\ last <= Capacity(s) /\ \E k \in Nat : Capacity(s) = ByteBits * k
  BY <1>1, CapacityIs
<1>3. IsFiniteSet(bits)
  <2>1. IsFiniteSet(1..last) /\ bits \in SUBSET (1..last)
    BY <1>1, FS_Interval
  <2> HIDE DEF last, bits
  <2> QED
    BY <2>1, FS_Subset
<1>4. CASE s \in job.updated /\ ~job.optimized
  <2>1. Finished[s] = [count |-> Cardinality(bits), bits |-> kept]
    BY <1>1, <1>4 DEF Finished
  <2>2. CASE kept = bits
    BY <2>1, <2>2
  <2>3. CASE kept # bits
    <3> HIDE DEF last, bits
    <3>1. last \in bits /\ last = Capacity(s) /\ kept = bits \ {last}
      <4>1. PICK i \in bits : ~ (i < Capacity(s))
        BY <2>3
      <4>2. last = Capacity(s) /\ i = last
        BY <1>1, <1>2, <4>1
      <4>3. \A h \in bits \ {last} : h < Capacity(s)
        BY <1>1, <4>2
      <4> QED
        BY <1>1, <4>1, <4>2, <4>3
    <3>2. Cardinality(kept) = Cardinality(bits) - 1 /\ Cardinality(bits) \in Nat
      BY <1>3, <3>1, FS_RemoveElement, FS_CardinalityType
    <3>3. Cardinality(kept) \in Int /\ Cardinality(bits) = Cardinality(kept) + 1
      BY <3>2
    <3> QED
      BY <1>2, <2>1, <3>1, <3>3 DEF last, bits
  <2> QED
    BY <2>2, <2>3
<1>5. CASE ~(s \in job.updated /\ ~job.optimized)
  <2>1. Finished[s] = NoFile
    BY <1>1, <1>5 DEF Finished
  <2> QED
    BY <2>1, FS_EmptySet DEF NoFile
<1> QED
  BY <1>4, <1>5

LEMMA LostStep ==
  ASSUME Stored, Stored', Working, OnlyTheLastLost, [Next]_vars
  PROVE  OnlyTheLastLost'
<1>1. CASE Commit /\ NeedsCommit
  <2> DEFINE new == NewSeg
             files == Finished
  <2>1. Written(new, files)
    BY <1>1, Commits
  <2>2. \A s \in segs :
           LET last == Cardinality(DOMAIN docs[s])
           IN  \/ files[s].count = Cardinality(files[s].bits)
               \/ /\ \E k \in Nat : last = ByteBits * k
                  /\ last \notin files[s].bits
                  /\ files[s].count = Cardinality(files[s].bits) + 1
    BY LostByFinish
  <2> HIDE DEF new, files
  <2> SUFFICES ASSUME NEW n \in segs', NEW s \in segs'
               PROVE  \/ dels'[n][s].count = Cardinality(dels'[n][s].bits)
                      \/ /\ \E k \in Nat : Cardinality(DOMAIN docs'[s]) = ByteBits * k
                         /\ Cardinality(DOMAIN docs'[s]) \notin dels'[n][s].bits
                         /\ dels'[n][s].count = Cardinality(dels'[n][s].bits) + 1
    BY DEF OnlyTheLastLost
  <2>3. CASE dels'[n][s] = NoFile
    BY <2>3, FS_EmptySet DEF NoFile
  <2>4. CASE dels'[n][s] # NoFile
    <3>1. s # new /\ s \in segs \ job.merged /\ docs'[s] = docs[s]
      <4>1. s < n
        <5>1. s \in Seg
          BY <2>1 DEF Written
        <5> QED
          BY <2>4, <5>1 DEF Stored
      <4>2. n = new \/ (n \in Nat /\ n < new)
        BY <2>1 DEF Written
      <4>3. new \in Nat /\ s \in Nat
        <5>1. session \in Nat /\ session' \in Nat
          BY DeletionsAssumption DEF Stored
        <5>2. new \in 1..session /\ s \in 1..session'
          BY <2>1 DEF Written, Stored
        <5> QED
          BY <5>1, <5>2
      <4>4. s # new
        BY <4>1, <4>2, <4>3
      <4> QED
        BY <2>1, <4>4 DEF Written
    <3>2. CASE n = new
      BY <2>1, <2>2, <3>1, <3>2 DEF Written
    <3>3. CASE n # new
      <4>1. n \in segs /\ dels'[n] = dels[n]
        BY <2>1, <3>3 DEF Written
      <4> QED
        BY <3>1, <4>1 DEF OnlyTheLastLost
    <3> QED
      BY <3>2, <3>3
  <2> QED
    BY <2>3, <2>4
<1>2. CASE UNCHANGED <<segs, docs, dels>>
  BY <1>2 DEF OnlyTheLastLost
<1> QED
  BY <1>1, <1>2 DEF Next, vars, Begin, Optimize, MergeSegment, Optimized, Prepare, Commit,
     Abandon, AddDoc, AddIndex, DeleteByTerm

\* Through all sessions and merges, and at every size of a segment: the count
\* in segmeta.json exceeds the bits of the deletions file by one document at
\* most, and that is the last one of a segment whose documents fill their
\* bytes (DefDelWriter_finish, DefDelReader_read_deletions).
THEOREM AtMostTheLastLost ==
  ASSUME OptimizeLast
  PROVE  Spec => []OnlyTheLastLost
<1>1. Init => OnlyTheLastLost
  BY DEF Init, OnlyTheLastLost
<1> QED
  BY <1>1, InitRight, StepRight, LostStep, PTL DEF Spec

\* No merge takes a deletion back: a newer file for a segment says all that the
\* older ones do, and more (S_zap_segment).
THEOREM DeletionsStay ==
  ASSUME OptimizeLast
  PROVE  Spec /\ []Roomy => []DeletionsGrow
<1>1. Counting => DeletionsGrow
  BY DEF Counting
<1> QED
  BY <1>1, InitRight, StepRight, CountsInit, CountsStep, PTL DEF Spec

-----------------------------------------------------------------------------
(* The bag of documents                                                     *)

\* Where document d is to be found.
Places(d, S, f, gone, N) ==
    {x \in S \X N : x[2] \in DOMAIN f[x[1]] \ gone[x[1]] /\ f[x[1]][x[2]] = d}
Somewhere(d, S, f, gone) == \E s \in S : \E i \in DOMAIN f[s] \ gone[s] : f[s][i] = d

Found(b) == IF b THEN 1 ELSE 0

\* Documents in numbered places, each in one place only, are found once or not
\* at all.
LEMMA Once ==
  ASSUME NEW S, NEW f, NEW gone, NEW d, NEW N,
         \A s \in S : DOMAIN f[s] \subseteq N,
         \A s, t \in S : \A i \in DOMAIN f[s], j \in DOMAIN f[t] :
            f[s][i] = f[t][j] => s = t /\ i = j
  PROVE  Cardinality(Places(d, S, f, gone, N)) = Found(Somewhere(d, S, f, gone))
<1> DEFINE found == Places(d, S, f, gone, N)
<1>1. CASE Somewhere(d, S, f, gone)
  <2>1. PICK s \in S : \E i \in DOMAIN f[s] \ gone[s] : f[s][i] = d
    BY <1>1 DEF Somewhere
  <2>2. PICK i \in DOMAIN f[s] \ gone[s] : f[s][i] = d
    BY <2>1
  <2>3. <<s, i>> \in found
    BY <2>1, <2>2 DEF Places
  <2>4. ASSUME NEW x \in found PROVE x = <<s, i>>
    <3>1. x[1] \in S /\ x[2] \in DOMAIN f[x[1]] /\ f[x[1]][x[2]] = d /\ x = <<x[1], x[2]>>
      BY DEF Places
    <3>2. x[1] = s /\ x[2] = i
      BY <2>1, <2>2, <3>1
    <3> QED
      BY <3>1, <3>2
  <2> HIDE DEF found
  <2>5. found = {<<s, i>>}
    BY <2>3, <2>4
  <2>6. Cardinality(found) = 1
    BY <2>5, FS_Singleton
  <2> QED
    BY <1>1, <2>6 DEF found, Found
<1>2. CASE ~Somewhere(d, S, f, gone)
  <2>1. found = {}
    BY <1>2 DEF Places, Somewhere
  <2>2. Cardinality({}) = 0
    BY FS_EmptySet
  <2> QED
    BY <1>2, <2>1, <2>2 DEF Found
<1> QED
  BY <1>1, <1>2

\* Which documents are in the index, and which would be if the session
\* committed now.
InIndex(d) == \E s \in segs : \E i \in DOMAIN docs[s] \ Deleted(s) : docs[s][i] = d
InNew(d) == \E i \in DOMAIN job.new : job.new[i] = d
InOld(d) == \E s \in segs \ job.merged : \E i \in DOMAIN docs[s] \ job.bits[s] : docs[s][i] = d

InPending(d) == IF job.pc = "closed" THEN InIndex(d) ELSE InNew(d) \/ InOld(d)

Bags ==
    /\ OfIndex = [d \in Doc |-> Found(InIndex(d))]
    /\ (IF job.pc = "closed" THEN OfIndex ELSE OfSession) = [d \in Doc |-> Found(InPending(d))]

LEMMA BagsAre == Stored /\ Working => Bags
<1> SUFFICES ASSUME Stored, Working PROVE Bags
  OBVIOUS
<1>1. ASSUME NEW S \in SUBSET segs, NEW gone, NEW d
      PROVE  Copies(d, S, gone) = Found(Somewhere(d, S, docs, gone))
  <2>1. \A s \in S : DOMAIN docs[s] \subseteq DocId
    BY NumberIs
  <2>2. \A s, t \in S : \A i \in DOMAIN docs[s], j \in DOMAIN docs[t] :
            docs[s][i] = docs[t][j] => s = t /\ i = j
    BY DEF Stored
  <2>3. Cardinality(Places(d, S, docs, gone, DocId)) = Found(Somewhere(d, S, docs, gone))
    BY <2>1, <2>2, Once
  <2> QED
    BY <2>3 DEF Copies, Places
<1>2. ASSUME NEW d
      PROVE  Copies(d, segs, [s \in Seg |-> Deleted(s)]) = Found(InIndex(d))
  <2> DEFINE gone == [s \in Seg |-> Deleted(s)]
  <2>1. \A s \in segs : gone[s] = Deleted(s)
    BY SegIs
  <2> HIDE DEF gone
  <2>2. Copies(d, segs, gone) = Found(Somewhere(d, segs, docs, gone))
    BY <1>1
  <2>3. Somewhere(d, segs, docs, gone) <=> InIndex(d)
    BY <2>1 DEF Somewhere, InIndex
  <2>4. Copies(d, segs, gone) = Found(InIndex(d))
    BY <2>2, <2>3 DEF Found
  <2> QED
    BY <2>4 DEF gone
<1>3. ASSUME NEW d
      PROVE  Cardinality({i \in DOMAIN job.new : job.new[i] = d}) = Found(InNew(d))
  <2>1. CASE InNew(d)
    <3>1. PICK i \in DOMAIN job.new : job.new[i] = d
      BY <2>1 DEF InNew
    <3>2. {j \in DOMAIN job.new : job.new[j] = d} = {i}
      BY <3>1 DEF Working, IsInjective
    <3>3. Cardinality({i}) = 1
      BY FS_Singleton
    <3> QED
      BY <2>1, <3>2, <3>3 DEF Found
  <2>2. CASE ~InNew(d)
    <3>1. {j \in DOMAIN job.new : job.new[j] = d} = {} /\ Cardinality({}) = 0
      BY <2>2, FS_EmptySet DEF InNew
    <3> QED
      BY <2>2, <3>1 DEF Found
  <2> QED
    BY <2>1, <2>2
<1>4. ASSUME NEW d
      PROVE  Copies(d, segs \ job.merged, job.bits) = Found(InOld(d))
  <2>1. segs \ job.merged \in SUBSET segs
    OBVIOUS
  <2> QED
    BY <1>1, <2>1 DEF InOld, Somewhere
<1>5. ASSUME NEW d, InNew(d) PROVE ~InOld(d)
  BY <1>5 DEF InNew, InOld, Working
<1>6. ASSUME NEW d
      PROVE  Cardinality({i \in DOMAIN job.new : job.new[i] = d})
               + Copies(d, segs \ job.merged, job.bits) = Found(InNew(d) \/ InOld(d))
  BY <1>3, <1>4, <1>5 DEF Found
<1>7. OfIndex = [d \in Doc |-> Found(InIndex(d))]
  BY <1>2 DEF OfIndex
<1>8. OfSession = [d \in Doc |-> Found(InNew(d) \/ InOld(d))]
  BY <1>6 DEF OfSession
<1> QED
  BY <1>7, <1>8 DEF Bags, InPending

\* What a step of the session does to them: it leaves them, it adds the
\* documents of D, or it takes the committed ones that a term is in.
IndexSame == \A d \in Doc : InIndex(d)' <=> InIndex(d)
Same == IndexSame /\ \A d \in Doc : InPending(d)' <=> InPending(d)
Adds(D) ==
    /\ IndexSame
    /\ \A d \in D : ~InPending(d)
    /\ \A d \in Doc : InPending(d)' <=> InPending(d) \/ d \in D
Drops(t) ==
    /\ IndexSame
    /\ \A d \in Doc : InPending(d)' <=> InPending(d) /\ ~(Has(d, t) /\ InIndex(d))
Returns == IndexSame /\ \A d \in Doc : InPending(d)' <=> InIndex(d)
Publishes == \A d \in Doc : /\ InIndex(d)' <=> InPending(d)
                            /\ InPending(d)' <=> InPending(d)

LEMMA IndexIsSame ==
  ASSUME UNCHANGED <<segs, docs, dels>>
  PROVE  IndexSame
BY DEF IndexSame, InIndex, Deleted, FileFor

LEMMA BeginBag ==
  ASSUME Stored, Working, Begin
  PROVE  Returns
<1> DEFINE bits == [s \in Seg |-> IF s \in segs THEN Deleted(s) ELSE {}]
<1>1. /\ UNCHANGED <<segs, docs, dels>> /\ job' = [Closed EXCEPT !.pc = "open", !.bits = bits]
  BY DEF Begin, Working
<1>2. \A s \in segs : bits[s] = Deleted(s)
  BY SegIs
<1> HIDE DEF bits
<1>3. job'.pc = "open" /\ job'.bits = bits /\ job'.merged = {} /\ job'.new = NoDocs
  BY <1>1 DEF Closed
<1>4. ASSUME NEW d PROVE InPending(d)' <=> InIndex(d)
  <2>1. ~InNew(d)'
    BY <1>3, ClosedIs DEF InNew
  <2>2. InOld(d)' <=> InIndex(d)
    BY <1>1, <1>2, <1>3 DEF InOld, InIndex
  <2>3. InPending(d)' <=> InNew(d)' \/ InOld(d)'
    BY <1>3 DEF InPending
  <2> QED
    BY <2>1, <2>2, <2>3
<1> QED
  BY <1>1, <1>4, IndexIsSame DEF Returns

LEMMA AbandonBag ==
  ASSUME Abandon
  PROVE  Returns
<1>1. UNCHANGED <<segs, docs, dels>> /\ job'.pc = "closed"
  BY ClosedIs DEF Abandon
<1>2. IndexSame
  BY <1>1, IndexIsSame
<1> QED
  BY <1>1, <1>2 DEF Returns, IndexSame, InPending

\* Steps that change nothing of what is in the session.
LEMMA QuietBag ==
  ASSUME UNCHANGED <<segs, docs, dels>>, job.pc # "closed", job'.pc # "closed",
         job'.bits = job.bits, job'.new = job.new, job'.merged = job.merged
  PROVE  Same
<1>1. IndexSame
  BY IndexIsSame
<1>2. ASSUME NEW d PROVE InPending(d)' <=> InPending(d)
  BY DEF InPending, InNew, InOld
<1> QED
  BY <1>1, <1>2 DEF Same

LEMMA NotingBag ==
  ASSUME Working, Optimize \/ Optimized \/ Prepare
  PROVE  Same
<1>0. Members
  BY DEF Working
<1>1. CASE Optimize
  <2>1. /\ UNCHANGED <<segs, docs, dels>> /\ job.pc # "closed" /\ job'.pc # "closed"
        /\ job'.bits = job.bits /\ job'.new = job.new /\ job'.merged = job.merged
    BY <1>0, <1>1 DEF Optimize, Usable, Members, IsJob
  <2> QED
    BY <2>1, QuietBag
<1>2. CASE Optimized
  <2>1. /\ UNCHANGED <<segs, docs, dels>> /\ job.pc # "closed" /\ job'.pc # "closed"
        /\ job'.bits = job.bits /\ job'.new = job.new /\ job'.merged = job.merged
    BY <1>0, <1>2 DEF Optimized, Members, IsJob
  <2> QED
    BY <2>1, QuietBag
<1>3. CASE Prepare
  <2>1. PICK M : job' = [job EXCEPT !.pc = "merging", !.todo = M]
    BY <1>3 DEF Prepare
  <2>2. /\ UNCHANGED <<segs, docs, dels>> /\ job.pc # "closed" /\ job'.pc # "closed"
        /\ job'.bits = job.bits /\ job'.new = job.new /\ job'.merged = job.merged
    BY <1>0, <1>3, <2>1 DEF Prepare, Members, IsJob
  <2> QED
    BY <2>2, QuietBag
<1> QED
  BY <1>1, <1>2, <1>3

\* Documents that were never added are new to the session.
LEMMA NewBag ==
  ASSUME Stored, Working, NEW D, D \cap added = {},
         UNCHANGED <<segs, docs, dels>>, job.pc # "closed", job'.pc # "closed",
         job'.bits = job.bits, job'.merged = job.merged,
         \A d \in Doc : InNew(d)' <=> InNew(d) \/ d \in D
  PROVE  Adds(D)
<1>1. IndexSame
  BY IndexIsSame
<1>2. ASSUME NEW d \in Doc PROVE InPending(d)' <=> InPending(d) \/ d \in D
  <2>1. InOld(d)' <=> InOld(d)
    BY DEF InOld
  <2> QED
    BY <2>1 DEF InPending
<1>3. ASSUME NEW d \in D PROVE ~InPending(d)
  <2>1. d \notin added
    OBVIOUS
  <2>2. ~InNew(d)
    <3>1. \A i \in DOMAIN job.new : job.new[i] \in added
      BY DEF Working
    <3> QED
      BY <2>1, <3>1 DEF InNew
  <2>3. ~InOld(d)
    <3>1. \A s \in segs : \A i \in DOMAIN docs[s] : docs[s][i] \in added
      BY DEF Stored
    <3> QED
      BY <2>1, <3>1 DEF InOld
  <2> QED
    BY <2>2, <2>3 DEF InPending
<1> QED
  BY <1>1, <1>2, <1>3 DEF Adds

LEMMA AddDocBag ==
  ASSUME Stored, Working, NEW e \in Doc, AddDoc(e)
  PROVE  Adds({e})
<1> DEFINE n == job.count + 1
           f == [i \in DOMAIN job.new \cup {n} |-> IF i = n THEN e ELSE job.new[i]]
<1>1. /\ UNCHANGED <<segs, docs, dels>> /\ e \notin added /\ job.pc = "open"
      /\ job' = [job EXCEPT !.new = f, !.count = n]
  BY DEF AddDoc, Usable, Working, Members, IsJob
<1>2. /\ job'.pc = "open" /\ job'.bits = job.bits /\ job'.merged = job.merged /\ job'.new = f
  BY <1>1 DEF Working, Members, IsJob
<1>3. n \notin DOMAIN job.new
  BY DEF Working, Members
<1>4. \A d \in Doc : InNew(d)' <=> InNew(d) \/ d \in {e}
  BY <1>2, <1>3 DEF InNew
<1> HIDE DEF f, n
<1>5. {e} \cap added = {}
  BY <1>1
<1> QED
  BY <1>1, <1>2, <1>4, <1>5, NewBag

LEMMA AddIndexBag ==
  ASSUME Stored, Working, NEW d \in Doc, NEW e \in Doc, NEW D \in SUBSET {d, e}, AddIndex(d, e, D)
  PROVE  Adds(D)
<1> DEFINE source == Pair(d, e)
           gone == {i \in 1..2 : source[i] \notin D}
<1>1. /\ UNCHANGED <<segs, docs, dels>> /\ job.pc = "open"
      /\ d \notin added /\ e \notin added
      /\ job' = WithSegment(job, source, gone)
  BY DEF AddIndex, Usable, Pair
<1>2. source \in [1..2 -> Doc] /\ source[1] = d /\ source[2] = e
  BY DEF Pair
<1>3. \A x : (\E i \in (1..2) \ gone : source[i] = x) <=> x \in D
  <2>1. 1..2 = {1, 2}
    OBVIOUS
  <2> HIDE DEF source
  <2> QED
    BY <1>2, <2>1
<1> HIDE DEF source, gone
<1>4. PICK n \in Nat, f \in Lists :
            /\ WithSegment(job, source, gone) = [job EXCEPT !.new = f, !.count = n]
            /\ Joins(f, n, job.new, source, (1..2) \ gone)
  BY <1>2, Takes DEF Working
<1>5. /\ job'.pc = "open" /\ job'.bits = job.bits /\ job'.merged = job.merged /\ job'.new = f
  BY <1>1, <1>4 DEF Working, Members, IsJob
<1>6. DOMAIN f = 1..n
  BY <1>4 DEF Joins
<1>7. \A x \in Doc : InNew(x)' <=> InNew(x) \/ x \in D
  BY <1>3, <1>4, <1>5, <1>6 DEF InNew, Joins
<1>8. D \cap added = {}
  BY <1>1
<1> QED
  BY <1>1, <1>5, <1>7, <1>8, NewBag

\* Only documents that were committed before the session have the term taken
\* from them, and all of those.
LEMMA DeleteBag ==
  ASSUME OptimizeLast, Stored, Working, Counting, NEW t \in Term, DeleteByTerm(t)
  PROVE  Drops(t)
<1> DEFINE bits == [s \in Seg |-> IF s \in segs THEN job.bits[s] \cup Matches(s, t)
                                  ELSE job.bits[s]]
           updated == job.updated \cup {s \in segs : ~(Matches(s, t) \subseteq job.bits[s])}
<1>1. job.pc = "open" /\ job.merged = {} /\ UNCHANGED <<segs, docs, dels>>
  BY UsableIs DEF DeleteByTerm
<1>2. job' = [job EXCEPT !.bits = bits, !.updated = updated]
  BY DEF DeleteByTerm, Working, Members, IsJob
<1>3. \A s \in segs : bits[s] = job.bits[s] \cup Matches(s, t)
  BY SegIs
<1> HIDE DEF bits, updated
<1>4. job'.pc = "open" /\ job'.bits = bits /\ job'.new = job.new /\ job'.merged = {}
  BY <1>1, <1>2 DEF Working, Members, IsJob
<1>5. ASSUME NEW d \in Doc
      PROVE  InPending(d)' <=> InPending(d) /\ ~(Has(d, t) /\ InIndex(d))
  <2>1. InOld(d)' <=> InOld(d) /\ ~Has(d, t)
    <3>1. InOld(d)' <=> \E s \in segs : \E i \in DOMAIN docs[s] \ (job.bits[s] \cup Matches(s, t)) :
                           docs[s][i] = d
      BY <1>1, <1>3, <1>4 DEF InOld
    <3>2. \A s \in segs : \A i \in DOMAIN docs[s] : docs[s][i] = d =>
             (i \in Matches(s, t) <=> Has(d, t))
      BY DEF Matches
    <3>3. InOld(d) <=> \E s \in segs : \E i \in DOMAIN docs[s] \ job.bits[s] : docs[s][i] = d
      BY <1>1 DEF InOld
    <3>4. ASSUME InOld(d)' PROVE InOld(d) /\ ~Has(d, t)
      BY <3>1, <3>2, <3>3, <3>4
    <3>5. ASSUME InOld(d), ~Has(d, t) PROVE InOld(d)'
      BY <3>1, <3>2, <3>3, <3>5
    <3> QED
      BY <3>4, <3>5
  <2>2. InOld(d) => InIndex(d)
    <3>1. \A s \in segs : Deleted(s) \subseteq job.bits[s]
      BY <1>1 DEF Counting, Marked
    <3> QED
      BY <1>1, <3>1 DEF InOld, InIndex
  <2>3. InNew(d) => ~InIndex(d)
    BY <1>1 DEF InNew, InIndex, Working
  <2>4. InNew(d)' <=> InNew(d)
    BY <1>4 DEF InNew
  <2>5. /\ InPending(d) <=> InNew(d) \/ InOld(d)
        /\ InPending(d)' <=> InNew(d)' \/ InOld(d)'
    BY <1>1, <1>4 DEF InPending
  <2> QED
    BY <2>1, <2>2, <2>3, <2>4, <2>5
<1>6. IndexSame
  BY <1>1, IndexIsSame
<1> QED
  BY <1>5, <1>6 DEF Drops

\* A merge moves documents from a segment to the new one.
LEMMA MergeBag ==
  ASSUME Stored, Working, MergeSegment
  PROVE  Same
<1>1. Members /\ job.pc \in {"optimizing", "merging"}
  BY DEF MergeSegment, Working
<1>2. UNCHANGED <<segs, docs, dels>>
  BY DEF MergeSegment
<1>3. PICK n \in job.todo :
          job' = [WithSegment(job, docs[n], job.bits[n]) EXCEPT
                    !.todo = @ \ {n},
                    !.merged = @ \cup {n},
                    !.updated = @ \cup Orphaned(n)]
  BY DEF MergeSegment
<1>4. n \in segs /\ n \notin job.merged
  BY <1>1 DEF Members
<1> DEFINE source == docs[n]
           max == Cardinality(DOMAIN source)
           gone == job.bits[n]
<1>5. max \in Nat /\ source \in [1..max -> Doc] /\ DOMAIN source = 1..max
  BY <1>4, SegIs, SizeIs
<1>6. \A d : (\E i \in DOMAIN docs[n] \ job.bits[n] : docs[n][i] = d)
                <=> \E i \in DOMAIN source \ gone : source[i] = d
  OBVIOUS
<1>7. job' = [WithSegment(job, source, gone) EXCEPT
                    !.todo = @ \ {n},
                    !.merged = @ \cup {n},
                    !.updated = @ \cup Orphaned(n)]
  BY <1>3
<1> HIDE DEF source, max, gone
<1>8. PICK c \in Nat, f \in Lists :
            /\ WithSegment(job, source, gone) = [job EXCEPT !.new = f, !.count = c]
            /\ Joins(f, c, job.new, source, (1..max) \ gone)
  BY <1>1, <1>5, Takes
<1>9. /\ job'.pc = job.pc /\ job'.bits = job.bits /\ job'.new = f
      /\ job'.merged = job.merged \cup {n}
  BY <1>1, <1>7, <1>8 DEF Members, IsJob
<1>10. DOMAIN f = 1..c
  BY <1>8 DEF Joins
<1>11. ASSUME NEW d PROVE InPending(d)' <=> InPending(d)
  <2> DEFINE InIt == \E i \in DOMAIN docs[n] \ job.bits[n] : docs[n][i] = d
  <2>1. InNew(d)' <=> InNew(d) \/ InIt
    <3>1. (\E j \in 1..c : f[j] = d) <=> InNew(d) \/ \E i \in DOMAIN source \ gone : source[i] = d
      BY <1>5, <1>8 DEF Joins, InNew
    <3>2. InNew(d)' <=> \E j \in 1..c : f[j] = d
      BY <1>9, <1>10 DEF InNew
    <3> QED
      BY <1>6, <3>1, <3>2
  <2>2. InOld(d) <=> InOld(d)' \/ InIt
    <3>1. segs \ job.merged = (segs \ job'.merged) \cup {n}
      BY <1>4, <1>9
    <3>2. InOld(d)' <=> \E s \in segs \ job'.merged :
                           \E i \in DOMAIN docs[s] \ job.bits[s] : docs[s][i] = d
      BY <1>2, <1>9 DEF InOld
    <3> QED
      BY <3>1, <3>2 DEF InOld
  <2>3. job.pc # "closed" /\ job'.pc # "closed"
    BY <1>1, <1>9
  <2> QED
    BY <2>1, <2>2, <2>3 DEF InPending
<1>12. IndexSame
  BY <1>2, IndexIsSame
<1> QED
  BY <1>11, <1>12 DEF Same

\* Newest, of all segments of the snapshot.
Newests == \A s \in segs :
    \/ FileFor(s) = NoFile /\ \A n \in segs : dels[n][s] = NoFile
    \/ \E h \in segs : /\ FileFor(s) = dels[h][s] /\ dels[h][s] # NoFile
                       /\ \A n \in segs : dels[n][s] # NoFile => n <= h

LEMMA NewestsAre == Stored => Newests
<1>1. Stored => segs \subseteq 1..session /\ session \in Nat
  BY DeletionsAssumption DEF Stored
<1> QED
  BY <1>1, Newest DEF Newests

\* After a commit the files say what the Indexer knew.
LEMMA Reads ==
  ASSUME Stored, Working, Counting, Roomy, job.pc # "closed",
         NEW new, Written(new, Finished), Stored', Newests'
  PROVE  /\ Deleted(new)' = {}
         /\ \A s \in segs \ job.merged : Deleted(s)' = job.bits[s]
<1> DEFINE files == Finished
<1>0. Written(new, files)
  OBVIOUS
<1>1. \A s \in segs :
         /\ s \in job.updated /\ ~job.optimized
               => files[s].count = Cardinality(job.bits[s]) /\ files[s].bits = job.bits[s]
         /\ ~(s \in job.updated /\ ~job.optimized) => files[s] = NoFile
  BY FinishedIs
<1> HIDE DEF files
<1>2. /\ segs' = (segs \ job.merged) \cup {new} /\ segs \subseteq Seg
      /\ dels'[new] = files /\ new \in Seg
      /\ \A s \in segs \ job.merged : dels'[s] = dels[s]
  BY <1>0 DEF Written
<1>3. new \in Nat /\ \A s \in segs : s \in Nat /\ s < new
  BY <1>0 DEF Written, Seg
<1>4. NoFile.bits = {}
  BY DEF NoFile
<1>5. \A s \in segs' :
         \/ FileFor(s)' = NoFile /\ \A n \in segs' : dels'[n][s] = NoFile
         \/ \E h \in segs' : /\ FileFor(s)' = dels'[h][s] /\ dels'[h][s] # NoFile
                             /\ \A n \in segs' : dels'[n][s] # NoFile => n <= h
  BY DEF Newests, NoFile
<1>6. \A s : Deleted(s)' = FileFor(s)'.bits
  BY DEF Deleted
<1>7. Deleted(new)' = {}
  <2>1. ASSUME NEW n \in segs' PROVE dels'[n][new] = NoFile
    <3>1. dels'[n][new] # NoFile => new < n
      BY <1>2 DEF Stored, Seg, NoFile
    <3>2. CASE n = new
      BY <1>3, <3>1, <3>2
    <3>3. CASE n # new
      <4>1. n \in Nat /\ n < new
        BY <1>2, <1>3, <3>3
      <4> QED
        BY <1>3, <3>1, <4>1
    <3> QED
      BY <3>2, <3>3
  <2>2. FileFor(new)' = NoFile
    BY <1>2, <1>5, <2>1
  <2> QED
    BY <1>4, <1>6, <2>2
<1>8. ASSUME NEW s \in segs \ job.merged PROVE Deleted(s)' = job.bits[s]
  <2>1. s \in segs' /\ dels'[new][s] = files[s] /\ new \in segs'
    BY <1>2
  <2>2. Marked(job, s)
    BY DEF Counting
  <2>3. ~job.optimized
    BY DEF Working
  <2>4. CASE s \in job.updated
    <3>1. files[s].bits = job.bits[s] /\ job.bits[s] # {}
      BY <1>1, <2>2, <2>3, <2>4 DEF Marked
    <3>2. dels'[new][s] # NoFile
      BY <1>4, <2>1, <3>1
    <3>3. PICK h \in segs' : FileFor(s)' = dels'[h][s] /\ new <= h
      BY <1>5, <2>1, <3>2
    <3>4. h = new
      BY <1>2, <1>3, <3>3
    <3> QED
      BY <1>6, <2>1, <3>1, <3>3, <3>4
  <2>5. CASE s \notin job.updated
    <3>1. /\ files[s] = NoFile /\ job.bits[s] = Deleted(s)
          /\ \A n \in job.merged : dels[n][s] # NoFile => dels[n][s].count # DelCount(s)
      BY <1>1, <2>2, <2>5 DEF Marked
    <3>2. \A n \in segs' : dels'[n][s] # NoFile => n \in segs \ job.merged /\ dels'[n][s] = dels[n][s]
      BY <1>2, <2>1, <3>1
    <3>3. \/ FileFor(s) = NoFile /\ \A n \in segs : dels[n][s] = NoFile
          \/ \E h \in segs : /\ FileFor(s) = dels[h][s] /\ dels[h][s] # NoFile
                             /\ \A n \in segs : dels[n][s] # NoFile => n <= h
      BY NewestsAre DEF Newests
    <3>4. CASE FileFor(s) = NoFile /\ \A n \in segs : dels[n][s] = NoFile
      <4>1. FileFor(s)' = NoFile
        BY <1>5, <2>1, <3>2, <3>4
      <4> QED
        BY <1>6, <3>1, <3>4, <4>1 DEF Deleted
    <3>5. ASSUME NEW h \in segs, FileFor(s) = dels[h][s], dels[h][s] # NoFile,
                 \A n \in segs : dels[n][s] # NoFile => n <= h
          PROVE  Deleted(s)' = job.bits[s]
      <4>1. h \notin job.merged
        BY <3>1, <3>5 DEF DelCount
      <4>2. h \in segs' /\ dels'[h][s] = dels[h][s]
        BY <1>2, <4>1
      <4>3. PICK g \in segs' : /\ FileFor(s)' = dels'[g][s] /\ dels'[g][s] # NoFile
                               /\ \A n \in segs' : dels'[n][s] # NoFile => n <= g
        BY <1>5, <2>1, <3>5, <4>2
      <4>4. g \in segs /\ g <= h /\ h <= g
        BY <3>2, <3>5, <4>2, <4>3
      <4>5. g = h
        BY <1>3, <4>4
      <4> QED
        BY <1>6, <3>1, <3>5, <4>2, <4>3, <4>5 DEF Deleted
    <3> QED
      BY <3>3, <3>4, <3>5
  <2> QED
    BY <2>4, <2>5
<1> QED
  BY <1>7, <1>8

LEMMA CommitBag ==
  ASSUME Stored, Working, Counting, Roomy, Commit, Stored', Newests'
  PROVE  Publishes
<1>1. job.pc = "merging" /\ job'.pc = "closed"
  BY ClosedIs DEF Commit
<1>2. CASE NeedsCommit
  <2>1. PICK new : Written(new, Finished)
    BY <1>2, Commits
  <2>2. Deleted(new)' = {} /\ \A s \in segs \ job.merged : Deleted(s)' = job.bits[s]
    BY <1>1, <2>1, Reads
  <2>3. /\ segs' = (segs \ job.merged) \cup {new} /\ docs'[new] = job.new
        /\ \A s \in segs \ job.merged : docs'[s] = docs[s]
    BY <2>1 DEF Written
  <2>4. ASSUME NEW d PROVE InIndex(d)' <=> InNew(d) \/ InOld(d)
    <3>1. InIndex(d)' <=> \E s \in segs' : \E i \in DOMAIN docs'[s] \ Deleted(s)' : docs'[s][i] = d
      BY DEF InIndex
    <3>2. (\E i \in DOMAIN docs'[new] \ Deleted(new)' : docs'[new][i] = d) <=> InNew(d)
      BY <2>2, <2>3 DEF InNew
    <3>3. (\E s \in segs \ job.merged : \E i \in DOMAIN docs'[s] \ Deleted(s)' : docs'[s][i] = d)
             <=> InOld(d)
      BY <2>2, <2>3 DEF InOld
    <3> QED
      BY <2>3, <3>1, <3>2, <3>3
  <2> QED
    BY <1>1, <2>4 DEF Publishes, InPending
<1>3. CASE ~NeedsCommit
  <2>1. job.count = 0 /\ job.merged = {} /\ job.updated = {} /\ UNCHANGED <<segs, docs, dels>>
    BY <1>3 DEF NeedsCommit, Commit
  <2>2. \A s \in segs : job.bits[s] = Deleted(s)
    BY <1>1, <2>1 DEF Counting, Marked
  <2>3. \A d : ~InNew(d)
    BY <2>1 DEF InNew, Working, Members
  <2>4. \A d : InOld(d) <=> InIndex(d)
    BY <2>1, <2>2 DEF InOld, InIndex
  <2>5. \A d \in Doc : InIndex(d)' <=> InIndex(d)
    BY <2>1, IndexIsSame DEF IndexSame
  <2> QED
    BY <1>1, <2>3, <2>4, <2>5 DEF Publishes, InPending
<1> QED
  BY <1>2, <1>3

LEMMA BagInit == Stored /\ Working /\ Init => C!Init
<1> SUFFICES ASSUME Stored, Working, Init PROVE C!Init
  OBVIOUS
<1>1. Bags
  BY BagsAre
<1>2. job.pc = "closed" /\ segs = {}
  BY ClosedIs DEF Init
<1>3. \A d : ~InIndex(d)
  BY <1>2 DEF InIndex
<1>4. OfIndex = [d \in Doc |-> 0]
  BY <1>1, <1>3 DEF Bags, Found
<1> QED
  BY <1>2, <1>4 DEF C!Init, C!Empty

\* Each of those is a step of the bag.
LEMMA BagStep ==
  OptimizeLast =>
    (Stored /\ Working /\ Counting /\ Roomy /\ Bags /\ Stored' /\ Newests' /\ Bags' /\ [Next]_vars
       => [C!Next]_(C!vars))
<1> SUFFICES ASSUME OptimizeLast, Stored, Working, Counting, Roomy, Bags, Stored', Newests', Bags',
                    [Next]_vars
             PROVE  [C!Next]_(C!vars)
  OBVIOUS
<1> DEFINE pending == IF job.pc = "closed" THEN OfIndex ELSE OfSession
           pendingN == IF job'.pc = "closed" THEN OfIndex' ELSE OfSession'
<1>1. /\ OfIndex = [d \in Doc |-> Found(InIndex(d))]
      /\ OfIndex' = [d \in Doc |-> Found(InIndex(d)')]
      /\ pending = [d \in Doc |-> Found(InPending(d))]
      /\ pendingN = [d \in Doc |-> Found(InPending(d)')]
  BY DEF Bags, Found
<1>2. IndexSame => OfIndex' = OfIndex
  BY <1>1 DEF IndexSame, Found
<1>3. CASE Same
  <2>1. OfIndex' = OfIndex /\ pendingN = pending
    BY <1>1, <1>2, <1>3 DEF Same, Found
  <2> QED
    BY <2>1 DEF C!vars
<1>4. CASE Returns
  <2>1. OfIndex' = OfIndex /\ pendingN = OfIndex
    BY <1>1, <1>2, <1>4 DEF Returns, Found
  <2> QED
    BY <2>1 DEF C!Next, C!Begin
<1>5. CASE Publishes
  <2>1. OfIndex' = pending /\ pendingN = pending
    BY <1>1, <1>5 DEF Publishes, Found
  <2> QED
    BY <2>1 DEF C!Next, C!Commit
<1>6. ASSUME NEW D \in SUBSET Doc, Adds(D) PROVE [C!Next]_(C!vars)
  <2>1. OfIndex' = OfIndex
    BY <1>2, <1>6 DEF Adds
  <2>2. ASSUME NEW d \in Doc
        PROVE  Found(InPending(d)') = IF d \in D THEN pending[d] + 1 ELSE pending[d]
    BY <1>1, <1>6 DEF Adds, Found
  <2>3. pendingN = [d \in Doc |-> IF d \in D THEN pending[d] + 1 ELSE pending[d]]
    BY <1>1, <2>2
  <2> QED
    BY <2>1, <2>3 DEF C!Next, C!Add
<1>7. ASSUME NEW t \in Term, Drops(t) PROVE [C!Next]_(C!vars)
  <2>1. OfIndex' = OfIndex
    BY <1>2, <1>7 DEF Drops
  <2>2. ASSUME NEW d \in Doc
        PROVE  Found(InPending(d)') = IF Has(d, t) /\ OfIndex[d] > 0 THEN 0 ELSE pending[d]
    BY <1>1, <1>7 DEF Drops, Found
  <2>3. pendingN = [d \in Doc |-> IF Has(d, t) /\ OfIndex[d] > 0 THEN 0 ELSE pending[d]]
    BY <1>1, <2>2
  <2> QED
    BY <2>1, <2>3 DEF C!Next, C!Delete
<1>8. CASE UNCHANGED vars
  <2>1. IndexSame
    BY <1>8, IndexIsSame DEF vars
  <2>2. \A d : InPending(d)' <=> InPending(d)
    BY <1>8 DEF vars, InPending, InIndex, InNew, InOld, Deleted, FileFor
  <2> QED
    BY <1>3, <2>1, <2>2 DEF Same
<1>9. CASE Begin \/ Abandon
  BY <1>4, <1>9, BeginBag, AbandonBag
<1>10. CASE Optimize \/ Optimized \/ Prepare \/ MergeSegment
  BY <1>3, <1>10, NotingBag, MergeBag
<1>11. CASE Commit
  BY <1>5, <1>11, CommitBag
<1>12. ASSUME NEW d \in Doc, AddDoc(d) PROVE [C!Next]_(C!vars)
  BY <1>6, <1>12, AddDocBag
<1>13. ASSUME NEW d \in Doc, NEW e \in Doc, NEW D \in SUBSET {d, e}, AddIndex(d, e, D)
       PROVE  [C!Next]_(C!vars)
  BY <1>6, <1>13, AddIndexBag
<1>14. ASSUME NEW t \in Term, DeleteByTerm(t) PROVE [C!Next]_(C!vars)
  BY <1>7, <1>14, DeleteBag
<1> QED
  BY <1>8, <1>9, <1>10, <1>11, <1>12, <1>13, <1>14 DEF Next

\* Merging, renumbering and deletions files are invisible: an index is a bag
\* of documents, changed when a session commits.
THEOREM IndexImplements ==
  ASSUME OptimizeLast
  PROVE  Spec /\ []Roomy => CollectionSpec
<1>1. Spec /\ []Roomy => [](Stored /\ Working /\ Counting /\ Bags /\ Newests)
  BY InitRight, StepRight, CountsInit, CountsStep, BagsAre, NewestsAre, PTL DEF Spec
<1>2. Spec => C!Init
  BY InitRight, BagInit, PTL DEF Spec
<1> QED
  BY <1>1, <1>2, BagStep, PTL DEF Spec, CollectionSpec, C!Spec
=============================================================================
