------------------------ MODULE CompoundFilesProofs ------------------------
(* CompoundFiles.tla for any number of files of any length, any alignment   *)
(* and any number of deaths.                                                *)
EXTENDS CompoundFiles, FiniteSetTheorems, WellFoundedInduction, TLAPS

Byte == (AllNames \cup {""}) \X Nat
Contents == UNION {[S -> Seq(Byte)] : S \in SUBSET AllNames}
Entry == [offset : Nat, length : Nat]

-----------------------------------------------------------------------------
(* Sequences and least elements                                             *)

LEMMA Least ==
  ASSUME NEW S \in SUBSET Nat, S # {}
  PROVE  \E m \in S : \A n \in S : m <= n
<1>1. IsWellFoundedOn(OpToRel(<, Nat), Nat)
  BY NatLessThanWellFounded
<1>2. PICK m \in S : \A n \in S : <<n, m>> \notin OpToRel(<, Nat)
  BY <1>1, WFMin
<1>3. \A n \in S : ~ (n < m)
  BY <1>2 DEF OpToRel
<1> QED
  BY <1>3

LEMMA SliceIs ==
  ASSUME NEW S, NEW s \in Seq(S), NEW a \in Nat, NEW b \in Nat, a + b <= Len(s)
  PROVE  /\ SubSeq(s, a + 1, a + b) \in Seq(S) /\ Len(SubSeq(s, a + 1, a + b)) = b
         /\ \A i \in 1..b : SubSeq(s, a + 1, a + b)[i] = s[a + i]
OBVIOUS

LEMMA SliceSame ==
  ASSUME NEW S, NEW s \in Seq(S), NEW a \in Nat, NEW t \in Seq(S), a + Len(t) <= Len(s),
         \A i \in 1..Len(t) : s[a + i] = t[i]
  PROVE  SubSeq(s, a + 1, a + Len(t)) = t
<1> DEFINE slice == SubSeq(s, a + 1, a + Len(t))
<1>1. Len(t) \in Nat
  OBVIOUS
<1>2. /\ slice \in Seq(S) /\ Len(slice) = Len(t)
      /\ \A i \in 1..Len(t) : slice[i] = s[a + i]
  BY <1>1, SliceIs
<1> HIDE DEF slice
<1>3. slice = t
  BY <1>1, <1>2
<1> QED
  BY <1>3 DEF slice

LEMMA Joined ==
  ASSUME NEW S, NEW s \in Seq(S), NEW t \in Seq(S), NEW u \in Seq(S)
  PROVE  /\ s \o t \o u \in Seq(S) /\ Len(s \o t \o u) = Len(s) + Len(t) + Len(u)
         /\ \A i \in 1..Len(s) : (s \o t \o u)[i] = s[i]
         /\ \A i \in 1..Len(t) : (s \o t \o u)[Len(s) + i] = t[i]
OBVIOUS

LEMMA SetToSeqIs ==
  ASSUME NEW S, IsFiniteSet(S)
  PROVE  /\ SetToSeq(S) \in Seq(S)
         /\ \A i, j \in DOMAIN SetToSeq(S) : SetToSeq(S)[i] = SetToSeq(S)[j] => i = j
         /\ \A x \in S : \E i \in DOMAIN SetToSeq(S) : SetToSeq(S)[i] = x
<1> DEFINE N == 1..Cardinality(S)
           s == SetToSeq(S)
<1>1. Cardinality(S) \in Nat /\ Bijection(N, S) # {}
  BY FS_CardinalityType DEF ExistsBijection
<1>2. \E f \in [N -> S] : IsInjective(f)
  BY <1>1 DEF Bijection, Injection
<1>3. s \in [N -> S] /\ IsInjective(s)
  BY <1>2 DEF SetToSeq
<1>4. IsFiniteSet(N) /\ Cardinality(N) = Cardinality(S)
  <2>1. 1 \in Int /\ Cardinality(S) \in Int
    BY <1>1
  <2> QED
    BY <1>1, <2>1, FS_Interval
<1> HIDE DEF s
<1>5. s \in Surjection(N, S)
  <2>1. s \in Injection(N, S)
    BY <1>3 DEF Injection
  <2> QED
    BY <1>4, <2>1, FS_Injection
<1>6. \A x \in S : \E i \in N : s[i] = x
  BY <1>5 DEF Surjection
<1>7. s \in Seq(S) /\ DOMAIN s = N
  BY <1>1, <1>3
<1> QED
  BY <1>3, <1>6, <1>7 DEF IsInjective, s

\* The files to be packed, each once.
LEMMA DataFilesAre ==
  ASSUME Parameters
  PROVE  /\ DataFiles \in Seq(Names)
         /\ \A i, j \in DOMAIN DataFiles : DataFiles[i] = DataFiles[j] => i = j
         /\ \A n \in Names : \E i \in DOMAIN DataFiles : DataFiles[i] = n
BY SetToSeqIs DEF Parameters, DataFiles

-----------------------------------------------------------------------------
(* What is packed                                                           *)

NothingPacked == [entries |-> <<>>, bytes |-> <<>>, len |-> 0]

\* A file's turn, if there is one of that name.
Turn(files, out, n) == IF n \in DOMAIN files THEN Absorb(out, n, files[n]) ELSE out

\* The files named in S have had their turn: they are there with their bytes.
Holds(out, files, S) ==
    /\ out.bytes \in Seq(Byte) /\ out.len = Len(out.bytes)
    /\ out.entries \in [DOMAIN files \cap S -> Entry]
    /\ \A n \in DOMAIN files \cap S :
          LET e == out.entries[n]
          IN  /\ e.length = Len(files[n]) /\ e.offset + e.length <= out.len
              /\ SubSeq(out.bytes, e.offset + 1, e.offset + e.length) = files[n]

LEMMA FillerIs ==
  ASSUME Parameters, NEW len \in Nat
  PROVE  [i \in 1..(Align - (len % Align)) % Align |-> Filler] \in Seq(Byte)
<1>1. Align \in Nat /\ Align > 0
  BY DEF Parameters
<1>2. len % Align \in 0..(Align - 1)
  BY <1>1
<1>3. Align - (len % Align) \in Nat
  BY <1>1, <1>2
<1>4. (Align - (len % Align)) % Align \in Nat
  BY <1>1, <1>3
<1>5. Filler \in Byte
  BY DEF Filler, Byte
<1> QED
  BY <1>4, <1>5

LEMMA TurnHolds ==
  ASSUME Parameters, NEW files \in Contents, NEW out, NEW S, NEW n \in Names,
         Holds(out, files, S), n \notin S
  PROVE  Holds(Turn(files, out, n), files, S \cup {n})
<1> DEFINE bytes == files[n]
           filler == [i \in 1..(Align - (Len(bytes) % Align)) % Align |-> Filler]
           all == out.bytes \o bytes \o filler
           entry == [offset |-> out.len, length |-> Len(bytes)]
           table == With(out.entries, n, entry)
           after == Turn(files, out, n)
<1>1. CASE n \notin DOMAIN files
  <2>1. after = out /\ DOMAIN files \cap (S \cup {n}) = DOMAIN files \cap S
    BY <1>1 DEF Turn
  <2> QED
    BY <2>1 DEF Holds
<1>2. CASE n \in DOMAIN files
  <2>1. bytes \in Seq(Byte) /\ Len(bytes) \in Nat /\ out.bytes \in Seq(Byte)
        /\ out.len = Len(out.bytes) /\ out.len \in Nat
    BY <1>2 DEF Contents, Holds
  <2>2. filler \in Seq(Byte) /\ Len(filler) \in Nat
    <3>1. filler \in Seq(Byte)
      BY <2>1, FillerIs
    <3> HIDE DEF filler
    <3> QED
      BY <3>1
  <2>3. /\ after.bytes = all /\ after.entries = table
        /\ after.len = out.len + Len(bytes) + Len(filler)
    BY <1>2 DEF Turn, Absorb
  <2> HIDE DEF bytes, filler, after
  <2>4. /\ all \in Seq(Byte) /\ Len(all) = out.len + Len(bytes) + Len(filler)
        /\ \A i \in 1..out.len : all[i] = out.bytes[i]
        /\ \A i \in 1..Len(bytes) : all[out.len + i] = bytes[i]
    BY <2>1, <2>2, Joined
  <2> HIDE DEF all
  <2>5. table \in [DOMAIN files \cap (S \cup {n}) -> Entry]
    <3>1. entry \in Entry
      BY <2>1 DEF Entry
    <3>2. out.entries \in [DOMAIN files \cap S -> Entry]
      BY DEF Holds
    <3>3. table = [m \in DOMAIN out.entries \cup {n} |-> IF m = n THEN entry ELSE out.entries[m]]
      BY DEF With
    <3>4. DOMAIN out.entries \cup {n} = DOMAIN files \cap (S \cup {n})
      BY <1>2, <3>2
    <3> HIDE DEF table, entry
    <3> QED
      BY <3>1, <3>2, <3>3, <3>4
  <2>6. table[n] = entry /\ \A m \in DOMAIN files \cap S : table[m] = out.entries[m]
    <3>1. table = [m \in DOMAIN out.entries \cup {n} |-> IF m = n THEN entry ELSE out.entries[m]]
      BY DEF With
    <3>2. out.entries \in [DOMAIN files \cap S -> Entry]
      BY DEF Holds
    <3> HIDE DEF table, entry
    <3> QED
      BY <3>1, <3>2
  <2>7. SubSeq(all, out.len + 1, out.len + Len(bytes)) = bytes
    <3>1. out.len + Len(bytes) <= Len(all)
      BY <2>1, <2>2, <2>4
    <3> QED
      BY <2>1, <2>4, <3>1, SliceSame
  <2>8. ASSUME NEW m \in DOMAIN files \cap S
        PROVE  LET e == table[m]
               IN  /\ e.length = Len(files[m]) /\ e.offset + e.length <= Len(all)
                   /\ SubSeq(all, e.offset + 1, e.offset + e.length) = files[m]
    <3> DEFINE e == out.entries[m]
    <3>1. /\ e \in Entry /\ e.length = Len(files[m]) /\ e.offset + e.length <= out.len
          /\ SubSeq(out.bytes, e.offset + 1, e.offset + e.length) = files[m]
      BY DEF Holds
    <3>2. files[m] \in Seq(Byte) /\ e.offset \in Nat /\ e.length \in Nat
      BY <3>1 DEF Contents, Entry
    <3> HIDE DEF e
    <3>3. \A i \in 1..e.length : files[m][i] = out.bytes[e.offset + i]
      <4>1. /\ e.offset + e.length <= Len(out.bytes)
            /\ SubSeq(out.bytes, e.offset + 1, e.offset + e.length) = files[m]
        BY <2>1, <3>1 DEF e
      <4>2. \A i \in 1..e.length :
               SubSeq(out.bytes, e.offset + 1, e.offset + e.length)[i] = out.bytes[e.offset + i]
        BY <2>1, <3>2, <4>1, SliceIs
      <4> QED
        BY <4>1, <4>2
    <3>4. \A i \in 1..Len(files[m]) : all[e.offset + i] = files[m][i]
      <4> SUFFICES ASSUME NEW i \in 1..Len(files[m]) PROVE all[e.offset + i] = files[m][i]
        OBVIOUS
      <4>1. e.length = Len(files[m]) /\ e.offset + e.length <= out.len
        BY <3>1 DEF e
      <4>2. e.offset + i \in 1..out.len /\ i \in 1..e.length
        BY <2>1, <3>2, <4>1
      <4> QED
        BY <2>4, <3>3, <4>2
    <3>5. e.offset + Len(files[m]) <= Len(all)
      <4>1. e.length = Len(files[m]) /\ e.offset + e.length <= out.len
        BY <3>1 DEF e
      <4> QED
        BY <2>1, <2>2, <2>4, <3>2, <4>1
    <3>6. SubSeq(all, e.offset + 1, e.offset + Len(files[m])) = files[m]
      BY <2>4, <3>2, <3>4, <3>5, SliceSame
    <3> QED
      BY <2>6, <3>1, <3>5, <3>6 DEF e
  <2>9. ASSUME NEW m \in DOMAIN files \cap (S \cup {n})
        PROVE  LET e == table[m]
               IN  /\ e.length = Len(files[m]) /\ e.offset + e.length <= Len(all)
                   /\ SubSeq(all, e.offset + 1, e.offset + e.length) = files[m]
    <3>1. CASE m = n
      <4>1. table[n].offset = out.len /\ table[n].length = Len(bytes)
        BY <2>6
      <4>2. out.len + Len(bytes) <= Len(all)
        BY <2>1, <2>2, <2>4
      <4>3. files[n] = bytes
        BY DEF bytes
      <4> HIDE DEF table
      <4> QED
        BY <2>7, <3>1, <4>1, <4>2, <4>3
    <3>2. CASE m # n
      BY <2>8, <3>2
    <3> QED
      BY <3>1, <3>2
  <2> HIDE DEF table
  <2>10. Holds(after, files, S \cup {n})
    BY <2>3, <2>4, <2>5, <2>9 DEF Holds
  <2> QED
    BY <2>10 DEF after
<1> QED
  BY <1>1, <1>2

-----------------------------------------------------------------------------
\* Packed is what its recursive definition says.
FirstNames(n) == {DataFiles[i] : i \in 1..n}
PackedUpTo(f, files, n) ==
    f = [i \in 0..n |-> IF i = 0 THEN NothingPacked ELSE Turn(files, f[i - 1], DataFiles[i])]

LEMMA PackingExists ==
  ASSUME Parameters, NEW files
  PROVE  \A n \in 0..Len(DataFiles) : \E f : PackedUpTo(f, files, n)
<1> DEFINE bad == {n \in 0..Len(DataFiles) : ~ \E f : PackedUpTo(f, files, n)}
<1>1. SUFFICES ASSUME bad # {} PROVE FALSE
  OBVIOUS
<1>2. PICK n \in bad : \A k \in bad : n <= k
  <2>1. bad \in SUBSET Nat
    OBVIOUS
  <2> HIDE DEF bad
  <2> QED
    BY <1>1, <2>1, Least
<1>3. n \in 0..Len(DataFiles) /\ ~ \E f : PackedUpTo(f, files, n)
  OBVIOUS
<1>4. n # 0
  <2> DEFINE f == [i \in 0..0 |-> NothingPacked]
  <2>1. PackedUpTo(f, files, 0)
    BY DEF PackedUpTo
  <2> QED
    BY <1>3, <2>1
<1>5. n - 1 \in 0..Len(DataFiles) /\ n - 1 \notin bad
  <2>1. n - 1 \in 0..Len(DataFiles) /\ ~ (n <= n - 1)
    BY <1>3, <1>4, DataFilesAre
  <2> HIDE DEF bad
  <2> QED
    BY <1>2, <2>1
<1>6. PICK f : PackedUpTo(f, files, n - 1)
  BY <1>5
<1> DEFINE g == [i \in 0..n |-> IF i = n THEN Turn(files, f[n - 1], DataFiles[n]) ELSE f[i]]
<1> HIDE DEF bad
<1>7. n \in Nat /\ n > 0
  BY <1>3, <1>4, DataFilesAre
<1>8. \A i \in 0..(n - 1) : f[i] = IF i = 0 THEN NothingPacked ELSE Turn(files, f[i - 1], DataFiles[i])
  BY <1>6 DEF PackedUpTo
<1>9. \A i \in 0..n : g[i] = IF i = 0 THEN NothingPacked ELSE Turn(files, g[i - 1], DataFiles[i])
  BY <1>7, <1>8
<1>10. PackedUpTo(g, files, n)
  BY <1>9 DEF PackedUpTo
<1> QED
  BY <1>3, <1>10

\* Each file that is there is in the compound file with its bytes, and no other.
LEMMA PackedIs ==
  ASSUME Parameters, NEW files \in Contents
  PROVE  Holds(Packed(files), files, Names)
<1> DEFINE N == Len(DataFiles)
<1>1. N \in Nat /\ DOMAIN DataFiles = 1..N /\ \A i \in 1..N : DataFiles[i] \in Names
  BY DataFilesAre
<1>2. \E f : PackedUpTo(f, files, N)
  <2>1. N \in 0..N
    BY <1>1
  <2> QED
    BY <2>1, PackingExists
<1> DEFINE packed == CHOOSE g : PackedUpTo(g, files, N)
<1>3. PackedUpTo(packed, files, N)
  BY <1>2
<1>4. Packed(files) = packed[N]
  BY DEF Packed, PackedUpTo, Turn, NothingPacked
<1> HIDE DEF packed
<1>5. \A i \in 0..N : packed[i] = IF i = 0 THEN NothingPacked ELSE Turn(files, packed[i - 1], DataFiles[i])
  BY <1>3 DEF PackedUpTo
<1> DEFINE bad == {i \in 0..N : ~Holds(packed[i], files, FirstNames(i))}
<1>6. bad = {}
  <2> SUFFICES ASSUME bad # {} PROVE FALSE
    OBVIOUS
  <2>1. PICK i \in bad : \A k \in bad : i <= k
    <3>1. bad \in SUBSET Nat
      BY <1>1
    <3> HIDE DEF bad
    <3> QED
      BY <3>1, Least
  <2>2. i \in 0..N /\ ~Holds(packed[i], files, FirstNames(i))
    OBVIOUS
  <2>3. i # 0
    <3>1. FirstNames(0) = {}
      BY DEF FirstNames
    <3>2. packed[0] = NothingPacked
      BY <1>1, <1>5
    <3>3. Holds(NothingPacked, files, {})
      <4>1. <<>> \in Seq(Byte) /\ Len(<<>>) = 0
        OBVIOUS
      <4>2. <<>> \in [DOMAIN files \cap {} -> Entry]
        OBVIOUS
      <4> QED
        BY <4>1, <4>2 DEF Holds, NothingPacked
    <3> QED
      BY <2>2, <3>1, <3>2, <3>3
  <2>4. i - 1 \in 0..N /\ i \in 1..N /\ ~ (i <= i - 1)
    BY <1>1, <2>2, <2>3
  <2>5. Holds(packed[i - 1], files, FirstNames(i - 1))
    <3>1. i - 1 \notin bad
      <4> HIDE DEF bad
      <4> QED
        BY <2>1, <2>4
    <3> QED
      BY <2>4, <3>1
  <2>6. DataFiles[i] \in Names /\ DataFiles[i] \notin FirstNames(i - 1)
        /\ FirstNames(i - 1) \cup {DataFiles[i]} = FirstNames(i)
    BY <1>1, <2>4, DataFilesAre DEF FirstNames
  <2>7. Holds(Turn(files, packed[i - 1], DataFiles[i]), files, FirstNames(i - 1) \cup {DataFiles[i]})
    BY <2>5, <2>6, TurnHolds
  <2> QED
    BY <1>5, <2>2, <2>3, <2>6, <2>7
<1>7. Holds(packed[N], files, FirstNames(N))
  BY <1>1, <1>6
<1>8. FirstNames(N) = Names
  BY <1>1, DataFilesAre DEF FirstNames
<1> QED
  BY <1>4, <1>7, <1>8

-----------------------------------------------------------------------------
(* The invariant                                                            *)

Tables == UNION {[S -> Entry] : S \in SUBSET Names}
Caches == [state : {"none", "undef", "reader"}, entries : Tables, bytes : Seq(Byte)]
Labels == {"prepare", "stuck", "write", "finish", "spew", "rename", "close", "unlink", "done",
           "purge", "last", "broken"}

TypeOK ==
    /\ self \in [pc : Labels, written : Contents, files : Contents,
                 dat : Seq(Seq(Byte)), meta : Seq(Tables), temp : BOOLEAN, dir : BOOLEAN,
                 out : Seq(Byte), cache : [Folders -> Caches], gone : SUBSET AllNames, deaths : Nat]
    /\ seen \in SUBSET Labels

\* What the compound file is to be, or is; and what there is of it at a time.
Whole == Packed(self.written)
Begun(k) == SubSeq(Whole.bytes, 1, k)
Remaining(k) == SubSeq(Whole.bytes, k + 1, Whole.len)

\* A reader of the compound file that has lost some of its files.
ReaderOf(bytes, lost) ==
    [state |-> "reader", bytes |-> bytes,
     entries |-> [n \in DOMAIN Whole.entries \ lost |-> Whole.entries[n]]]

\* The real files.  Before a session has written its last one they are all it
\* has written; once they have been packed only segmeta.json is left.
FilesInv ==
    /\ self.pc = "write" => /\ SegMeta \notin DOMAIN self.files
                            /\ DOMAIN self.files # {} => self.written = self.files
    /\ self.pc \in {"finish", "spew", "rename", "close"} => self.files = self.written
    /\ self.pc = "unlink" =>
          /\ SegMeta \in DOMAIN self.files
          /\ \A n \in DOMAIN self.files : n \in DOMAIN self.written /\ self.files[n] = self.written[n]
    /\ self.pc \in {"done", "purge"} /\ self.meta # <<>> =>
          self.files = [n \in {SegMeta} \ self.gone |-> self.written[n]]
    /\ self.pc \notin {"prepare", "stuck", "write"} => SegMeta \in DOMAIN self.written
    /\ self.pc \notin {"purge", "last", "broken"} => self.gone = {}

\* cf.dat and cfmeta.json.  Where there is metadata it is that of what was
\* written last, and there is data, but where a purge has just deleted it.
PackInv ==
    /\ self.pc # "prepare" => self.dir
    /\ self.pc \in {"write", "finish", "spew", "rename"} => self.meta = <<>>
    /\ self.pc \in {"close", "unlink", "done", "last", "broken"} => self.meta # <<>>
    /\ self.meta # <<>> => /\ self.dir /\ self.meta = <<Whole.entries>>
                           /\ IF self.pc \in {"last", "broken"} THEN self.dat = <<>>
                              ELSE \E k \in 0..Whole.len : self.dat = <<Begun(k)>>
    /\ self.pc \in {"spew", "rename", "close"} =>
          \E k \in 0..Whole.len : self.dat = <<Begun(k)>> /\ self.out = Remaining(k)
    /\ self.pc \in {"unlink", "done", "purge"} /\ self.meta # <<>> => self.dat = <<Whole.bytes>>

\* The writer's folder object looks for a reader when it begins and when it
\* purges.  While there are files to purge, what it remembers is either that it has not
\* looked or a reader of the whole that has lost what was deleted.
WriterInv ==
    LET mine == self.cache["writer"]
    IN  /\ self.pc = "prepare" => mine = NotLooked
        /\ self.pc \in {"done", "purge"} /\ self.meta = <<>> => mine.state # "reader"
        /\ self.pc \in {"done", "purge"} /\ self.meta # <<>> =>
              \/ mine = NotLooked /\ self.gone \subseteq {SegMeta}
              \/ mine = ReaderOf(Whole.bytes, self.gone)

\* The other process has a reader only of a session that got as far as to
\* write metadata, after which no other session can begin; it may have mapped
\* cf.dat before it was whole.
ReaderInv ==
    \/ self.cache["reader"] = NotLooked
    \/ /\ self.pc \notin {"write", "finish", "spew", "rename"}
       /\ self.pc = "prepare" => self.meta # <<>>
       /\ \E k \in 0..Whole.len : self.cache["reader"] = ReaderOf(Begun(k), {})

CompoundInv ==
    /\ TypeOK /\ FilesInv /\ PackInv /\ WriterInv /\ ReaderInv
    /\ seen \subseteq {"last", "broken"}

-----------------------------------------------------------------------------
LEMMA WholeIs ==
  ASSUME Parameters, TypeOK
  PROVE  /\ Whole.bytes \in Seq(Byte) /\ Whole.len = Len(Whole.bytes) /\ Whole.len \in Nat
         /\ Whole.entries \in [DOMAIN self.written \cap Names -> Entry] /\ Whole.entries \in Tables
         /\ \A n \in DOMAIN self.written \cap Names :
               LET e == Whole.entries[n]
               IN  /\ e.offset \in Nat /\ e.length \in Nat /\ e.offset + e.length <= Whole.len
                   /\ e.length = Len(self.written[n])
                   /\ SubSeq(Whole.bytes, e.offset + 1, e.offset + e.length) = self.written[n]
<1>1. self.written \in Contents
  BY DEF TypeOK
<1>2. Holds(Whole, self.written, Names)
  BY <1>1, PackedIs DEF Whole
<1>3. /\ Whole.bytes \in Seq(Byte) /\ Whole.len = Len(Whole.bytes)
      /\ Whole.entries \in [DOMAIN self.written \cap Names -> Entry]
  BY <1>2 DEF Holds
<1>4. Whole.len \in Nat
  BY <1>3
<1>5. Whole.entries \in Tables
  BY <1>3 DEF Tables
<1>6. \A n \in DOMAIN self.written \cap Names :
         Whole.entries[n].offset \in Nat /\ Whole.entries[n].length \in Nat
  BY <1>3 DEF Entry
<1> QED
  BY <1>2, <1>3, <1>4, <1>5, <1>6 DEF Holds

\* What is in the file and what is not yet make the whole.
LEMMA PartsIs ==
  ASSUME Parameters, TypeOK, NEW k \in 0..Whole.len
  PROVE  /\ Begun(k) \in Seq(Byte) /\ Remaining(k) \in Seq(Byte) /\ Len(Begun(k)) = k
         /\ \A i \in 1..k : Begun(k)[i] = Whole.bytes[i]
         /\ Begun(k) \o Remaining(k) = Whole.bytes
         /\ Begun(Whole.len) = Whole.bytes
<1> DEFINE whole == Whole.bytes
           n == Whole.len
<1>1. whole \in Seq(Byte) /\ n = Len(whole) /\ n \in Nat /\ k \in Nat /\ k <= n
  BY WholeIs
<1> HIDE DEF whole, n
<1>2. /\ SubSeq(whole, 1, k) \in Seq(Byte) /\ Len(SubSeq(whole, 1, k)) = k
      /\ \A i \in 1..k : SubSeq(whole, 1, k)[i] = whole[i]
  BY <1>1
<1>3. /\ SubSeq(whole, k + 1, n) \in Seq(Byte) /\ Len(SubSeq(whole, k + 1, n)) = n - k
      /\ \A i \in 1..(n - k) : SubSeq(whole, k + 1, n)[i] = whole[k + i]
  BY <1>1
<1>4. SubSeq(whole, 1, k) \o SubSeq(whole, k + 1, n) = whole
  <2> DEFINE x == SubSeq(whole, 1, k)
             y == SubSeq(whole, k + 1, n)
  <2>1. /\ x \in Seq(Byte) /\ y \in Seq(Byte) /\ Len(x) = k /\ Len(y) = n - k
        /\ \A i \in 1..k : x[i] = whole[i]
        /\ \A i \in 1..(n - k) : y[i] = whole[k + i]
    BY <1>2, <1>3
  <2> HIDE DEF x, y
  <2>2. x \o y \in Seq(Byte) /\ Len(x \o y) = n
    BY <1>1, <2>1
  <2>3. \A i \in 1..n : (x \o y)[i] = whole[i]
    <3> SUFFICES ASSUME NEW i \in 1..n PROVE (x \o y)[i] = whole[i]
      OBVIOUS
    <3>1. CASE i \in 1..k
      BY <1>1, <2>1, <3>1
    <3>2. CASE i \notin 1..k
      <4>1. i - k \in 1..(n - k) /\ i = k + (i - k)
        BY <1>1, <3>2
      <4>2. (x \o y)[i] = y[i - k]
        BY <1>1, <2>1, <3>2
      <4> QED
        BY <2>1, <4>1, <4>2
    <3> QED
      BY <3>1, <3>2
  <2> DEFINE z == x \o y
  <2> HIDE DEF z
  <2>4. z = whole
    <3>1. z \in Seq(Byte) /\ Len(z) = n /\ \A i \in 1..n : z[i] = whole[i]
      BY <2>2, <2>3 DEF z
    <3> QED
      BY <1>1, <3>1
  <2> QED
    BY <2>4 DEF x, y, z
<1>5. SubSeq(whole, 1, n) = whole
  BY <1>1
<1> QED
  BY <1>2, <1>3, <1>4, <1>5 DEF whole, n, Begun, Remaining

\* A file that is within what was mapped is there with its bytes.
LEMMA PartHolds ==
  ASSUME Parameters, TypeOK, NEW k \in 0..Whole.len, NEW n \in DOMAIN self.written \cap Names
  PROVE  LET e == Whole.entries[n]
         IN  e.offset + e.length <= k =>
                SubSeq(Begun(k), e.offset + 1, e.offset + e.length) = self.written[n]
<1> DEFINE e == Whole.entries[n]
           t == self.written[n]
<1>1. /\ Whole.bytes \in Seq(Byte) /\ Whole.len \in Nat /\ Whole.len = Len(Whole.bytes)
      /\ e.offset \in Nat /\ e.length \in Nat /\ e.offset + e.length <= Whole.len /\ e.length = Len(t)
      /\ SubSeq(Whole.bytes, e.offset + 1, e.offset + e.length) = t
  BY WholeIs
<1>2. t \in Seq(Byte)
  BY DEF TypeOK, Contents
<1>3. /\ Begun(k) \in Seq(Byte) /\ Len(Begun(k)) = k /\ k \in Nat
      /\ \A i \in 1..k : Begun(k)[i] = Whole.bytes[i]
  BY <1>1, PartsIs
<1> HIDE DEF e, t
<1>4. ASSUME e.offset + e.length <= k
      PROVE  SubSeq(Begun(k), e.offset + 1, e.offset + e.length) = t
  <2>1. \A i \in 1..e.length :
           SubSeq(Whole.bytes, e.offset + 1, e.offset + e.length)[i] = Whole.bytes[e.offset + i]
    <3> DEFINE whole == Whole.bytes
               o == e.offset
               l == e.length
    <3>1. o + l <= Len(whole) /\ whole \in Seq(Byte) /\ o \in Nat /\ l \in Nat
      BY <1>1
    <3> HIDE DEF whole, o, l
    <3>2. \A i \in 1..l : SubSeq(whole, o + 1, o + l)[i] = whole[o + i]
      BY <3>1, SliceIs
    <3> QED
      BY <3>2 DEF whole, o, l
  <2>2. \A i \in 1..Len(t) : Begun(k)[e.offset + i] = t[i]
    <3> SUFFICES ASSUME NEW i \in 1..Len(t) PROVE Begun(k)[e.offset + i] = t[i]
      OBVIOUS
    <3>1. i \in 1..e.length /\ e.offset + i \in 1..k
      BY <1>1, <1>3, <1>4
    <3> QED
      BY <1>1, <1>3, <2>1, <3>1
  <2>3. e.offset + Len(t) <= Len(Begun(k))
    BY <1>1, <1>3, <1>4
  <2>4. SubSeq(Begun(k), e.offset + 1, e.offset + Len(t)) = t
    BY <1>1, <1>2, <1>3, <2>2, <2>3, SliceSame
  <2> QED
    BY <1>1, <2>4
<1> QED
  BY <1>4 DEF e, t

LEMMA WithIs ==
  ASSUME Parameters, NEW files \in Contents, NEW n \in AllNames, NEW len \in 1..MaxLength
  PROVE  /\ With(files, n, Content(n, len)) \in Contents
         /\ DOMAIN With(files, n, Content(n, len)) = DOMAIN files \cup {n}
<1> DEFINE bytes == Content(n, len)
           new == With(files, n, bytes)
<1>1. bytes \in Seq(Byte)
  <2>1. len \in Nat
    BY DEF Parameters
  <2>2. \A i \in 1..len : <<n, i>> \in Byte
    <3> SUFFICES ASSUME NEW i \in 1..len PROVE <<n, i>> \in Byte
      OBVIOUS
    <3>1. i \in Nat
      BY <2>1
    <3>2. n \in AllNames \cup {""}
      OBVIOUS
    <3> QED
      BY <3>1, <3>2 DEF Byte
  <2>3. bytes = [i \in 1..len |-> <<n, i>>]
    BY DEF Content
  <2> QED
    BY <2>1, <2>2, <2>3
<1> HIDE DEF bytes
<1>2. DOMAIN files \in SUBSET AllNames /\ files \in [DOMAIN files -> Seq(Byte)]
  BY DEF Contents
<1>3. new \in [DOMAIN files \cup {n} -> Seq(Byte)]
  BY <1>1, <1>2 DEF With
<1>4. DOMAIN files \cup {n} \in SUBSET AllNames
  BY <1>2
<1> HIDE DEF new
<1> QED
  BY <1>3, <1>4 DEF Contents, new, bytes

LEMMA WithoutIs ==
  ASSUME NEW n
  PROVE  /\ \A files \in Contents : Without(files, n) \in Contents
         /\ \A table \in Tables : Without(table, n) \in Tables
<1>1. \A files \in Contents : Without(files, n) \in [DOMAIN files \ {n} -> Seq(Byte)]
                              /\ DOMAIN files \ {n} \in SUBSET AllNames
  BY DEF Contents, Without
<1>2. \A table \in Tables : Without(table, n) \in [DOMAIN table \ {n} -> Entry]
                            /\ DOMAIN table \ {n} \in SUBSET Names
  BY DEF Tables, Without
<1>3. \A files \in Contents : Without(files, n) \in Contents
  <2> SUFFICES ASSUME NEW files \in Contents PROVE Without(files, n) \in Contents
    OBVIOUS
  <2> DEFINE S == DOMAIN files \ {n}
  <2>1. S \in SUBSET AllNames /\ Without(files, n) \in [S -> Seq(Byte)]
    BY <1>1
  <2> HIDE DEF S
  <2> QED
    BY <2>1 DEF Contents
<1>4. \A table \in Tables : Without(table, n) \in Tables
  <2> SUFFICES ASSUME NEW table \in Tables PROVE Without(table, n) \in Tables
    OBVIOUS
  <2> DEFINE S == DOMAIN table \ {n}
  <2>1. S \in SUBSET Names /\ Without(table, n) \in [S -> Entry]
    BY <1>2
  <2> HIDE DEF S
  <2> QED
    BY <2>1 DEF Tables
<1> QED
  BY <1>3, <1>4

-----------------------------------------------------------------------------
(* Steps                                                                    *)

LEMMA TablesRestrict ==
  ASSUME Parameters, TypeOK, NEW lost, NEW bytes \in Seq(Byte)
  PROVE  ReaderOf(bytes, lost) \in Caches
<1> DEFINE S == DOMAIN Whole.entries \ lost
           table == [n \in S |-> Whole.entries[n]]
<1>1. S \in SUBSET Names /\ table \in [S -> Entry]
  BY WholeIs
<1>2. table \in Tables
  <2> HIDE DEF S, table
  <2> QED
    BY <1>1 DEF Tables
<1> HIDE DEF table
<1> QED
  BY <1>2 DEF ReaderOf, Caches, table, S

\* What a folder object has found after it has looked for a reader.
LEMMA LookedIs ==
  ASSUME Parameters, CompoundInv
  PROVE  /\ NotLooked \in Caches /\ Undef \in Caches
         /\ \A f \in Folders : Looked(f) \in Caches
         /\ self.pc = "prepare" =>
               Looked("writer").state = "reader" <=> self.meta # <<>>
         /\ self.pc \in {"done", "purge"} =>
               IF self.meta = <<>> THEN Looked("writer").state # "reader"
               ELSE Looked("writer") = ReaderOf(Whole.bytes, self.gone)
         /\ self.meta # <<>> /\ self.pc \notin {"last", "broken"} =>
               \E k \in 0..Whole.len : Looked("reader") = ReaderOf(Begun(k), {})
         /\ self.cache["reader"] # NotLooked => Looked("reader") = self.cache["reader"]
         /\ self.cache["reader"] # NotLooked => Looked("reader").state = "reader"
<1> USE DEF CompoundInv
<1>1. NotLooked \in Caches /\ Undef \in Caches
  <2>1. <<>> \in [{} -> Entry] /\ {} \in SUBSET Names /\ <<>> \in Seq(Byte)
    OBVIOUS
  <2>2. <<>> \in Tables
    BY <2>1 DEF Tables
  <2> QED
    BY <2>1, <2>2 DEF NotLooked, Undef, Caches
<1> DEFINE found == [state |-> "reader", entries |-> self.meta[1], bytes |-> self.dat[1]]
<1>2. ASSUME NEW f \in Folders
      PROVE  /\ self.cache[f] \in Caches /\ Looked(f) \in Caches
             /\ self.cache[f].state # "none" => Looked(f) = self.cache[f]
             /\ self.cache[f] = NotLooked =>
                   Looked(f) = IF self.dat # <<>> /\ self.meta # <<>> THEN found ELSE Undef
  <2>1. self.cache[f] \in Caches /\ self.meta \in Seq(Tables) /\ self.dat \in Seq(Seq(Byte))
    BY DEF TypeOK
  <2>2. CASE self.cache[f].state # "none"
    BY <2>1, <2>2 DEF Looked, NotLooked
  <2>3. CASE self.cache[f].state = "none"
    <3>1. Looked(f) = IF self.dat # <<>> /\ self.meta # <<>> THEN found ELSE Undef
      BY <2>3 DEF Looked
    <3>2. ASSUME self.dat # <<>>, self.meta # <<>> PROVE found \in Caches
      <4>1. self.dat[1] \in Seq(Byte) /\ self.meta[1] \in Tables
        BY <2>1, <3>2
      <4> QED
        BY <4>1 DEF Caches
    <3> HIDE DEF found
    <3> QED
      BY <1>1, <2>1, <2>3, <3>1, <3>2
  <2> QED
    BY <2>2, <2>3
<1>3. "writer" \in Folders /\ "reader" \in Folders
  BY DEF Folders
<1>4. Undef.state # "reader" /\ found.state = "reader" /\ NotLooked.state = "none"
  BY DEF Undef, NotLooked
<1>5. ASSUME self.meta # <<>>, self.pc \notin {"last", "broken"}
      PROVE  /\ self.dat # <<>>
             /\ \E k \in 0..Whole.len : self.dat = <<Begun(k)>> /\ found = ReaderOf(Begun(k), {})
  <2>1. PICK k \in 0..Whole.len : self.dat = <<Begun(k)>>
    BY <1>5 DEF PackInv
  <2>2. self.meta = <<Whole.entries>>
    BY <1>5 DEF PackInv
  <2>3. Whole.entries = [n \in DOMAIN Whole.entries \ {} |-> Whole.entries[n]]
    BY WholeIs
  <2>4. found = ReaderOf(Begun(k), {})
    BY <2>1, <2>2, <2>3 DEF ReaderOf
  <2> QED
    BY <2>1, <2>4
<1>6. self.pc = "prepare" => (Looked("writer").state = "reader" <=> self.meta # <<>>)
  <2>1. self.pc = "prepare" => self.cache["writer"] = NotLooked
    BY DEF WriterInv
  <2> HIDE DEF found
  <2> QED
    BY <1>2, <1>3, <1>4, <1>5, <2>1
<1>7. ASSUME self.pc \in {"done", "purge"}, self.meta = <<>>
      PROVE  Looked("writer").state # "reader"
  <2>1. self.cache["writer"].state # "reader"
    BY <1>7 DEF WriterInv
  <2>2. CASE self.cache["writer"].state # "none"
    BY <1>2, <1>3, <2>1, <2>2
  <2>3. CASE self.cache["writer"].state = "none"
    BY <1>4, <1>7, <2>3 DEF Looked
  <2> QED
    BY <2>2, <2>3
<1>8. ASSUME self.pc \in {"done", "purge"}, self.meta # <<>>
      PROVE  Looked("writer") = ReaderOf(Whole.bytes, self.gone)
  <2>1. CASE self.cache["writer"] = ReaderOf(Whole.bytes, self.gone)
    <3>1. self.cache["writer"].state # "none"
      BY <2>1 DEF ReaderOf
    <3> QED
      BY <1>2, <1>3, <2>1, <3>1
  <2>2. CASE self.cache["writer"] = NotLooked /\ self.gone \subseteq {SegMeta}
    <3>1. Looked("writer") = found
      BY <1>2, <1>3, <1>5, <1>8, <2>2
    <3>2. self.dat = <<Whole.bytes>> /\ self.meta = <<Whole.entries>>
      BY <1>8 DEF PackInv
    <3>3. DOMAIN Whole.entries \ self.gone = DOMAIN Whole.entries
      BY <2>2, WholeIs DEF Parameters
    <3>4. Whole.entries = [n \in DOMAIN Whole.entries |-> Whole.entries[n]]
      BY WholeIs
    <3>5. [n \in DOMAIN Whole.entries \ self.gone |-> Whole.entries[n]] = Whole.entries
      BY <3>3, <3>4
    <3>6. found = [state |-> "reader", bytes |-> Whole.bytes, entries |-> Whole.entries]
      BY <3>2
    <3> HIDE DEF found
    <3> QED
      BY <3>1, <3>5, <3>6 DEF ReaderOf
  <2> QED
    BY <1>8, <2>1, <2>2 DEF WriterInv
<1>9. self.cache["reader"] # NotLooked =>
         /\ self.cache["reader"].state = "reader" /\ Looked("reader") = self.cache["reader"]
         /\ \E k \in 0..Whole.len : self.cache["reader"] = ReaderOf(Begun(k), {})
  <2> SUFFICES ASSUME self.cache["reader"] # NotLooked
               PROVE  /\ self.cache["reader"].state = "reader"
                      /\ Looked("reader") = self.cache["reader"]
                      /\ \E k \in 0..Whole.len : self.cache["reader"] = ReaderOf(Begun(k), {})
    OBVIOUS
  <2>1. PICK k \in 0..Whole.len : self.cache["reader"] = ReaderOf(Begun(k), {})
    BY DEF ReaderInv
  <2>2. self.cache["reader"].state = "reader"
    BY <2>1 DEF ReaderOf
  <2> QED
    BY <1>2, <1>3, <2>1, <2>2
<1>10. ASSUME self.meta # <<>>, self.pc \notin {"last", "broken"}
       PROVE  \E k \in 0..Whole.len : Looked("reader") = ReaderOf(Begun(k), {})
  <2>1. CASE self.cache["reader"] # NotLooked
    BY <1>9, <2>1
  <2>2. CASE self.cache["reader"] = NotLooked
    <3>1. Looked("reader") = found
      BY <1>2, <1>3, <1>5, <1>10, <2>2
    <3> HIDE DEF found
    <3> QED
      BY <1>5, <1>10, <3>1
  <2> QED
    BY <2>1, <2>2
<1> HIDE DEF CompoundInv, found
<1>11. \A f \in Folders : Looked(f) \in Caches
  BY <1>2
<1> QED
  BY <1>1, <1>6, <1>7, <1>8, <1>9, <1>10, <1>11

LEMMA InitRight ==
  ASSUME Parameters, Init
  PROVE  CompoundInv
<1>1. <<>> \in [{} -> Seq(Byte)] /\ {} \in SUBSET AllNames /\ <<>> \in [{} -> Entry] /\ {} \in SUBSET Names
  OBVIOUS
<1>2. <<>> \in Contents /\ <<>> \in Tables
  BY <1>1 DEF Contents, Tables
<1>3. <<>> \in Seq(Byte) /\ <<>> \in Seq(Seq(Byte)) /\ <<>> \in Seq(Tables)
  OBVIOUS
<1>4. NotLooked \in Caches
  BY <1>2, <1>3 DEF NotLooked, Caches
<1>5. [f \in Folders |-> NotLooked] \in [Folders -> Caches]
  BY <1>4
<1>6. TypeOK
  BY <1>2, <1>3, <1>5 DEF Init, TypeOK, Labels
<1>7. /\ self.pc = "prepare" /\ self.meta = <<>> /\ self.gone = {} /\ seen = {}
      /\ self.cache["writer"] = NotLooked /\ self.cache["reader"] = NotLooked
  BY DEF Init, Folders
<1>8. FilesInv
  BY <1>7 DEF FilesInv
<1>9. PackInv
  BY <1>7 DEF PackInv
<1>10. WriterInv /\ ReaderInv
  BY <1>7 DEF WriterInv, ReaderInv
<1> QED
  BY <1>6, <1>7, <1>8, <1>9, <1>10 DEF CompoundInv

LEMMA WrittenSame ==
  ASSUME self'.written = self.written
  PROVE  /\ Whole' = Whole
         /\ \A k : Begun(k)' = Begun(k) /\ Remaining(k)' = Remaining(k)
         /\ \A bytes, lost : ReaderOf(bytes, lost)' = ReaderOf(bytes, lost)
BY DEF Whole, Begun, Remaining, ReaderOf

\* Steps after which the other process may have the reader that it had.
LEMMA ReaderStays ==
  ASSUME ReaderInv, self'.written = self.written, self'.cache["reader"] = self.cache["reader"],
         self'.pc \notin {"write", "finish", "spew", "rename"}
            \/ self.pc \in {"write", "finish", "spew", "rename"},
         self'.pc = "prepare" => self'.meta # <<>> \/ self.pc \in {"write", "finish", "spew", "rename"},
         self.pc = "prepare" /\ self.meta = <<>> => self'.pc \in {"write", "prepare"}
  PROVE  ReaderInv'
<1>1. CASE self.cache["reader"] = NotLooked
  BY <1>1 DEF ReaderInv, NotLooked
<1>2. CASE self.cache["reader"] # NotLooked
  <2>1. PICK k \in 0..Whole.len : self.cache["reader"] = ReaderOf(Begun(k), {})
    BY <1>2 DEF ReaderInv
  <2>2. Whole' = Whole /\ ReaderOf(Begun(k), {})' = ReaderOf(Begun(k), {})
    BY WrittenSame DEF ReaderOf, Begun
  <2>3. /\ self.pc \notin {"write", "finish", "spew", "rename"}
        /\ self.pc = "prepare" => self.meta # <<>>
    BY <1>2 DEF ReaderInv
  <2>4. /\ self'.pc \notin {"write", "finish", "spew", "rename"}
        /\ self'.pc = "prepare" => self'.meta # <<>>
    BY <2>3
  <2>5. \E l \in 0..Whole'.len : self'.cache["reader"] = ReaderOf(Begun(l), {})'
    BY <2>1, <2>2
  <2> QED
    BY <2>4, <2>5 DEF ReaderInv
<1> QED
  BY <1>1, <1>2

LEMMA PrepareKeeps ==
  ASSUME Parameters, CompoundInv, Prepare
  PROVE  CompoundInv'
<1> DEFINE reader == Looked("writer")
<1>1. /\ TypeOK /\ FilesInv /\ PackInv /\ WriterInv /\ ReaderInv /\ seen \subseteq {"last", "broken"}
      /\ self.pc = "prepare" /\ seen' = seen
  BY DEF CompoundInv, Prepare
<1>2. reader \in Caches /\ (reader.state = "reader" <=> self.meta # <<>>)
  BY <1>1, LookedIs DEF Folders
<1>3. self.gone = {} /\ (self.meta # <<>> => self.dir)
  BY <1>1 DEF FilesInv, PackInv
<1> HIDE DEF reader
<1>4. CASE self.meta # <<>>
  <2>1. self' = [self EXCEPT !.pc = "stuck", !.cache["writer"] = reader]
    BY <1>2, <1>3, <1>4 DEF Prepare, reader
  <2>2. TypeOK'
    BY <1>1, <1>2, <2>1 DEF TypeOK, Labels
  <2>3. /\ self'.pc = "stuck" /\ self'.written = self.written /\ self'.meta = self.meta
        /\ self'.dat = self.dat /\ self'.dir = self.dir /\ self'.gone = self.gone
        /\ self'.cache["reader"] = self.cache["reader"]
    BY <1>1, <2>1 DEF TypeOK, Folders
  <2>4. FilesInv'
    BY <1>3, <2>3 DEF FilesInv
  <2>5. PackInv'
    BY <1>1, <1>3, <1>4, <2>3, WrittenSame DEF PackInv
  <2>6. WriterInv'
    BY <2>3 DEF WriterInv
  <2>7. ReaderInv'
    BY <1>1, <1>4, <2>3, ReaderStays
  <2> QED
    BY <1>1, <2>2, <2>4, <2>5, <2>6, <2>7 DEF CompoundInv
<1>5. CASE self.meta = <<>>
  <2>1. self' = [self EXCEPT !.pc = "write", !.dir = TRUE, !.files = <<>>,
                             !.temp = FALSE, !.cache["writer"] = reader]
    BY <1>2, <1>5 DEF Prepare, reader
  <2>2. <<>> \in Contents /\ DOMAIN <<>> = {}
    <3>1. <<>> \in [{} -> Seq(Byte)] /\ {} \in SUBSET AllNames
      OBVIOUS
    <3> QED
      BY <3>1 DEF Contents
  <2>3. TypeOK'
    BY <1>1, <1>2, <2>1, <2>2 DEF TypeOK, Labels
  <2>4. /\ self'.pc = "write" /\ self'.written = self.written /\ self'.meta = self.meta
        /\ self'.files = <<>> /\ self'.dir = TRUE /\ self'.gone = self.gone
        /\ self'.cache["reader"] = self.cache["reader"]
    BY <1>1, <2>1 DEF TypeOK, Folders
  <2>5. FilesInv'
    BY <1>3, <2>2, <2>4 DEF FilesInv
  <2>6. PackInv'
    BY <1>5, <2>4 DEF PackInv
  <2>7. WriterInv'
    BY <2>4 DEF WriterInv
  <2>8. ReaderInv'
    BY <1>1, <1>5, <2>4 DEF ReaderInv, NotLooked
  <2> QED
    BY <1>1, <2>3, <2>5, <2>6, <2>7, <2>8 DEF CompoundInv
<1> QED
  BY <1>4, <1>5

LEMMA WriteFileKeeps ==
  ASSUME Parameters, CompoundInv, WriteFile
  PROVE  CompoundInv'
<1>1. /\ TypeOK /\ FilesInv /\ PackInv /\ WriterInv /\ ReaderInv /\ seen \subseteq {"last", "broken"}
      /\ self.pc = "write" /\ seen' = seen
  BY DEF CompoundInv, WriteFile
<1>2. PICK n \in AllNames \ DOMAIN self.files, len \in 1..MaxLength :
         self' = [self EXCEPT !.files = With(@, n, Content(n, len)),
                              !.written = With(self.files, n, Content(n, len)),
                              !.pc = IF n = SegMeta THEN "finish" ELSE "write"]
  BY DEF WriteFile
<1> DEFINE new == With(self.files, n, Content(n, len))
<1>3. new \in Contents /\ DOMAIN new = DOMAIN self.files \cup {n}
  BY <1>1, WithIs DEF TypeOK
<1> HIDE DEF new
<1>4. self' = [self EXCEPT !.files = new, !.written = new,
                           !.pc = IF n = SegMeta THEN "finish" ELSE "write"]
  BY <1>1, <1>2 DEF new, TypeOK
<1>5. TypeOK'
  BY <1>1, <1>3, <1>4 DEF TypeOK, Labels
<1>6. /\ self'.pc = IF n = SegMeta THEN "finish" ELSE "write"
      /\ self'.files = new /\ self'.written = new /\ self'.meta = self.meta /\ self'.dir = self.dir
      /\ self'.gone = self.gone /\ self'.cache = self.cache
  BY <1>1, <1>4 DEF TypeOK
<1>7. FilesInv'
  BY <1>1, <1>3, <1>6 DEF FilesInv
<1>8. PackInv'
  BY <1>1, <1>6 DEF PackInv
<1>9. WriterInv'
  BY <1>6 DEF WriterInv
<1>10. ReaderInv'
  BY <1>1, <1>6 DEF ReaderInv, NotLooked
<1> QED
  BY <1>1, <1>5, <1>7, <1>8, <1>9, <1>10 DEF CompoundInv

LEMMA ConsolidateKeeps ==
  ASSUME Parameters, CompoundInv, Consolidate
  PROVE  CompoundInv'
<1>1. /\ TypeOK /\ FilesInv /\ PackInv /\ WriterInv /\ ReaderInv /\ seen \subseteq {"last", "broken"}
      /\ self.pc = "finish" /\ seen' = seen /\ self.meta = <<>> /\ self.files = self.written
  BY DEF CompoundInv, Consolidate, FilesInv
<1>2. Packed(self.files) = Whole
  BY <1>1 DEF Whole
<1>3. PICK k \in 0..Whole.len :
         self' = [self EXCEPT !.pc = "spew", !.temp = FALSE, !.dat = <<Begun(k)>>,
                              !.out = Remaining(k),
                              !.cache["writer"] = IF self.dat # <<>> THEN NotLooked ELSE @]
  BY <1>2 DEF Consolidate, Begun, Remaining
<1>4. /\ Begun(k) \in Seq(Byte) /\ Remaining(k) \in Seq(Byte) /\ NotLooked \in Caches
  BY <1>1, PartsIs, LookedIs
<1>5. <<Begun(k)>> \in Seq(Seq(Byte))
  BY <1>4
<1> DEFINE d == <<Begun(k)>>
           o == Remaining(k)
<1>6. d \in Seq(Seq(Byte)) /\ o \in Seq(Byte)
      /\ self' = [self EXCEPT !.pc = "spew", !.temp = FALSE, !.dat = d, !.out = o,
                              !.cache["writer"] = IF self.dat # <<>> THEN NotLooked ELSE @]
  BY <1>3, <1>4, <1>5
<1> HIDE DEF d, o
<1>7. TypeOK'
  BY <1>1, <1>4, <1>6 DEF TypeOK, Labels
<1>8. /\ self'.pc = "spew" /\ self'.written = self.written /\ self'.meta = <<>> /\ self'.dat = d
      /\ self'.out = o /\ self'.dir = self.dir /\ self'.gone = self.gone /\ self'.files = self.files
      /\ self'.cache["reader"] = self.cache["reader"]
  BY <1>1, <1>6 DEF TypeOK, Folders
<1>9. FilesInv'
  BY <1>1, <1>8 DEF FilesInv
<1>10. PackInv'
  <2>1. self'.dat = <<Begun(k)'>> /\ self'.out = Remaining(k)' /\ k \in 0..Whole'.len
    BY <1>8, WrittenSame DEF d, o
  <2>2. self'.dir
    BY <1>1, <1>8 DEF PackInv
  <2> QED
    BY <1>8, <2>1, <2>2 DEF PackInv
<1>11. WriterInv'
  BY <1>8 DEF WriterInv
<1>12. ReaderInv'
  BY <1>1, <1>8, ReaderStays
<1> QED
  BY <1>1, <1>7, <1>9, <1>10, <1>11, <1>12 DEF CompoundInv

LEMMA SpewMetaKeeps ==
  ASSUME Parameters, CompoundInv, SpewMeta
  PROVE  CompoundInv'
<1>1. /\ TypeOK /\ FilesInv /\ PackInv /\ WriterInv /\ ReaderInv /\ seen \subseteq {"last", "broken"}
      /\ self.pc = "spew" /\ seen' = seen /\ self' = [self EXCEPT !.pc = "rename", !.temp = TRUE]
  BY DEF CompoundInv, SpewMeta
<1>2. TypeOK'
  BY <1>1 DEF TypeOK, Labels
<1>3. /\ self'.pc = "rename" /\ self'.written = self.written /\ self'.meta = self.meta
      /\ self'.dat = self.dat /\ self'.out = self.out /\ self'.dir = self.dir
      /\ self'.gone = self.gone /\ self'.files = self.files /\ self'.cache = self.cache
  BY <1>1 DEF TypeOK
<1>4. FilesInv'
  BY <1>1, <1>3 DEF FilesInv
<1>5. PackInv'
  BY <1>1, <1>3, WrittenSame DEF PackInv
<1>6. WriterInv'
  BY <1>3 DEF WriterInv
<1>7. ReaderInv'
  BY <1>1, <1>3, ReaderStays
<1> QED
  BY <1>1, <1>2, <1>4, <1>5, <1>6, <1>7 DEF CompoundInv

LEMMA RenameMetaKeeps ==
  ASSUME Parameters, CompoundInv, RenameMeta
  PROVE  CompoundInv'
<1>1. /\ TypeOK /\ FilesInv /\ PackInv /\ WriterInv /\ ReaderInv /\ seen \subseteq {"last", "broken"}
      /\ self.pc = "rename" /\ seen' = seen /\ self.files = self.written
  BY DEF CompoundInv, RenameMeta, FilesInv
<1> DEFINE m == <<Whole.entries>>
<1>2. m \in Seq(Tables) /\ m # <<>>
  <2>1. Whole.entries \in Tables
    BY <1>1, WholeIs
  <2> QED
    BY <2>1
<1>3. self' = [self EXCEPT !.pc = "close", !.temp = FALSE, !.meta = m]
  BY <1>1 DEF RenameMeta, Whole
<1>4. m = <<Whole.entries>>
  OBVIOUS
<1> HIDE DEF m
<1>5. TypeOK'
  BY <1>1, <1>2, <1>3 DEF TypeOK, Labels
<1>6. /\ self'.pc = "close" /\ self'.written = self.written /\ self'.meta = m
      /\ self'.dat = self.dat /\ self'.out = self.out /\ self'.dir = self.dir
      /\ self'.gone = self.gone /\ self'.files = self.files /\ self'.cache = self.cache
  BY <1>1, <1>3 DEF TypeOK
<1>7. FilesInv'
  BY <1>1, <1>6 DEF FilesInv
<1>8. PackInv'
  <2>1. PICK k \in 0..Whole.len : self.dat = <<Begun(k)>> /\ self.out = Remaining(k)
    BY <1>1 DEF PackInv
  <2>2. /\ Whole' = Whole /\ Begun(k)' = Begun(k) /\ Remaining(k)' = Remaining(k)
    BY <1>6, WrittenSame
  <2>3. self'.dat = <<Begun(k)'>> /\ self'.out = Remaining(k)' /\ k \in 0..Whole'.len
    BY <1>6, <2>1, <2>2
  <2>4. self'.dir /\ self'.meta = <<Whole.entries>>' /\ self'.meta # <<>>
    BY <1>1, <1>2, <1>4, <1>6, <2>2 DEF PackInv
  <2> QED
    BY <1>6, <2>3, <2>4 DEF PackInv
<1>9. WriterInv'
  BY <1>6 DEF WriterInv
<1>10. ReaderInv'
  BY <1>1, <1>6, ReaderStays
<1> QED
  BY <1>1, <1>5, <1>7, <1>8, <1>9, <1>10 DEF CompoundInv

LEMMA CloseDatKeeps ==
  ASSUME Parameters, CompoundInv, CloseDat
  PROVE  CompoundInv'
<1>1. /\ TypeOK /\ FilesInv /\ PackInv /\ WriterInv /\ ReaderInv /\ seen \subseteq {"last", "broken"}
      /\ self.pc = "close" /\ seen' = seen /\ self.files = self.written
      /\ SegMeta \in DOMAIN self.written
  BY DEF CompoundInv, CloseDat, FilesInv
<1>2. PICK k \in 0..Whole.len : self.dat = <<Begun(k)>> /\ self.out = Remaining(k)
  BY <1>1 DEF PackInv
<1> DEFINE d == <<Whole.bytes>>
<1>3. self' = [self EXCEPT !.pc = "unlink", !.dat = d, !.out = <<>>]
  <2>1. self.dat[1] \o self.out = Whole.bytes
    BY <1>1, <1>2, PartsIs
  <2> QED
    BY <2>1 DEF CloseDat
<1>4. d \in Seq(Seq(Byte)) /\ <<>> \in Seq(Byte)
  <2>1. Whole.bytes \in Seq(Byte)
    BY <1>1, WholeIs
  <2> QED
    BY <2>1
<1>5. Whole.len \in 0..Whole.len /\ Begun(Whole.len) = Whole.bytes
  <2>1. Whole.len \in 0..Whole.len
    BY <1>1, WholeIs
  <2> QED
    BY <1>1, <2>1, PartsIs
<1>6. d = <<Whole.bytes>>
  OBVIOUS
<1> HIDE DEF d
<1>7. TypeOK'
  BY <1>1, <1>3, <1>4 DEF TypeOK, Labels
<1>8. /\ self'.pc = "unlink" /\ self'.written = self.written /\ self'.meta = self.meta
      /\ self'.dat = d /\ self'.dir = self.dir
      /\ self'.gone = self.gone /\ self'.files = self.files /\ self'.cache = self.cache
  BY <1>1, <1>3 DEF TypeOK
<1>9. FilesInv'
  BY <1>1, <1>8 DEF FilesInv
<1>10. PackInv'
  <2>1. PICK w \in 0..Whole.len : w = Whole.len /\ Begun(w) = Whole.bytes
    BY <1>5
  <2>2. Whole' = Whole /\ Begun(w)' = Begun(w)
    BY <1>8, WrittenSame
  <2>3. self'.dat = <<Begun(w)'>> /\ w \in 0..Whole'.len
    BY <1>6, <1>8, <2>1, <2>2
  <2>4. self'.dat = <<Whole.bytes>>'
    BY <1>6, <1>8, <2>2
  <2>5. self'.dir /\ self'.meta = <<Whole.entries>>' /\ self'.meta # <<>>
    BY <1>1, <1>8, <2>2 DEF PackInv
  <2> QED
    BY <1>8, <2>3, <2>4, <2>5 DEF PackInv
<1>11. WriterInv'
  BY <1>8 DEF WriterInv
<1>12. ReaderInv'
  BY <1>1, <1>8, ReaderStays
<1> QED
  BY <1>1, <1>7, <1>9, <1>10, <1>11, <1>12 DEF CompoundInv

LEMMA UnlinkOriginalKeeps ==
  ASSUME Parameters, CompoundInv, UnlinkOriginal
  PROVE  CompoundInv'
<1>1. /\ TypeOK /\ FilesInv /\ PackInv /\ WriterInv /\ ReaderInv /\ seen \subseteq {"last", "broken"}
      /\ self.pc = "unlink" /\ seen' = seen
  BY DEF CompoundInv, UnlinkOriginal
<1>2. PICK n \in DOMAIN self.files \ {SegMeta} : self' = [self EXCEPT !.files = Without(@, n)]
  BY DEF UnlinkOriginal
<1> DEFINE fewer == Without(self.files, n)
<1>3. /\ fewer \in Contents /\ DOMAIN fewer = DOMAIN self.files \ {n}
      /\ \A m \in DOMAIN fewer : fewer[m] = self.files[m]
  BY <1>1, WithoutIs DEF TypeOK, Without
<1> HIDE DEF fewer
<1>4. self' = [self EXCEPT !.files = fewer]
  BY <1>1, <1>2 DEF TypeOK, fewer
<1>5. TypeOK'
  BY <1>1, <1>3, <1>4 DEF TypeOK
<1>6. /\ self'.pc = self.pc /\ self'.written = self.written /\ self'.meta = self.meta
      /\ self'.dat = self.dat /\ self'.dir = self.dir
      /\ self'.gone = self.gone /\ self'.files = fewer /\ self'.cache = self.cache
  BY <1>1, <1>4 DEF TypeOK
<1>7. FilesInv'
  BY <1>1, <1>2, <1>3, <1>6 DEF FilesInv
<1>8. PackInv'
  BY <1>1, <1>6, WrittenSame DEF PackInv
<1>9. WriterInv'
  BY <1>1, <1>6 DEF WriterInv
<1>10. ReaderInv'
  BY <1>1, <1>6, ReaderStays
<1> QED
  BY <1>1, <1>5, <1>7, <1>8, <1>9, <1>10 DEF CompoundInv

LEMMA FinishSegmentKeeps ==
  ASSUME Parameters, CompoundInv, FinishSegment
  PROVE  CompoundInv'
<1>1. /\ TypeOK /\ FilesInv /\ PackInv /\ WriterInv /\ ReaderInv /\ seen \subseteq {"last", "broken"}
      /\ self.pc = "unlink" /\ seen' = seen /\ DOMAIN self.files = {SegMeta}
      /\ self' = [self EXCEPT !.pc = "done", !.cache["writer"] = NotLooked]
  BY DEF CompoundInv, FinishSegment, Forgotten
<1>2. NotLooked \in Caches
  BY LookedIs
<1>3. TypeOK'
  BY <1>1, <1>2 DEF TypeOK, Labels
<1>4. /\ self'.pc = "done" /\ self'.written = self.written /\ self'.meta = self.meta
      /\ self'.dat = self.dat /\ self'.dir = self.dir
      /\ self'.gone = self.gone /\ self'.files = self.files
      /\ self'.cache["writer"] = NotLooked /\ self'.cache["reader"] = self.cache["reader"]
  BY <1>1 DEF TypeOK, Folders
<1>5. self.gone = {} /\ self.files = [n \in {SegMeta} \ self.gone |-> self.written[n]]
      /\ SegMeta \in DOMAIN self.written
  <2>1. self.gone = {} /\ SegMeta \in DOMAIN self.written
        /\ \A n \in DOMAIN self.files : self.files[n] = self.written[n]
    BY <1>1 DEF FilesInv
  <2>2. self.files = [n \in {SegMeta} |-> self.files[n]]
    BY <1>1 DEF TypeOK, Contents
  <2>3. [n \in {SegMeta} |-> self.files[n]] = [n \in {SegMeta} |-> self.written[n]]
    BY <1>1, <2>1
  <2>4. {SegMeta} \ self.gone = {SegMeta}
    BY <2>1
  <2> QED
    BY <2>1, <2>2, <2>3, <2>4
<1>6. FilesInv'
  BY <1>4, <1>5 DEF FilesInv
<1>7. PackInv'
  BY <1>1, <1>4, WrittenSame DEF PackInv
<1>8. WriterInv'
  BY <1>1, <1>4, <1>5 DEF WriterInv, PackInv
<1>9. ReaderInv'
  BY <1>1, <1>4, ReaderStays
<1> QED
  BY <1>1, <1>3, <1>6, <1>7, <1>8, <1>9 DEF CompoundInv

LEMMA DeleteKeeps ==
  ASSUME Parameters, CompoundInv, Delete
  PROVE  CompoundInv'
<1> DEFINE reader == Looked("writer")
           mine == self.cache["writer"]
<1>1. /\ TypeOK /\ FilesInv /\ PackInv /\ WriterInv /\ ReaderInv /\ seen \subseteq {"last", "broken"}
      /\ self.pc \in {"done", "purge"} /\ seen' = seen /\ SegMeta \in DOMAIN self.written /\ self.dir
  BY DEF CompoundInv, Delete, FilesInv, PackInv
<1>2. /\ reader \in Caches /\ mine \in Caches
      /\ IF self.meta = <<>> THEN reader.state # "reader" ELSE reader = ReaderOf(Whole.bytes, self.gone)
  BY <1>1, LookedIs DEF Folders, TypeOK
<1>3. PICK n \in DOMAIN self.written \ self.gone :
         IF n # SegMeta /\ Virtual(reader, n)
         THEN IF Cardinality(DOMAIN reader.entries) > 1
              THEN self' = [self EXCEPT !.pc = "purge", !.gone = @ \cup {n},
                                        !.cache["writer"] = [reader EXCEPT !.entries = Without(@, n)]]
              ELSE self' = [self EXCEPT !.pc = "last", !.dat = <<>>,
                                        !.gone = @ \cup {n}, !.cache["writer"] = reader]
         ELSE self' = [self EXCEPT !.pc = "purge", !.gone = @ \cup {n},
                                   !.files = Without(@, n),
                                   !.cache["writer"] = IF n = SegMeta THEN @ ELSE reader]
  BY DEF Delete
<1> DEFINE more == self.gone \cup {n}
<1>4. n \in AllNames /\ more \in SUBSET AllNames
  BY <1>1 DEF TypeOK, Contents
<1>5. /\ Whole.bytes \in Seq(Byte) /\ DOMAIN Whole.entries = DOMAIN self.written \cap Names
      /\ SegMeta \notin Names
  BY <1>1, WholeIs DEF Parameters
<1> HIDE DEF reader
<1>6. CASE n # SegMeta /\ Virtual(reader, n)
  <2>1. self.meta # <<>> /\ reader = ReaderOf(Whole.bytes, self.gone)
    BY <1>2, <1>6 DEF Virtual
  <2>2. self.files = [m \in {SegMeta} \ more |-> self.written[m]]
    <3>1. self.files = [m \in {SegMeta} \ self.gone |-> self.written[m]]
      BY <1>1, <2>1 DEF FilesInv
    <3>2. {SegMeta} \ self.gone = {SegMeta} \ more
      BY <1>6
    <3> QED
      BY <3>1, <3>2
  <2>3. CASE Cardinality(DOMAIN reader.entries) > 1
    <3> DEFINE shorter == [reader EXCEPT !.entries = Without(@, n)]
    <3>1. shorter = ReaderOf(Whole.bytes, more)
      <4> DEFINE D == DOMAIN Whole.entries
                 left == [m \in D \ self.gone |-> Whole.entries[m]]
      <4>1. reader = [state |-> "reader", bytes |-> Whole.bytes, entries |-> left]
        BY <2>1 DEF ReaderOf
      <4>2. Without(left, n) = [m \in D \ more |-> Whole.entries[m]]
        <5>1. (D \ self.gone) \ {n} = D \ more
          OBVIOUS
        <5>2. Without(left, n) = [m \in (D \ self.gone) \ {n} |-> left[m]]
          BY DEF Without
        <5>3. \A m \in (D \ self.gone) \ {n} : left[m] = Whole.entries[m]
          OBVIOUS
        <5> HIDE DEF left, D
        <5> QED
          BY <5>1, <5>2, <5>3
      <4>3. shorter = [state |-> "reader", bytes |-> Whole.bytes, entries |-> Without(left, n)]
        <5> HIDE DEF left
        <5> QED
          BY <4>1
      <4> QED
        BY <4>2, <4>3 DEF ReaderOf
    <3>2. shorter \in Caches
      BY <1>1, <1>5, <3>1, TablesRestrict
    <3>3. self' = [self EXCEPT !.pc = "purge", !.gone = @ \cup {n}, !.cache["writer"] = shorter]
      BY <1>3, <1>6, <2>3
    <3> HIDE DEF shorter
    <3>4. TypeOK'
      BY <1>1, <1>4, <3>2, <3>3 DEF TypeOK, Labels
    <3>5. /\ self'.pc = "purge" /\ self'.written = self.written /\ self'.meta = self.meta
          /\ self'.dat = self.dat /\ self'.dir = self.dir /\ self'.gone = more
          /\ self'.files = self.files /\ self'.cache["writer"] = shorter
          /\ self'.cache["reader"] = self.cache["reader"]
      BY <1>1, <3>3 DEF TypeOK, Folders
    <3>6. FilesInv'
      BY <1>1, <2>2, <3>5 DEF FilesInv
    <3>7. PackInv'
      BY <1>1, <2>1, <3>5, WrittenSame DEF PackInv
    <3>8. WriterInv'
      <4>1. self'.cache["writer"] = ReaderOf(Whole.bytes, self.gone)'
        BY <3>1, <3>5 DEF ReaderOf, Whole
      <4> QED
        BY <2>1, <3>5, <4>1 DEF WriterInv
    <3>9. ReaderInv'
      BY <1>1, <3>5, ReaderStays
    <3> QED
      BY <1>1, <3>4, <3>6, <3>7, <3>8, <3>9 DEF CompoundInv
  <2>4. CASE ~ Cardinality(DOMAIN reader.entries) > 1
    <3>1. self' = [self EXCEPT !.pc = "last", !.dat = <<>>, !.gone = @ \cup {n}, !.cache["writer"] = reader]
      BY <1>3, <1>6, <2>4
    <3>2. <<>> \in Seq(Seq(Byte))
      OBVIOUS
    <3>3. TypeOK'
      BY <1>1, <1>2, <1>4, <3>1, <3>2 DEF TypeOK, Labels
    <3>4. /\ self'.pc = "last" /\ self'.written = self.written /\ self'.meta = self.meta
          /\ self'.dat = <<>> /\ self'.dir = self.dir
          /\ self'.cache["reader"] = self.cache["reader"]
      BY <1>1, <3>1 DEF TypeOK, Folders
    <3>5. FilesInv'
      BY <1>1, <3>4 DEF FilesInv
    <3>6. PackInv'
      BY <1>1, <2>1, <3>4, WrittenSame DEF PackInv
    <3>7. WriterInv'
      BY <3>4 DEF WriterInv
    <3>8. ReaderInv'
      BY <1>1, <3>4, ReaderStays
    <3> QED
      BY <1>1, <3>3, <3>5, <3>6, <3>7, <3>8 DEF CompoundInv
  <2> QED
    BY <2>3, <2>4
<1>7. CASE ~ (n # SegMeta /\ Virtual(reader, n))
  <2> DEFINE fewer == Without(self.files, n)
             now == IF n = SegMeta THEN mine ELSE reader
  <2>1. self.meta # <<>> => n = SegMeta
    <3> SUFFICES ASSUME self.meta # <<>>, n # SegMeta PROVE FALSE
      OBVIOUS
    <3>1. reader = ReaderOf(Whole.bytes, self.gone)
      BY <1>2
    <3>2. n \in DOMAIN Whole.entries \ self.gone
      BY <1>4, <1>5 DEF AllNames
    <3>3. Virtual(reader, n)
      BY <3>1, <3>2 DEF ReaderOf, Virtual
    <3> QED
      BY <1>7, <3>3
  <2>2. fewer \in Contents /\ now \in Caches
    BY <1>1, <1>2, WithoutIs DEF TypeOK
  <2>3. self.meta # <<>> => fewer = [m \in {SegMeta} \ more |-> self.written[m]]
    <3> SUFFICES ASSUME self.meta # <<>> PROVE fewer = [m \in {SegMeta} \ more |-> self.written[m]]
      OBVIOUS
    <3>1. self.files = [m \in {SegMeta} \ self.gone |-> self.written[m]]
      BY <1>1 DEF FilesInv
    <3>2. fewer = [m \in DOMAIN self.files \ {n} |-> self.files[m]]
      BY DEF Without
    <3>3. DOMAIN self.files \ {n} = {SegMeta} \ more
      BY <3>1
    <3> HIDE DEF fewer
    <3> QED
      BY <3>1, <3>2, <3>3
  <2> HIDE DEF fewer, now
  <2>4. self' = [self EXCEPT !.pc = "purge", !.gone = @ \cup {n}, !.files = fewer,
                             !.cache["writer"] = now]
    BY <1>1, <1>3, <1>7 DEF fewer, now, TypeOK, Folders
  <2>5. TypeOK'
    BY <1>1, <1>4, <2>2, <2>4 DEF TypeOK, Labels
  <2>6. /\ self'.pc = "purge" /\ self'.written = self.written /\ self'.meta = self.meta
        /\ self'.dat = self.dat /\ self'.dir = self.dir /\ self'.gone = more
        /\ self'.files = fewer /\ self'.cache["writer"] = now
        /\ self'.cache["reader"] = self.cache["reader"]
    BY <1>1, <2>4 DEF TypeOK, Folders
  <2>7. FilesInv'
    BY <1>1, <2>3, <2>6 DEF FilesInv
  <2>8. PackInv'
    BY <1>1, <2>6, WrittenSame DEF PackInv
  <2>9. WriterInv'
    <3>1. CASE self.meta = <<>>
      <4>1. mine.state # "reader" /\ reader.state # "reader"
        BY <1>1, <1>2, <3>1 DEF WriterInv
      <4>2. now.state # "reader"
        BY <4>1 DEF now
      <4> QED
        BY <2>6, <3>1, <4>2 DEF WriterInv
    <3>2. CASE self.meta # <<>>
      <4>1. n = SegMeta /\ now = mine
        BY <2>1, <3>2 DEF now
      <4>2. CASE mine = NotLooked /\ self.gone \subseteq {SegMeta}
        <5>1. self'.cache["writer"] = NotLooked' /\ self'.gone \subseteq {SegMeta}
          BY <2>6, <4>1, <4>2 DEF NotLooked
        <5> QED
          BY <2>6, <3>2, <5>1 DEF WriterInv
      <4>3. CASE mine = ReaderOf(Whole.bytes, self.gone)
        <5>1. DOMAIN Whole.entries \ self.gone = DOMAIN Whole.entries \ more
          BY <1>5, <4>1
        <5>2. mine = ReaderOf(Whole.bytes, more)
          BY <4>3, <5>1 DEF ReaderOf
        <5>3. self'.cache["writer"] = ReaderOf(Whole.bytes, self.gone)'
          BY <2>6, <4>1, <5>2 DEF ReaderOf, Whole
        <5> QED
          BY <2>6, <3>2, <5>3 DEF WriterInv
      <4> QED
        BY <1>1, <3>2, <4>2, <4>3 DEF WriterInv
    <3> QED
      BY <3>1, <3>2
  <2>10. ReaderInv'
    BY <1>1, <2>6, ReaderStays
  <2> QED
    BY <1>1, <2>5, <2>7, <2>8, <2>9, <2>10 DEF CompoundInv
<1> QED
  BY <1>6, <1>7

LEMMA DeleteMetaKeeps ==
  ASSUME Parameters, CompoundInv, DeleteMeta
  PROVE  CompoundInv'
<1>1. /\ TypeOK /\ FilesInv /\ PackInv /\ WriterInv /\ ReaderInv /\ seen \subseteq {"last", "broken"}
      /\ self.pc = "last" /\ seen' = seen
      /\ self' = [self EXCEPT !.pc = "purge", !.meta = <<>>, !.cache["writer"] = NotLooked]
  BY DEF CompoundInv, DeleteMeta
<1>2. NotLooked \in Caches /\ <<>> \in Seq(Tables)
  BY LookedIs
<1>3. TypeOK'
  BY <1>1, <1>2 DEF TypeOK, Labels
<1>4. /\ self'.pc = "purge" /\ self'.written = self.written /\ self'.meta = <<>>
      /\ self'.dir = self.dir /\ self'.gone = self.gone
      /\ self'.cache["writer"] = NotLooked /\ self'.cache["reader"] = self.cache["reader"]
  BY <1>1 DEF TypeOK, Folders
<1>5. FilesInv'
  BY <1>1, <1>4 DEF FilesInv
<1>6. PackInv'
  BY <1>1, <1>4 DEF PackInv
<1>7. WriterInv'
  BY <1>4 DEF WriterInv, NotLooked
<1>8. ReaderInv'
  BY <1>1, <1>4, ReaderStays
<1> QED
  BY <1>1, <1>3, <1>5, <1>6, <1>7, <1>8 DEF CompoundInv

LEMMA MetaStaysKeeps ==
  ASSUME Parameters, CompoundInv, MetaStays
  PROVE  CompoundInv'
<1>1. /\ TypeOK /\ FilesInv /\ PackInv /\ WriterInv /\ ReaderInv /\ seen \subseteq {"last", "broken"}
      /\ self.pc = "last" /\ seen' = seen /\ self' = [self EXCEPT !.pc = "broken"]
  BY DEF CompoundInv, MetaStays
<1>2. TypeOK'
  BY <1>1 DEF TypeOK, Labels
<1>3. /\ self'.pc = "broken" /\ self'.written = self.written /\ self'.meta = self.meta
      /\ self'.dir = self.dir /\ self'.gone = self.gone /\ self'.files = self.files
      /\ self'.dat = self.dat /\ self'.cache = self.cache
  BY <1>1 DEF TypeOK
<1>4. FilesInv'
  BY <1>1, <1>3 DEF FilesInv
<1>5. PackInv'
  BY <1>1, <1>3, WrittenSame DEF PackInv
<1>6. WriterInv'
  BY <1>1, <1>3 DEF WriterInv
<1>7. ReaderInv'
  BY <1>1, <1>3, ReaderStays DEF PackInv
<1> QED
  BY <1>1, <1>2, <1>4, <1>5, <1>6, <1>7 DEF CompoundInv

LEMMA DieKeeps ==
  ASSUME Parameters, CompoundInv, Die
  PROVE  CompoundInv'
<1> DEFINE pc == CASE self.pc = "last" -> "broken"
                   [] self.pc \in {"done", "purge"} -> "purge"
                   [] OTHER -> "prepare"
           lost == IF self.meta = <<>> THEN self.gone ELSE self.gone \cap {SegMeta}
<1>1. /\ TypeOK /\ FilesInv /\ PackInv /\ WriterInv /\ ReaderInv /\ seen \subseteq {"last", "broken"}
      /\ self.pc \notin {"prepare", "stuck", "broken"} /\ seen' = seen
      /\ self' = [self EXCEPT !.pc = pc, !.out = <<>>, !.gone = lost,
                              !.cache["writer"] = NotLooked, !.deaths = @ + 1]
  BY DEF CompoundInv, Die
<1>2. \/ self.pc = "last" /\ pc = "broken"
      \/ self.pc \in {"done", "purge"} /\ pc = "purge"
      \/ self.pc \in {"write", "finish", "spew", "rename", "close", "unlink"} /\ pc = "prepare"
  BY <1>1 DEF TypeOK, Labels
<1>3. /\ NotLooked \in Caches /\ <<>> \in Seq(Byte) /\ lost \in SUBSET AllNames /\ pc \in Labels
      /\ lost \subseteq self.gone
  BY <1>1, <1>2, LookedIs DEF TypeOK, Labels
<1>4. self.meta # <<>> => lost = self.gone \cap {SegMeta}
  OBVIOUS
<1> DEFINE died == self.deaths + 1
<1>5. TypeOK'
  <2>1. self' = [self EXCEPT !.pc = pc, !.out = <<>>, !.gone = lost,
                             !.cache["writer"] = NotLooked, !.deaths = died]
    BY <1>1 DEF TypeOK
  <2>2. died \in Nat
    BY <1>1 DEF TypeOK
  <2>3. TypeOK /\ seen' = seen
    BY <1>1
  <2>4. NotLooked \in Caches /\ <<>> \in Seq(Byte) /\ lost \in SUBSET AllNames /\ pc \in Labels
    BY <1>3
  <2> HIDE DEF pc, lost, died
  <2> QED
    BY <2>1, <2>2, <2>3, <2>4 DEF TypeOK
<1> HIDE DEF pc, lost
<1>6. /\ self'.pc = pc /\ self'.written = self.written /\ self'.meta = self.meta
      /\ self'.dat = self.dat /\ self'.dir = self.dir /\ self'.gone = lost
      /\ self'.files = self.files
      /\ self'.cache["writer"] = NotLooked /\ self'.cache["reader"] = self.cache["reader"]
  BY <1>1 DEF TypeOK, Folders
<1>7. FilesInv'
  <2>1. CASE pc = "prepare"
    <3>1. self.gone = {}
      BY <1>2, <2>1 DEF FilesInv, CompoundInv
    <3> QED
      BY <1>3, <1>6, <2>1, <3>1 DEF FilesInv
  <2>2. CASE pc = "broken"
    BY <1>1, <1>2, <1>6, <2>2 DEF FilesInv
  <2>3. CASE pc = "purge"
    <3>1. SegMeta \in DOMAIN self.written
      BY <1>1, <1>2, <2>3 DEF FilesInv
    <3>2. self.meta # <<>> => self.files = [n \in {SegMeta} \ lost |-> self.written[n]]
      <4> SUFFICES ASSUME self.meta # <<>> PROVE self.files = [n \in {SegMeta} \ lost |-> self.written[n]]
        OBVIOUS
      <4>1. self.files = [n \in {SegMeta} \ self.gone |-> self.written[n]]
        BY <1>1, <1>2, <2>3 DEF FilesInv
      <4>2. {SegMeta} \ self.gone = {SegMeta} \ lost
        BY <1>4
      <4> QED
        BY <4>1, <4>2
    <3> QED
      BY <1>6, <2>3, <3>1, <3>2 DEF FilesInv
  <2> QED
    BY <1>2, <2>1, <2>2, <2>3
<1>8. PackInv'
  BY <1>1, <1>2, <1>6, WrittenSame DEF PackInv
<1>9. WriterInv'
  <2>1. self.meta # <<>> => lost \subseteq {SegMeta}
    BY <1>4
  <2> QED
    BY <1>6, <2>1 DEF WriterInv, NotLooked
<1>10. ReaderInv'
  BY <1>1, <1>2, <1>6, ReaderStays DEF PackInv
<1> QED
  BY <1>1, <1>5, <1>7, <1>8, <1>9, <1>10 DEF CompoundInv

LEMMA ListFolderKeeps ==
  ASSUME Parameters, CompoundInv, ListFolder
  PROVE  CompoundInv'
<1> DEFINE reader == Looked("reader")
           has == self.cache["reader"]
           now == IF ListFails("reader") THEN NotLooked ELSE IF self.meta = <<>> THEN has ELSE reader
<1>1. /\ TypeOK /\ FilesInv /\ PackInv /\ WriterInv /\ ReaderInv /\ seen \subseteq {"last", "broken"}
      /\ seen' = IF ListFails("reader") THEN seen \cup {self.pc} ELSE seen
  BY DEF CompoundInv, ListFolder
<1>2. self' = [self EXCEPT !.cache["reader"] = now]
  BY <1>1 DEF ListFolder, TypeOK, Folders
<1>3. /\ reader \in Caches /\ NotLooked \in Caches
      /\ self.meta # <<>> /\ self.pc \notin {"last", "broken"} =>
            \E k \in 0..Whole.len : reader = ReaderOf(Begun(k), {})
      /\ has # NotLooked => reader = has
      /\ ListFails("reader") => self.meta # <<>> /\ reader.state # "reader"
      /\ ~ListFails("reader") /\ self.meta # <<>> => reader.state = "reader"
  BY LookedIs DEF Folders, ListFails
<1>4. has \in Caches
  BY <1>1 DEF TypeOK, Folders
<1>5. ListFails("reader") => self.pc \in {"last", "broken"}
  BY <1>3 DEF ReaderOf
<1>6. now \in Caches
  BY <1>3, <1>4
<1>7. \/ now = NotLooked \/ now = has
      \/ self.meta # <<>> /\ self.pc \notin {"last", "broken"} /\ now = reader
  <2>1. CASE ListFails("reader") \/ self.meta = <<>>
    BY <2>1
  <2>2. CASE ~ListFails("reader") /\ self.meta # <<>> /\ self.pc \in {"last", "broken"}
    <3>1. self.dat = <<>>
      BY <1>1, <2>2 DEF PackInv
    <3>2. reader.state = "reader"
      BY <1>3, <2>2
    <3>3. has # NotLooked
      BY <3>1, <3>2 DEF Looked, NotLooked, Undef
    <3> QED
      BY <1>3, <2>2, <3>3
  <2>3. CASE ~ListFails("reader") /\ self.meta # <<>> /\ self.pc \notin {"last", "broken"}
    BY <2>3
  <2> QED
    BY <2>1, <2>2, <2>3
<1> HIDE DEF now
<1>8. TypeOK'
  BY <1>1, <1>2, <1>6 DEF TypeOK, Labels
<1>9. /\ self'.pc = self.pc /\ self'.written = self.written /\ self'.meta = self.meta
      /\ self'.dat = self.dat /\ self'.out = self.out /\ self'.dir = self.dir /\ self'.gone = self.gone
      /\ self'.files = self.files
      /\ self'.cache["writer"] = self.cache["writer"] /\ self'.cache["reader"] = now
  BY <1>1, <1>2 DEF TypeOK, Folders
<1>10. FilesInv'
  BY <1>1, <1>9 DEF FilesInv
<1>11. PackInv'
  BY <1>1, <1>9, WrittenSame DEF PackInv
<1>12. WriterInv'
  BY <1>1, <1>9, WrittenSame DEF WriterInv, NotLooked
<1>13. ReaderInv'
  <2>1. CASE now = NotLooked
    BY <1>9, <2>1 DEF ReaderInv, NotLooked
  <2>2. CASE now = has
    BY <1>1, <1>9, <2>2, WrittenSame DEF ReaderInv, NotLooked
  <2>3. CASE self.meta # <<>> /\ self.pc \notin {"last", "broken"} /\ now = reader
    <3>1. PICK k \in 0..Whole.len : now = ReaderOf(Begun(k), {})
      BY <1>3, <2>3
    <3>2. Whole' = Whole /\ ReaderOf(Begun(k), {})' = ReaderOf(Begun(k), {})
      BY <1>9, WrittenSame DEF ReaderOf, Begun
    <3>3. self'.cache["reader"] = ReaderOf(Begun(k), {})' /\ k \in 0..Whole'.len
      BY <1>9, <3>1, <3>2
    <3>4. self.pc \notin {"write", "finish", "spew", "rename"}
      BY <1>1, <2>3 DEF PackInv
    <3> QED
      BY <1>9, <2>3, <3>3, <3>4 DEF ReaderInv
  <2> QED
    BY <1>7, <2>1, <2>2, <2>3
<1>14. seen' \subseteq {"last", "broken"}
  BY <1>1, <1>5
<1> QED
  BY <1>8, <1>10, <1>11, <1>12, <1>13, <1>14 DEF CompoundInv

THEOREM CompoundInductive ==
  ASSUME Parameters
  PROVE  Spec => []CompoundInv
<1>1. Init => CompoundInv
  BY InitRight
<1>2. CompoundInv /\ [Next]_vars => CompoundInv'
  <2> SUFFICES ASSUME CompoundInv, [Next]_vars PROVE CompoundInv'
    OBVIOUS
  <2>1. CASE Prepare
    BY <2>1, PrepareKeeps
  <2>2. CASE WriteFile
    BY <2>2, WriteFileKeeps
  <2>3. CASE Consolidate
    BY <2>3, ConsolidateKeeps
  <2>4. CASE SpewMeta
    BY <2>4, SpewMetaKeeps
  <2>5. CASE RenameMeta
    BY <2>5, RenameMetaKeeps
  <2>6. CASE CloseDat
    BY <2>6, CloseDatKeeps
  <2>7. CASE UnlinkOriginal
    BY <2>7, UnlinkOriginalKeeps
  <2>8. CASE FinishSegment
    BY <2>8, FinishSegmentKeeps
  <2>9. CASE Delete
    BY <2>9, DeleteKeeps
  <2>10. CASE DeleteMeta
    BY <2>10, DeleteMetaKeeps
  <2>14. CASE MetaStays
    BY <2>14, MetaStaysKeeps
  <2>11. CASE Die
    BY <2>11, DieKeeps
  <2>12. CASE ListFolder
    BY <2>12, ListFolderKeeps
  <2>13. CASE UNCHANGED vars
    <3>1. self' = self /\ seen' = seen
      BY <2>13 DEF vars
    <3>2. TypeOK /\ FilesInv /\ PackInv /\ WriterInv /\ ReaderInv /\ seen \subseteq {"last", "broken"}
      BY DEF CompoundInv
    <3>3. Whole' = Whole
      BY <3>1 DEF Whole
    <3>4. TypeOK'
      BY <3>1, <3>2 DEF TypeOK
    <3>5. FilesInv'
      BY <3>1, <3>2 DEF FilesInv
    <3>6. PackInv'
      BY <3>1, <3>2, <3>3 DEF PackInv, Begun, Remaining
    <3>7. WriterInv'
      BY <3>1, <3>2, <3>3 DEF WriterInv, ReaderOf, NotLooked
    <3>8. ReaderInv'
      BY <3>1, <3>2, <3>3 DEF ReaderInv, ReaderOf, Begun, NotLooked
    <3> QED
      BY <3>1, <3>2, <3>4, <3>5, <3>6, <3>7, <3>8 DEF CompoundInv
  <2> QED
    BY <2>1, <2>2, <2>3, <2>4, <2>5, <2>6, <2>7, <2>8, <2>9, <2>10, <2>11, <2>12, <2>13, <2>14 DEF Next
<1> QED
  BY <1>1, <1>2, PTL DEF Spec

-----------------------------------------------------------------------------
(* What is listed                                                           *)

\* Of two sets with nothing in common, listed one after the other, each member
\* is there once and nothing else is.
LEMMA TimesListed ==
  ASSUME NEW S, NEW T, IsFiniteSet(S), IsFiniteSet(T), S \cap T = {}, NEW x
  PROVE  LET list == SetToSeq(S) \o SetToSeq(T)
         IN  /\ Cardinality({i \in DOMAIN list : list[i] = x}) = IF x \in S \cup T THEN 1 ELSE 0
             /\ x \in S \cup T => x \in ToSet(list)
<1> DEFINE s == SetToSeq(S)
           t == SetToSeq(T)
           list == s \o t
           at == {i \in DOMAIN list : list[i] = x}
<1>1. /\ s \in Seq(S) /\ t \in Seq(T)
      /\ \A i, j \in DOMAIN s : s[i] = s[j] => i = j
      /\ \A i, j \in DOMAIN t : t[i] = t[j] => i = j
      /\ \A y \in S : \E i \in DOMAIN s : s[i] = y
      /\ \A y \in T : \E i \in DOMAIN t : t[i] = y
  BY SetToSeqIs
<1> HIDE DEF s, t
<1>2. /\ DOMAIN s = 1..Len(s) /\ DOMAIN t = 1..Len(t) /\ Len(s) \in Nat /\ Len(t) \in Nat
      /\ DOMAIN list = 1..(Len(s) + Len(t))
      /\ \A i \in 1..Len(s) : list[i] = s[i] /\ s[i] \in S
      /\ \A i \in 1..Len(t) : list[Len(s) + i] = t[i] /\ t[i] \in T
  BY <1>1
<1> HIDE DEF list
<1>3. \A i \in DOMAIN list : \/ i \in 1..Len(s)
                             \/ i - Len(s) \in 1..Len(t) /\ i = Len(s) + (i - Len(s))
  BY <1>2
<1>4. \A i \in DOMAIN list : list[i] \in S \cup T
  BY <1>2, <1>3
<1>5. CASE x \notin S \cup T
  <2>1. at = {}
    BY <1>4, <1>5
  <2> QED
    BY <1>5, <2>1, FS_EmptySet DEF list, s, t
<1>6. ASSUME x \in S \cup T
      PROVE  \E i \in DOMAIN list : at = {i}
  <2>1. CASE x \in S
    <3>1. PICK i \in 1..Len(s) : s[i] = x
      BY <1>1, <1>2, <2>1
    <3>2. i \in DOMAIN list /\ list[i] = x
      BY <1>2, <3>1
    <3>3. ASSUME NEW j \in DOMAIN list, list[j] = x PROVE j = i
      <4>1. CASE j \in 1..Len(s)
        BY <1>1, <1>2, <3>1, <3>3, <4>1
      <4>2. CASE j - Len(s) \in 1..Len(t) /\ j = Len(s) + (j - Len(s))
        <5>1. list[j] \in T
          BY <1>2, <4>2
        <5> QED
          BY <2>1, <3>3, <5>1
      <4> QED
        BY <1>3, <4>1, <4>2
    <3> QED
      BY <3>2, <3>3
  <2>2. CASE x \in T
    <3>1. PICK i \in 1..Len(t) : t[i] = x
      BY <1>1, <1>2, <2>2
    <3>2. Len(s) + i \in DOMAIN list /\ list[Len(s) + i] = x
      BY <1>2, <3>1
    <3>3. ASSUME NEW j \in DOMAIN list, list[j] = x PROVE j = Len(s) + i
      <4>1. CASE j \in 1..Len(s)
        <5>1. list[j] \in S
          BY <1>2, <4>1
        <5> QED
          BY <2>2, <3>3, <5>1
      <4>2. CASE j - Len(s) \in 1..Len(t) /\ j = Len(s) + (j - Len(s))
        <5>1. t[j - Len(s)] = x
          BY <1>2, <3>3, <4>2
        <5>2. j - Len(s) = i
          BY <1>1, <1>2, <3>1, <4>2, <5>1
        <5> QED
          BY <4>2, <5>2
      <4> QED
        BY <1>3, <4>1, <4>2
    <3> QED
      BY <3>2, <3>3
  <2> QED
    BY <1>6, <2>1, <2>2
<1>7. CASE x \in S \cup T
  <2>1. PICK i \in DOMAIN list : at = {i}
    BY <1>6, <1>7
  <2>2. Cardinality(at) = 1
    BY <2>1, FS_Singleton
  <2>3. list[i] = x
    BY <2>1
  <2> HIDE DEF at
  <2>4. x \in ToSet(list)
    BY <2>3 DEF ToSet
  <2> QED
    BY <1>7, <2>2, <2>4 DEF at, list, s, t
<1> QED
  BY <1>5, <1>7

-----------------------------------------------------------------------------
(* What a folder object shows                                               *)

\* Of a finished segment each folder object has a reader, or would find one,
\* of as much of cf.dat as it has mapped; one that has not looked finds it all.
LEMMA ReaderFound ==
  ASSUME Parameters, CompoundInv, self.pc \in {"done", "purge"}, self.meta # <<>>, NEW f \in Folders
  PROVE  \E k \in 0..Whole.len :
            /\ Looked(f) = ReaderOf(Begun(k), IF f = "writer" THEN self.gone ELSE {})
            /\ \/ self.cache[f] = Looked(f)
               \/ self.cache[f] = NotLooked /\ k = Whole.len
<1>1. TypeOK /\ FilesInv /\ PackInv /\ WriterInv /\ ReaderInv
  BY DEF CompoundInv
<1>2. PICK w \in 0..Whole.len : w = Whole.len /\ Begun(w) = Whole.bytes
  <2>1. Whole.len \in 0..Whole.len
    BY <1>1, WholeIs
  <2> QED
    BY <1>1, <2>1, PartsIs
<1>3. CASE f = "writer"
  <2>1. Looked(f) = ReaderOf(Begun(w), self.gone)
    BY <1>2, <1>3, LookedIs
  <2>2. self.cache[f] = NotLooked \/ self.cache[f] = ReaderOf(Begun(w), self.gone)
    BY <1>1, <1>2, <1>3 DEF WriterInv
  <2> QED
    BY <1>2, <1>3, <2>1, <2>2
<1>4. CASE f = "reader"
  <2>1. CASE self.cache["reader"] = NotLooked
    <3>1. self.dat = <<Whole.bytes>> /\ self.meta = <<Whole.entries>>
      BY <1>1 DEF PackInv
    <3>2. Looked(f) = [state |-> "reader", entries |-> Whole.entries, bytes |-> Whole.bytes]
      BY <1>4, <2>1, <3>1 DEF Looked, NotLooked
    <3>3. Whole.entries = [n \in DOMAIN Whole.entries \ {} |-> Whole.entries[n]]
      BY <1>1, WholeIs
    <3>4. Looked(f) = ReaderOf(Begun(w), {})
      BY <1>2, <3>2, <3>3 DEF ReaderOf
    <3> QED
      BY <1>2, <1>4, <2>1, <3>4
  <2>2. CASE self.cache["reader"] # NotLooked
    <3>1. Looked("reader") = self.cache["reader"]
      BY <2>2, LookedIs
    <3>2. PICK k \in 0..Whole.len : self.cache["reader"] = ReaderOf(Begun(k), {})
      BY <1>1, <2>2 DEF ReaderInv
    <3> QED
      BY <1>4, <3>1, <3>2
  <2> QED
    BY <2>1, <2>2
<1> QED
  BY <1>3, <1>4 DEF Folders

LEMMA NamesFinite ==
  ASSUME Parameters
  PROVE  IsFiniteSet(AllNames)
BY FS_AddElement DEF Parameters, AllNames

\* Everything that SegmentFilesRight says of one file of a finished segment.
Shown(f, n) ==
    LET opened == OpenIn(f, n)
        times  == Cardinality({i \in DOMAIN List(f) : List(f)[i] = n})
        asked  == IF f = "writer" \/ n = SegMeta THEN self.gone ELSE {}
    IN  IF n \in asked THEN ~opened.found /\ ~Exists(f, n) /\ times = 0
        ELSE /\ opened.found /\ Exists(f, n) /\ times = 1
             /\ opened.throws => Early(f)
             /\ ~opened.throws =>
                   opened.bytes = self.written[n] /\ RamCopy(f)[n] = opened.bytes

LEMMA FileShown ==
  ASSUME Parameters, CompoundInv, self.pc \in {"done", "purge"}, self.meta # <<>>,
         NEW f \in Folders, NEW n \in DOMAIN self.written
  PROVE  Shown(f, n)
<1> DEFINE reader == Looked(f)
           lost == IF f = "writer" THEN self.gone ELSE {}
           real == DOMAIN self.files
           virtual == DOMAIN reader.entries
           opened == OpenIn(f, n)
           times == Cardinality({i \in DOMAIN List(f) : List(f)[i] = n})
           asked == IF f = "writer" \/ n = SegMeta THEN self.gone ELSE {}
<1>1. TypeOK /\ FilesInv /\ PackInv
  BY DEF CompoundInv
<1>2. PICK k \in 0..Whole.len :
         /\ reader = ReaderOf(Begun(k), lost)
         /\ \/ self.cache[f] = reader
            \/ self.cache[f] = NotLooked /\ k = Whole.len
  BY ReaderFound
<1>3. /\ reader.state = "reader" /\ reader.bytes = Begun(k)
      /\ virtual = DOMAIN Whole.entries \ lost
      /\ \A m \in virtual : reader.entries[m] = Whole.entries[m]
  BY <1>2 DEF ReaderOf
<1>4. /\ DOMAIN Whole.entries = DOMAIN self.written \cap Names
      /\ Whole.len \in Nat /\ k \in Nat /\ k <= Whole.len /\ Len(Begun(k)) = k
  BY <1>1, WholeIs, PartsIs
<1>5. self.files = [m \in {SegMeta} \ self.gone |-> self.written[m]] /\ real = {SegMeta} \ self.gone
  BY <1>1 DEF FilesInv
<1>6. n \in AllNames /\ SegMeta \notin Names /\ SegMeta \notin virtual
  BY <1>1, <1>3, <1>4 DEF Parameters, TypeOK, Contents
<1>7. /\ times = IF n \in real \cup virtual THEN 1 ELSE 0
      /\ n \in real \cup virtual => n \in ToSet(List(f))
  <2>1. IsFiniteSet(real) /\ IsFiniteSet(virtual)
    <3>1. real \in SUBSET AllNames /\ virtual \in SUBSET AllNames
      BY <1>3, <1>4, <1>5 DEF AllNames
    <3> QED
      BY <3>1, NamesFinite, FS_Subset
  <2>2. real \cap virtual = {}
    BY <1>5, <1>6
  <2>3. List(f) = SetToSeq(real) \o SetToSeq(virtual)
    BY DEF List
  <2> DEFINE list == SetToSeq(real) \o SetToSeq(virtual)
             at == {i \in DOMAIN list : list[i] = n}
  <2> HIDE DEF real, virtual
  <2>4. /\ Cardinality(at) = IF n \in real \cup virtual THEN 1 ELSE 0
        /\ n \in real \cup virtual => n \in ToSet(list)
    BY <2>1, <2>2, TimesListed
  <2> HIDE DEF list
  <2>5. List(f) = list
    BY <2>3 DEF list
  <2> QED
    BY <2>4, <2>5
<1>8. n \in real \cup virtual => RamCopy(f)[n] = opened.bytes
  BY <1>7 DEF RamCopy
<1> HIDE DEF reader
<1>9. CASE n = SegMeta
  <2>1. ~Virtual(self.cache[f], n)
    BY <1>2, <1>6, <1>9 DEF Virtual, NotLooked
  <2>2. opened = IF n \in real THEN [found |-> TRUE, throws |-> FALSE, bytes |-> self.files[n]]
                 ELSE [found |-> FALSE, throws |-> FALSE, bytes |-> <<>>]
    BY <1>9, <2>1 DEF OpenIn
  <2>3. Exists(f, n) <=> n \in real
    BY <1>9 DEF Exists
  <2>4. n \in real <=> n \notin asked
    BY <1>5, <1>9
  <2>5. n \in real => self.files[n] = self.written[n]
    BY <1>5
  <2>6. n \in virtual <=> FALSE
    BY <1>6, <1>9
  <2>7. CASE n \in asked
    <3>1. ~opened.found /\ ~Exists(f, n) /\ times = 0
      BY <1>7, <2>2, <2>3, <2>4, <2>6, <2>7
    <3> QED
      BY <2>7, <3>1 DEF Shown
  <2>8. CASE n \notin asked
    <3>1. /\ opened.found /\ Exists(f, n) /\ times = 1 /\ ~opened.throws
          /\ opened.bytes = self.written[n] /\ RamCopy(f)[n] = opened.bytes
      BY <1>7, <1>8, <2>2, <2>3, <2>4, <2>5, <2>8
    <3> QED
      BY <2>8, <3>1 DEF Shown
  <2> QED
    BY <2>7, <2>8
<1>10. CASE n # SegMeta
  <2>1. n \in DOMAIN self.written \cap Names /\ n \notin real /\ asked = lost
    BY <1>5, <1>6, <1>10 DEF AllNames
  <2>2. n \in virtual <=> n \notin asked
    BY <1>3, <1>4, <2>1
  <2>3. Exists(f, n) <=> n \in virtual
    BY <1>3, <1>10 DEF Exists, Virtual, reader
  <2>4. Virtual(reader, n) <=> n \in virtual
    BY <1>3 DEF Virtual
  <2>5. opened = IF n \in virtual THEN OpenVirtual(reader, n)
                 ELSE [found |-> FALSE, throws |-> FALSE, bytes |-> <<>>]
    <3>1. CASE Virtual(self.cache[f], n)
      <4>1. self.cache[f] = reader
        BY <1>2, <3>1 DEF Virtual, NotLooked
      <4> QED
        BY <2>4, <3>1, <4>1 DEF OpenIn
    <3>2. CASE ~Virtual(self.cache[f], n)
      BY <1>10, <2>1, <2>4, <3>2 DEF OpenIn, reader
    <3> QED
      BY <3>1, <3>2
  <2>6. CASE n \in asked
    <3>1. ~opened.found /\ ~Exists(f, n) /\ times = 0
      BY <1>7, <2>1, <2>2, <2>3, <2>5, <2>6
    <3> QED
      BY <2>6, <3>1 DEF Shown
  <2>7. CASE n \notin asked
    <3> DEFINE e == Whole.entries[n]
    <3>1. reader.entries[n] = e /\ reader.bytes = Begun(k)
      BY <1>3, <2>2, <2>7
    <3>2. opened = IF e.offset + e.length > k
                   THEN [found |-> TRUE, throws |-> TRUE, bytes |-> <<>>]
                   ELSE [found |-> TRUE, throws |-> FALSE,
                         bytes |-> SubSeq(Begun(k), e.offset + 1, e.offset + e.length)]
      BY <1>4, <2>2, <2>5, <2>7, <3>1 DEF OpenVirtual
    <3>3. e.offset \in Nat /\ e.length \in Nat /\ e.offset + e.length <= Whole.len
      BY <1>1, <2>1, WholeIs
    <3>4. e.offset + e.length <= k =>
             SubSeq(Begun(k), e.offset + 1, e.offset + e.length) = self.written[n]
      BY <1>1, <2>1, PartHolds
    <3>5. opened.found /\ Exists(f, n) /\ times = 1 /\ RamCopy(f)[n] = opened.bytes
      BY <1>7, <1>8, <2>2, <2>3, <2>7, <3>2
    <3>6. opened.throws => Early(f)
      <4> SUFFICES ASSUME opened.throws PROVE Early(f)
        OBVIOUS
      <4>1. e.offset + e.length > k
        BY <3>2
      <4>2. k < Whole.len
        BY <1>4, <3>3, <4>1
      <4>3. self.cache[f] = reader
        BY <1>2, <4>2
      <4> QED
        BY <1>3, <1>4, <4>2, <4>3 DEF Early, Whole
    <3>7. ~opened.throws => opened.bytes = self.written[n]
      <4>1. CASE e.offset + e.length > k
        <5>1. opened.throws
          BY <3>2, <4>1
        <5> QED
          BY <5>1
      <4>2. CASE ~ (e.offset + e.length > k)
        <5>1. e.offset + e.length <= k
          BY <1>4, <3>3, <4>2
        <5>2. opened.bytes = SubSeq(Begun(k), e.offset + 1, e.offset + e.length)
          <6> DEFINE slice == SubSeq(Begun(k), e.offset + 1, e.offset + e.length)
          <6>1. opened = [found |-> TRUE, throws |-> FALSE, bytes |-> slice]
            BY <3>2, <4>2, Zenon
          <6> HIDE DEF slice, opened
          <6>2. opened.bytes = slice
            BY <6>1
          <6> QED
            BY <6>2 DEF slice
        <5> QED
          BY <3>4, <5>1, <5>2
      <4> QED
        BY <4>1, <4>2
    <3> QED
      BY <2>7, <3>5, <3>6, <3>7 DEF Shown
  <2> QED
    BY <2>6, <2>7
<1> QED
  BY <1>9, <1>10

LEMMA CompoundShows ==
  ASSUME Parameters, CompoundInv
  PROVE  SegmentFilesRight
<1>1. self.pc \in {"prepare", "done", "purge"} => ~ListFails("writer")
  BY LookedIs DEF ListFails, ReaderOf
<1>2. ASSUME NEW f \in Folders, NEW n \in DOMAIN self.written,
             self.pc \in {"done", "purge"} /\ self.meta # <<>>
      PROVE  Shown(f, n)
  BY <1>2, FileShown
<1>3. seen \subseteq {"last", "broken"}
  BY DEF CompoundInv
<1> QED
  BY <1>1, <1>2, <1>3 DEF SegmentFilesRight, Shown

\* The types of the writing process's state and of what listing has seen.
THEOREM TypesRight ==
  ASSUME Parameters
  PROVE  Spec => []TypeOK
<1>1. CompoundInv => TypeOK
  BY DEF CompoundInv
<1> QED
  BY <1>1, CompoundInductive, PTL

\* Whatever the sizes of the files, however much of cf.dat a process that looks
\* too early maps, and wherever the writing process dies: a finished segment's
\* files are there for every folder object, with the bytes that were written,
\* and a purge takes no other file (FSFolder, CFWriter_Consolidate, CFReader).
THEOREM SegmentFilesAlwaysRight ==
  ASSUME Parameters
  PROVE  Spec => []SegmentFilesRight
<1>1. CompoundInv => SegmentFilesRight
  BY CompoundShows
<1> QED
  BY <1>1, CompoundInductive, PTL
=============================================================================
