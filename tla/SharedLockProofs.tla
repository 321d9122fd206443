-------------------------- MODULE SharedLockProofs --------------------------
(* SharedLock.tla for any number of lockers and retries, whichever of them  *)
(* clear stale locks and whichever may die.                                 *)
EXTENDS SharedLock, FiniteSetTheorems, TLAPS

\* What the constants are.
Parameters == Retries \in Nat /\ IsFiniteSet(Locker)

\* The labels at which self->filename names a lock file, and at which that
\* file is the locker's own.
Naming == {"exists", "create", "write", "held", "release", "unlink"}
Owning == {"write", "held", "release", "unlink"}

\* A locker that is about to use its number has one.
NumbersKnown == \A c \in Locker : pc[c] \in Naming => num[c] \in Number

\* What a holder has left on disk is complete, so that S_clear_file will read
\* its own pid from it.
HeldIsWritten ==
    \A n \in Listed :
        pc[files[n].by] \in {"held", "release", "unlink"} => files[n].written

\* As long as nobody has died, a file is its creator's until it unlinks it,
\* and no clearer gets as far as Folder_Delete.
OwnersKeep ==
    NobodyDied =>
        \A c \in Locker :
            /\ pc[c] \in Owning => Exists(num[c]) /\ files[num[c]].by = c
            /\ pc[c] # "remove"

\* The inductive invariant.
SharedInv == TypeOK /\ NumbersKnown /\ NoLeftovers /\ HeldIsWritten /\ OwnersKeep

-----------------------------------------------------------------------------
\* A refused obtain sleeps or returns, and touches nothing else.
LEMMA RefusedKeeps ==
  ASSUME Parameters, TypeOK, NEW c \in Locker, Refused(c)
  PROVE  /\ pc' \in [Locker -> Labels] /\ sleeps' \in [Locker -> 0..Retries]
         /\ pc' \in {[pc EXCEPT ![c] = "asleep"], [pc EXCEPT ![c] = "idle"]}
BY DEF Parameters, TypeOK, Refused, Goto, Labels

\* What a file system holds after a file has been written.
LEMMA AfterWith ==
  ASSUME NEW n, NEW file, files' = With(n, file)
  PROVE  /\ Listed' = Listed \cup {n} /\ files'[n] = file
         /\ \A m \in Listed \ {n} : files'[m] = files[m]
         /\ files' = [m \in Listed' |-> files'[m]]
BY DEF With, Listed

\* And after one has been deleted.
LEMMA AfterWithout ==
  ASSUME NEW n, files' = Without(n)
  PROVE  /\ Listed' = Listed \ {n}
         /\ \A m \in Listed' : files'[m] = files[m]
         /\ files' = [m \in Listed' |-> files'[m]]
BY DEF Without, Listed

\* What is written keeps the type of the folder.
LEMMA WithKeepsType ==
  ASSUME TypeOK, NEW n \in Number, NEW file \in LockFile, files' = With(n, file)
  PROVE  Listed' \subseteq Number /\ files' \in [Listed' -> LockFile]
<1>1. \A m \in Listed' : files'[m] \in LockFile
  BY AfterWith DEF TypeOK
<1> QED
  BY <1>1, AfterWith DEF TypeOK

\* So does what is deleted.
LEMMA WithoutKeepsType ==
  ASSUME TypeOK, NEW n, files' = Without(n)
  PROVE  Listed' \subseteq Number /\ files' \in [Listed' -> LockFile]
<1>1. \A m \in Listed' : files'[m] \in LockFile
  BY AfterWithout DEF TypeOK
<1> QED
  BY <1>1, AfterWithout DEF TypeOK

LEMMA SameFiles == files' = files => Listed' = Listed
BY DEF Listed

\* A step of any locker keeps the types of the variables.
LEMMA TypeStep ==
  ASSUME Parameters, TypeOK, NumbersKnown, [Next]_vars
  PROVE  TypeOK'
<1> DEFINE FilesOK == Listed \subseteq Number /\ files \in [Listed -> LockFile]
<1> DEFINE RestOK ==
      /\ pc \in [Locker -> Labels] /\ num \in [Locker -> Nat]
      /\ sleeps \in [Locker -> 0..Retries] /\ todo \in [Locker -> SUBSET Number]
      /\ target \in [Locker -> Number] /\ seen \in [Locker -> Locker]
<1>a. Parameters /\ TypeOK
  OBVIOUS
<1>b. /\ 1 \in Number /\ 0 \in Nat /\ \A n \in Nat : n + 1 \in Nat
      /\ 0 \in 0..Retries /\ Retries \in 0..Retries
  BY DEF Parameters, Number
<1>c. \A c \in Locker, w \in BOOLEAN : [by |-> c, written |-> w] \in LockFile
  BY DEF LockFile
<1>d. \A n : Exists(n) => n \in Number /\ files[n] \in LockFile /\ files[n].by \in Locker
  BY DEF TypeOK, Exists, LockFile
<1>e. Listed \in SUBSET Number
  BY DEF TypeOK
<1>f. ASSUME files' = files PROVE FilesOK'
  BY <1>f, SameFiles DEF TypeOK
<1>g. RestOK
  BY DEF TypeOK
<1>h. ASSUME FilesOK', RestOK' PROVE TypeOK'
  BY <1>h DEF TypeOK
<1>i. \A c \in Locker : pc[c] \in Naming => num[c] \in Number
  BY DEF NumbersKnown
<1> HIDE DEF FilesOK
<1>1. ASSUME NEW c \in Locker, Acquire(c) PROVE TypeOK'
  <2>1. RestOK'
    BY <1>1, <1>b, <1>e, <1>g DEF Acquire, Labels, Goto
  <2> QED
    BY <2>1, <1>1, <1>f, <1>h DEF Acquire
<1>2. ASSUME NEW c \in Locker, Release(c) PROVE TypeOK'
  <2>1. RestOK'
    BY <1>2, <1>g DEF Release, Labels, Goto
  <2> QED
    BY <2>1, <1>2, <1>f, <1>h DEF Release
<1>3. ASSUME NEW c \in Locker, Catch(c) PROVE TypeOK'
  <2>1. RestOK'
    BY <1>3, <1>g DEF Catch, Labels, Goto
  <2> QED
    BY <2>1, <1>3, <1>f, <1>h DEF Catch
<1>4. ASSUME NEW c \in Locker, Die(c) PROVE TypeOK'
  <2>1. RestOK'
    BY <1>4, <1>b, <1>g DEF Die, Labels, Goto
  <2> QED
    BY <2>1, <1>4, <1>f, <1>h DEF Die
<1>5. ASSUME NEW c \in Locker, Step(c) PROVE TypeOK'
  <2>1. CASE ReadListed(c)
    <3>1. PICK n \in todo[c] :
             /\ todo' = [todo EXCEPT ![c] = @ \ {n}]
             /\ IF Exists(n) /\ files[n].written
                THEN /\ target' = [target EXCEPT ![c] = n]
                     /\ seen' = [seen EXCEPT ![c] = files[n].by]
                     /\ pc' = [pc EXCEPT ![c] = "judge"]
                ELSE UNCHANGED <<pc, target, seen>>
      BY <2>1 DEF ReadListed, Goto
    <3>2. todo[c] \in SUBSET Number
      BY <1>g
    <3>3. n \in Number /\ todo[c] \ {n} \in SUBSET Number
      BY <3>2
    <3>4. UNCHANGED <<files, num, sleeps>>
      BY <2>1 DEF ReadListed
    <3>5. todo' \in [Locker -> SUBSET Number]
      BY <3>1, <3>3, <1>g
    <3>6. target' \in [Locker -> Number] /\ seen' \in [Locker -> Locker]
      BY <3>1, <3>3, <1>d, <1>g
    <3>7. pc' \in [Locker -> Labels]
      BY <3>1, <1>g DEF Labels
    <3> QED
      BY <3>4, <3>5, <3>6, <3>7, <1>f, <1>g, <1>h
  <2>2. CASE JudgeListed(c)
    <3>1. RestOK'
      BY <2>2, <1>b, <1>g DEF JudgeListed, Labels, Goto
    <3> QED
      BY <3>1, <2>2, <1>f, <1>h DEF JudgeListed
  <2>3. CASE RemoveStale(c)
    <3>1. RestOK'
      BY <2>3, <1>b, <1>g DEF RemoveStale, Labels, Goto
    <3>2. CASE files' = files
      BY <3>1, <3>2, <1>f, <1>h
    <3>3. CASE files' = Without(target[c])
      BY <3>1, <3>3, <1>a, <1>h, WithoutKeepsType DEF FilesOK
    <3> QED
      BY <2>3, <3>2, <3>3 DEF RemoveStale
  <2>4. CASE AllCleared(c)
    <3>1. RestOK'
      BY <2>4, <1>g DEF AllCleared, Labels, Goto
    <3> QED
      BY <3>1, <2>4, <1>f, <1>h DEF AllCleared
  <2>5. CASE CheckDouble(c)
    <3>1. RestOK'
      BY <2>5, <1>a, <1>b, <1>g, RefusedKeeps DEF CheckDouble, Labels, Goto
    <3> QED
      BY <3>1, <2>5, <1>f, <1>h DEF CheckDouble
  <2>6. CASE Scan(c)
    <3>1. RestOK'
      BY <2>6, <1>b, <1>g DEF Scan, Labels, Goto
    <3> QED
      BY <3>1, <2>6, <1>f, <1>h DEF Scan
  <2>7. CASE CheckExists(c)
    <3>1. RestOK'
      BY <2>7, <1>a, <1>g, RefusedKeeps DEF CheckExists, Labels, Goto
    <3> QED
      BY <3>1, <2>7, <1>f, <1>h DEF CheckExists
  <2>8. CASE Create(c)
    <3>1. RestOK'
      BY <2>8, <1>a, <1>g, RefusedKeeps DEF Create, Labels, Goto
    <3>2. CASE files' = files
      BY <3>1, <3>2, <1>f, <1>h
    <3>3. CASE files' = With(num[c], [by |-> c, written |-> FALSE])
      <4>1. num[c] \in Number
        BY <2>8, <1>i DEF Create, Naming
      <4>2. [by |-> c, written |-> FALSE] \in LockFile
        BY <1>c
      <4>3. FilesOK'
        BY <4>1, <4>2, <3>3, <1>a, WithKeepsType DEF FilesOK
      <4> QED
        BY <4>3, <3>1, <1>h
    <3> QED
      BY <2>8, <3>2, <3>3 DEF Create
  <2>9. CASE Write(c)
    <3>1. RestOK'
      BY <2>9, <1>b, <1>g DEF Write, Labels, Goto
    <3>2. CASE files' = files
      BY <3>1, <3>2, <1>f, <1>h
    <3>3. CASE files' = With(num[c], [by |-> c, written |-> TRUE])
      <4>1. num[c] \in Number
        BY <2>9, <1>i DEF Write, Naming
      <4>2. [by |-> c, written |-> TRUE] \in LockFile
        BY <1>c
      <4>3. FilesOK'
        BY <4>1, <4>2, <3>3, <1>a, WithKeepsType DEF FilesOK
      <4> QED
        BY <4>3, <3>1, <1>h
    <3> QED
      BY <2>9, <3>2, <3>3 DEF Write
  <2>10. CASE Wake(c)
    <3>1. RestOK'
      BY <2>10, <1>g DEF Wake, Labels, Goto
    <3> QED
      BY <3>1, <2>10, <1>f, <1>h DEF Wake
  <2>11. CASE ReadMine(c)
    <3>1. RestOK'
      BY <2>11, <1>b, <1>g DEF ReadMine, Labels, Goto
    <3> QED
      BY <3>1, <2>11, <1>f, <1>h DEF ReadMine
  <2>12. CASE UnlinkMine(c)
    <3>1. RestOK'
      BY <2>12, <1>b, <1>g DEF UnlinkMine, Labels, Goto
    <3>2. CASE files' = files
      BY <3>1, <3>2, <1>f, <1>h
    <3>3. CASE files' = Without(num[c])
      BY <3>1, <3>3, <1>a, <1>h, WithoutKeepsType DEF FilesOK
    <3> QED
      BY <2>12, <3>2, <3>3 DEF UnlinkMine
  <2> QED
    BY <1>5, <2>1, <2>2, <2>3, <2>4, <2>5, <2>6, <2>7, <2>8, <2>9, <2>10, <2>11,
       <2>12 DEF Step
<1>6. CASE UNCHANGED vars
  BY <1>6, <1>f, <1>g, <1>h DEF vars
<1> QED
  BY <1>1, <1>2, <1>3, <1>4, <1>5, <1>6 DEF Next

-----------------------------------------------------------------------------
\* One step keeps the rest of the invariant.
LEMMA StepKeepsFiles ==
  ASSUME Parameters, SharedInv, TypeOK', [Next]_vars
  PROVE  NumbersKnown' /\ NoLeftovers' /\ HeldIsWritten' /\ OwnersKeep'
<1> DEFINE Rest == NumbersKnown /\ NoLeftovers /\ HeldIsWritten /\ OwnersKeep
<1> DEFINE Living == {"write", "held", "release", "unlink", "dead"}
<1> DEFINE Complete == {"held", "release", "unlink"}
<1>a. Parameters /\ TypeOK /\ NumbersKnown /\ NoLeftovers /\ HeldIsWritten /\ OwnersKeep
  BY DEF SharedInv
<1>b. \A n \in Listed : n \in Number /\ files[n] \in LockFile /\ files[n].by \in Locker
  BY <1>a DEF TypeOK, LockFile
<1>p. pc \in [Locker -> Labels] /\ num \in [Locker -> Nat]
  BY <1>a DEF TypeOK
<1>t. Number = Nat \ {0}
  BY DEF Number
<1>n. \A c \in Locker : pc[c] \notin Living => \A n \in Listed : files[n].by # c
  BY <1>a DEF NoLeftovers
<1> HIDE DEF SharedInv
\* What a step of c that leaves the folder alone has to see to.
<1>s. ASSUME NEW c \in Locker, files' = files, pc[c] # "dead",
             \A d \in Locker \ {c} : pc'[d] = pc[d] /\ num'[d] = num[d],
             pc'[c] \in Naming => num'[c] \in Number,
             pc'[c] \in Owning => pc[c] \in Owning /\ num'[c] = num[c],
             pc'[c] \in Complete => pc[c] \in Complete,
             \A n \in Listed : files[n].by = c => pc'[c] \in Living /\ num'[c] = num[c],
             pc'[c] = "remove" => ~NobodyDied'
      PROVE Rest'
  <2>1. Listed' = Listed /\ \A n : Exists(n)' <=> Exists(n)
    BY <1>s, SameFiles DEF Exists
  <2>2. NumbersKnown'
    BY <1>s, <1>a DEF NumbersKnown
  <2>3. NoLeftovers'
    BY <1>s, <1>a, <1>b, <2>1 DEF NoLeftovers
  <2>4. HeldIsWritten'
    BY <1>s, <1>a, <1>b, <2>1 DEF HeldIsWritten
  <2>5. OwnersKeep'
    <3> SUFFICES ASSUME NobodyDied', NEW d \in Locker
                 PROVE  /\ pc'[d] \in Owning => Exists(num[d])' /\ files'[num'[d]].by = d
                        /\ pc'[d] # "remove"
      BY DEF OwnersKeep
    <3>1. NobodyDied
      BY <1>s DEF NobodyDied
    <3>2. /\ pc[d] \in Owning => num[d] \in Listed /\ files[num[d]].by = d
          /\ pc[d] # "remove"
      BY <3>1, <1>a DEF OwnersKeep, Exists
    <3>3. CASE d = c
      BY <3>2, <3>3, <1>s, <2>1 DEF Exists
    <3>4. CASE d # c
      BY <3>2, <3>4, <1>s, <2>1 DEF Exists
    <3> QED
      BY <3>3, <3>4
  <2> QED
    BY <2>2, <2>3, <2>4, <2>5
<1>1. ASSUME NEW c \in Locker, Acquire(c) PROVE Rest'
  BY <1>1, <1>s, <1>p, <1>n DEF Acquire, Goto, Naming, Owning
<1>2. ASSUME NEW c \in Locker, Release(c) PROVE Rest'
  BY <1>2, <1>s, <1>p, <1>a DEF Release, Goto, Naming, Owning, NumbersKnown
<1>3. ASSUME NEW c \in Locker, Catch(c) PROVE Rest'
  BY <1>3, <1>s, <1>p, <1>n DEF Catch, Goto, Naming, Owning
<1>4. ASSUME NEW c \in Locker, Die(c) PROVE Rest'
  BY <1>4, <1>s, <1>p DEF Die, Goto, Naming, Owning
<1>5. ASSUME NEW c \in Locker, Step(c) PROVE Rest'
  <2>1. CASE ReadListed(c)
    BY <2>1, <1>s, <1>p, <1>n DEF ReadListed, Goto, Naming, Owning
  <2>2. CASE JudgeListed(c)
    <3>1. seen[c] \in Locker /\ pc[c] = "judge"
      BY <2>2, <1>a DEF JudgeListed, TypeOK
    <3>2. CASE pc[seen[c]] = "dead"
      <4>1. pc' = [pc EXCEPT ![c] = "remove"] /\ files' = files /\ num' = num
        BY <2>2, <3>2 DEF JudgeListed, Goto
      <4>2. ~NobodyDied'
        BY <4>1, <3>1, <3>2, <1>p DEF NobodyDied
      <4> QED
        BY <4>1, <4>2, <3>1, <1>s, <1>p, <1>n DEF Naming, Owning
    <3>3. CASE pc[seen[c]] # "dead"
      BY <2>2, <3>1, <3>3, <1>s, <1>p, <1>n DEF JudgeListed, Goto, Naming, Owning
    <3> QED
      BY <3>2, <3>3
  <2>3. CASE RemoveStale(c)
    \* Somebody has died, or the clearer would not have come so far.
    <3>1. /\ pc[c] = "remove"
          /\ pc' \in {[pc EXCEPT ![c] = "clear"], [pc EXCEPT ![c] = "threw"]}
          /\ num' = num
          /\ files' = files \/ files' = Without(target[c])
      BY <2>3 DEF RemoveStale, Goto
    <3>2. ~NobodyDied /\ ~NobodyDied'
      BY <3>1, <1>a, <1>p DEF OwnersKeep, NobodyDied
    <3>3. \A n \in Listed' : n \in Listed /\ files'[n] = files[n]
      BY <3>1, SameFiles, AfterWithout
    <3>4. \A d \in Locker : pc[d] \in Living => pc'[d] = pc[d]
      BY <3>1, <1>p
    <3>5. \A d \in Locker : pc'[d] \in Naming => pc[d] = pc'[d]
      BY <3>1, <1>p DEF Naming
    <3>6. NumbersKnown'
      BY <3>1, <3>5, <1>a DEF NumbersKnown
    <3>7. NoLeftovers'
      BY <3>1, <3>3, <3>4, <1>a, <1>b DEF NoLeftovers
    <3>8. HeldIsWritten'
      BY <3>3, <3>5, <1>a, <1>b DEF HeldIsWritten, Naming
    <3> QED
      BY <3>2, <3>6, <3>7, <3>8 DEF OwnersKeep
  <2>4. CASE AllCleared(c)
    BY <2>4, <1>s, <1>p, <1>n DEF AllCleared, Goto, Naming, Owning
  <2>5. CASE CheckDouble(c)
    BY <2>5, <1>s, <1>p, <1>n DEF CheckDouble, Refused, Goto, Naming, Owning
  <2>6. CASE Scan(c)
    <3>1. num[c] + 1 \in Number
      BY <1>p, <1>t
    <3> QED
      BY <3>1, <2>6, <1>s, <1>p, <1>n DEF Scan, Goto, Naming, Owning
  <2>7. CASE CheckExists(c)
    BY <2>7, <1>s, <1>p, <1>n, <1>a
       DEF CheckExists, Refused, Goto, Naming, Owning, NumbersKnown
  <2>8. CASE Create(c)
    <3>1. CASE Exists(num[c])
      BY <2>8, <3>1, <1>s, <1>p, <1>n DEF Create, Refused, Goto, Naming, Owning
    <3>2. CASE ~Exists(num[c])
      <4>1. /\ files' = With(num[c], [by |-> c, written |-> FALSE])
            /\ pc' = [pc EXCEPT ![c] = "write"]
            /\ pc[c] = "create" /\ num' = num
        BY <2>8, <3>2 DEF Create, Goto
      <4>2. /\ Listed' = Listed \cup {num[c]} /\ num[c] \notin Listed
            /\ files'[num[c]] = [by |-> c, written |-> FALSE]
            /\ \A n \in Listed : files'[n] = files[n] /\ files[n].by # c
        <5>1. \A n \in Listed : files[n].by # c
          BY <4>1, <1>n
        <5>2. num[c] \notin Listed
          BY <3>2 DEF Exists
        <5>3. /\ Listed' = Listed \cup {num[c]}
              /\ files'[num[c]] = [by |-> c, written |-> FALSE]
              /\ \A n \in Listed \ {num[c]} : files'[n] = files[n]
          <6>1. files' = With(num[c], [by |-> c, written |-> FALSE])
            BY <4>1
          <6> QED
            BY <6>1, AfterWith
        <5> QED
          BY <5>1, <5>2, <5>3
      <4>3. NumbersKnown'
        BY <4>1, <1>a, <1>p DEF NumbersKnown, Naming
      <4>4. NoLeftovers'
        <5> SUFFICES ASSUME NEW n \in Listed'
                     PROVE  pc'[files'[n].by] \in Living /\ num'[files'[n].by] = n
          BY DEF NoLeftovers
        <5>1. CASE n = num[c]
          <6>1. files'[n].by = c
            BY <5>1, <4>2
          <6> QED
            BY <5>1, <6>1, <4>1, <1>p
        <5>2. CASE n # num[c]
          <6>1. n \in Listed /\ files'[n] = files[n] /\ files[n].by # c
            BY <5>2, <4>2
          <6>2. pc[files[n].by] \in Living /\ num[files[n].by] = n
            BY <6>1, <1>a DEF NoLeftovers
          <6> QED
            BY <6>1, <6>2, <4>1, <1>b, <1>p
        <5> QED
          BY <5>1, <5>2
      <4>5. HeldIsWritten'
        <5> SUFFICES ASSUME NEW n \in Listed', pc'[files'[n].by] \in Complete
                     PROVE  files'[n].written
          BY DEF HeldIsWritten
        <5>1. n # num[c]
          <6>1. files'[num[c]].by = c /\ pc'[c] = "write"
            BY <4>1, <4>2, <1>p
          <6> QED
            BY <6>1
        <5>2. n \in Listed /\ files'[n] = files[n] /\ files[n].by # c
          BY <5>1, <4>2
        <5>3. pc[files[n].by] \in Complete
          BY <5>2, <4>1, <1>b, <1>p
        <5> QED
          BY <5>2, <5>3, <1>a DEF HeldIsWritten
      <4>6. OwnersKeep'
        <5> SUFFICES ASSUME NobodyDied', NEW d \in Locker
                     PROVE  /\ pc'[d] \in Owning => Exists(num[d])' /\ files'[num'[d]].by = d
                            /\ pc'[d] # "remove"
          BY DEF OwnersKeep
        <5>1. NobodyDied
          BY <4>1, <1>p DEF NobodyDied
        <5>2. CASE d = c
          BY <5>2, <4>1, <4>2, <1>p DEF Exists
        <5>3. CASE d # c
          BY <5>1, <5>3, <4>1, <4>2, <1>a, <1>p DEF OwnersKeep, Exists
        <5> QED
          BY <5>2, <5>3
      <4> QED
        BY <4>3, <4>4, <4>5, <4>6
    <3> QED
      BY <3>1, <3>2
  <2>9. CASE Write(c)
    <3>1. /\ pc[c] = "write" /\ pc' = [pc EXCEPT ![c] = "held"] /\ num' = num
      BY <2>9 DEF Write, Goto
    \* Only the creator's own file changes, from begun to complete.
    <3>2. /\ Listed' = Listed
          /\ \A n \in Listed :
                /\ files'[n].by = files[n].by
                /\ files[n].by = c => files'[n].written
                /\ files[n].by # c => files'[n] = files[n]
      <4>1. CASE Exists(num[c]) /\ files[num[c]].by = c
        <5>1. files' = With(num[c], [by |-> c, written |-> TRUE])
          BY <2>9, <4>1 DEF Write
        <5>2. \A n \in Listed : files[n].by = c => n = num[c]
          BY <1>a DEF NoLeftovers
        <5>3. num[c] \in Listed
          BY <4>1 DEF Exists
        <5>4. /\ Listed' = Listed \cup {num[c]}
              /\ files'[num[c]] = [by |-> c, written |-> TRUE]
              /\ \A n \in Listed \ {num[c]} : files'[n] = files[n]
          BY <5>1, AfterWith
        <5> QED
          BY <4>1, <5>2, <5>3, <5>4
      <4>2. CASE ~(Exists(num[c]) /\ files[num[c]].by = c)
        <5>1. files' = files
          BY <2>9, <4>2 DEF Write
        <5>2. \A n \in Listed : files[n].by # c
          BY <4>2, <1>a DEF NoLeftovers, Exists
        <5> QED
          BY <5>1, <5>2, SameFiles
      <4> QED
        BY <4>1, <4>2
    <3>3. NumbersKnown'
      BY <3>1, <1>a, <1>p DEF NumbersKnown, Naming
    <3>4. NoLeftovers'
      BY <3>1, <3>2, <1>a, <1>b, <1>p DEF NoLeftovers
    <3>5. HeldIsWritten'
      BY <3>1, <3>2, <1>a, <1>b, <1>p DEF HeldIsWritten
    <3>6. OwnersKeep'
      <4> SUFFICES ASSUME NobodyDied', NEW d \in Locker
                   PROVE  /\ pc'[d] \in Owning => Exists(num[d])' /\ files'[num'[d]].by = d
                          /\ pc'[d] # "remove"
        BY DEF OwnersKeep
      <4>1. NobodyDied
        BY <3>1, <1>p DEF NobodyDied
      <4>2. pc'[d] \in Owning => pc[d] \in Owning
        BY <3>1, <1>p DEF Owning
      <4> QED
        BY <4>1, <4>2, <3>1, <3>2, <1>a, <1>p DEF OwnersKeep, Exists
    <3> QED
      BY <3>3, <3>4, <3>5, <3>6
  <2>10. CASE Wake(c)
    BY <2>10, <1>s, <1>p, <1>n DEF Wake, Goto, Naming, Owning
  <2>11. CASE ReadMine(c)
    <3>1. CASE Exists(num[c]) /\ files[num[c]] = [by |-> c, written |-> TRUE]
      BY <2>11, <3>1, <1>s, <1>p, <1>a DEF ReadMine, Goto, Naming, Owning, NumbersKnown
    <3>2. CASE ~(Exists(num[c]) /\ files[num[c]] = [by |-> c, written |-> TRUE])
      <4>1. pc[c] = "release"
        BY <2>11 DEF ReadMine
      \* The locker has no file any more.
      <4>2. ASSUME NEW n \in Listed, files[n].by = c PROVE FALSE
        <5>1. n = num[c] /\ files[n].written /\ files[n] \in LockFile
          BY <4>1, <4>2, <1>a, <1>b DEF NoLeftovers, HeldIsWritten
        <5>2. files[n] = [by |-> c, written |-> TRUE]
          BY <4>2, <5>1 DEF LockFile
        <5> QED
          BY <3>2, <5>1, <5>2 DEF Exists
      <4> QED
        BY <2>11, <3>2, <4>2, <1>s, <1>p DEF ReadMine, Goto, Naming, Owning
    <3> QED
      BY <3>1, <3>2
  <2>12. CASE UnlinkMine(c)
    <3>1. pc[c] = "unlink"
      BY <2>12 DEF UnlinkMine
    <3>2. CASE ~Exists(num[c])
      <4>1. \A n \in Listed : files[n].by # c
        BY <3>2, <1>a DEF NoLeftovers, Exists
      <4> QED
        BY <4>1, <2>12, <3>2, <1>s, <1>p DEF UnlinkMine, Goto, Naming, Owning
    <3>3. CASE Exists(num[c])
      <4>1. /\ files' = Without(num[c])
            /\ pc' = [pc EXCEPT ![c] = "idle"] /\ num' = [num EXCEPT ![c] = 0]
        BY <2>12, <3>3 DEF UnlinkMine, Goto
      \* Whoever's file it was, the locker has none any more.
      <4>2. /\ Listed' = Listed \ {num[c]}
            /\ \A n \in Listed' : files'[n] = files[n] /\ files[n].by # c
        <5>1. Listed' = Listed \ {num[c]} /\ \A n \in Listed' : files'[n] = files[n]
          BY <4>1, AfterWithout
        <5>2. \A n \in Listed : files[n].by = c => n = num[c]
          BY <1>a DEF NoLeftovers
        <5> QED
          BY <5>1, <5>2
      <4>3. NumbersKnown'
        BY <4>1, <1>a, <1>p DEF NumbersKnown, Naming
      <4>4. NoLeftovers'
        BY <4>1, <4>2, <1>a, <1>b, <1>p DEF NoLeftovers
      <4>5. HeldIsWritten'
        BY <4>1, <4>2, <1>a, <1>b, <1>p DEF HeldIsWritten
      <4>6. OwnersKeep'
        <5> SUFFICES ASSUME NobodyDied', NEW d \in Locker
                     PROVE  /\ pc'[d] \in Owning => Exists(num[d])' /\ files'[num'[d]].by = d
                            /\ pc'[d] # "remove"
          BY DEF OwnersKeep
        <5>1. NobodyDied
          BY <3>1, <4>1, <1>p DEF NobodyDied
        <5>2. CASE d = c
          BY <5>2, <4>1, <1>p DEF Owning
        <5>3. CASE d # c
          <6>1. pc'[d] = pc[d] /\ num'[d] = num[d]
            BY <5>3, <4>1, <1>p
          <6>2. pc[d] \in Owning => num[d] \in Listed /\ files[num[d]].by = d
            BY <5>1, <1>a DEF OwnersKeep, Exists
          <6>3. files[num[c]].by = c
            BY <5>1, <3>1, <1>a DEF OwnersKeep, Owning
          <6>4. pc[d] # "remove"
            BY <5>1, <1>a DEF OwnersKeep
          <6> QED
            BY <5>3, <6>1, <6>2, <6>3, <6>4, <4>2 DEF Exists
        <5> QED
          BY <5>2, <5>3
      <4> QED
        BY <4>3, <4>4, <4>5, <4>6
    <3> QED
      BY <3>2, <3>3
  <2> QED
    BY <1>5, <2>1, <2>2, <2>3, <2>4, <2>5, <2>6, <2>7, <2>8, <2>9, <2>10, <2>11,
       <2>12 DEF Step
<1>6. CASE UNCHANGED vars
  <2>1. files' = files /\ pc' = pc /\ num' = num /\ Listed' = Listed
    BY <1>6, SameFiles DEF vars
  <2>2. \A n : Exists(n)' <=> Exists(n)
    BY <2>1 DEF Exists
  <2> QED
    BY <2>1, <2>2, <1>a
       DEF NumbersKnown, NoLeftovers, HeldIsWritten, OwnersKeep, NobodyDied
<1> QED
  BY <1>1, <1>2, <1>3, <1>4, <1>5, <1>6 DEF Next

\* Files and lockers agree, whoever dies and whoever clears.
THEOREM FilesAgree ==
  ASSUME Parameters
  PROVE  Spec => []SharedInv
<1>1. Init => SharedInv
  <2> SUFFICES ASSUME Init PROVE SharedInv
    OBVIOUS
  <2>1. Listed = {}
    BY DEF Init, Listed
  <2>2. TypeOK
    BY <2>1 DEF Parameters, Init, TypeOK, Labels, Number
  <2>3. NumbersKnown /\ NoLeftovers /\ HeldIsWritten /\ OwnersKeep
    BY <2>1 DEF Init, NumbersKnown, NoLeftovers, HeldIsWritten, OwnersKeep, Naming, Owning
  <2> QED
    BY <2>2, <2>3 DEF SharedInv
<1>2. SharedInv /\ [Next]_vars => SharedInv'
  BY TypeStep, StepKeepsFiles DEF SharedInv
<1> QED
  BY <1>1, <1>2, PTL DEF Spec

-----------------------------------------------------------------------------
\* No lock file is left behind by a locker that lives: a file in the folder
\* belongs to a holder, to a call in progress, or to a dead process.
THEOREM NothingLeft ==
  ASSUME Parameters
  PROVE  Spec => []NoLeftovers
<1>1. SharedInv => NoLeftovers
  BY DEF SharedInv
<1> QED
  BY <1>1, FilesAgree, PTL

\* Every holder has a complete lock file of its own as long as nobody has
\* died, so that Is_Locked answers TRUE.
THEOREM SharedHeldFile ==
  ASSUME Parameters
  PROVE  Spec => [](HeldHasFile /\ (NobodyDied /\ Holders # {} => IsLocked))
<1>1. ASSUME SharedInv, NobodyDied, NEW c \in Holders
      PROVE  /\ files[num[c]] = [by |-> c, written |-> TRUE]
             /\ Exists(num[c]) /\ Listed # {}
  <2>1. /\ c \in Locker /\ pc[c] = "held" /\ num[c] \in Number
        /\ Exists(num[c]) /\ files[num[c]].by = c
    BY <1>1 DEF SharedInv, Holders, OwnersKeep, Owning, NumbersKnown, Naming
  <2>2. files[num[c]] \in LockFile /\ files[num[c]].written
    BY <1>1, <2>1 DEF SharedInv, TypeOK, HeldIsWritten, Listed, Exists
  <2> QED
    BY <2>1, <2>2 DEF LockFile, Exists
<1>2. SharedInv => HeldHasFile /\ (NobodyDied /\ Holders # {} => IsLocked)
  BY <1>1 DEF HeldHasFile, IsLocked
<1> QED
  BY <1>2, FilesAgree, PTL
-----------------------------------------------------------------------------
(* The numbers stay low                                                     *)

\* The locker's own file is in the folder.
OwnsFile(c) == Exists(num[c]) /\ files[num[c]].by = c

\* How many numbers, from 1 upwards, a locker has found taken in the scan that
\* brought it to where it is. The dead count for as long as their file stays.
Passed(c) ==
    IF pc[c] = "scan" THEN num[c]
    ELSE IF pc[c] \in Naming \/ (pc[c] = "dead" /\ OwnsFile(c)) THEN num[c] - 1
    ELSE 0

Ahead(m) == {c \in Locker : Passed(c) >= m}

\* Of every number that has been passed, its owner was left behind.
FewerAhead ==
    \A m \in 0..Cardinality(Locker) : Cardinality(Ahead(m)) + m <= Cardinality(Locker)

\* The inductive invariant of the counting.
CountInv == FewerAhead /\ NumbersStayLow

LEMMA AheadIsFinite ==
  ASSUME Parameters, NEW m
  PROVE  /\ IsFiniteSet(Ahead(m)) /\ Cardinality(Ahead(m)) \in Nat
         /\ Cardinality(Ahead(m)) <= Cardinality(Locker)
         /\ Cardinality(Locker) \in Nat
BY FS_Subset, FS_CardinalityType DEF Parameters, Ahead

\* The same at the next state.
LEMMA AheadIsFiniteNext ==
  ASSUME Parameters, NEW m
  PROVE  IsFiniteSet(Ahead(m)') /\ Cardinality(Ahead(m)') \in Nat
BY FS_Subset, FS_CardinalityType DEF Parameters, Ahead

\* Where nobody passes another number, nobody gets ahead.
LEMMA NobodyAdvances ==
  ASSUME Parameters, FewerAhead,
         \A c \in Locker : Passed(c) \in Int /\ Passed(c)' \in Int /\ Passed(c)' <= Passed(c)
  PROVE  FewerAhead'
<1> SUFFICES ASSUME NEW m \in 0..Cardinality(Locker)
             PROVE  Cardinality(Ahead(m)') + m <= Cardinality(Locker)
  BY DEF FewerAhead
<1>1. m \in Int
  BY AheadIsFinite
<1>2. Ahead(m)' \in SUBSET Ahead(m)
  BY <1>1 DEF Ahead
<1>3. Cardinality(Ahead(m)') <= Cardinality(Ahead(m))
  BY <1>2, AheadIsFinite, FS_Subset
<1>4. Cardinality(Ahead(m)) + m <= Cardinality(Locker)
  BY DEF FewerAhead
<1> QED
  BY <1>1, <1>3, <1>4, AheadIsFinite, AheadIsFiniteNext

\* The numbers passed are numbers.
LEMMA PassedType ==
  ASSUME SharedInv, NEW c \in Locker
  PROVE  Passed(c) \in Nat /\ num[c] \in Nat /\ (pc[c] \in Naming => num[c] >= 1)
<1>1. /\ num[c] \in Nat
      /\ pc[c] \in Naming => num[c] \in Nat \ {0}
      /\ OwnsFile(c) => num[c] \in Nat \ {0}
  BY DEF SharedInv, TypeOK, NumbersKnown, Number, OwnsFile, Exists
<1> QED
  BY <1>1 DEF Passed

\* The same at the next state.
LEMMA PassedTypeNext ==
  ASSUME SharedInv', NEW c \in Locker
  PROVE  Passed(c)' \in Nat
<1>1. /\ num'[c] \in Nat
      /\ pc'[c] \in Naming => num'[c] \in Nat \ {0}
      /\ OwnsFile(c)' => num'[c] \in Nat \ {0}
  BY DEF SharedInv, TypeOK, NumbersKnown, Number, OwnsFile, Exists
<1> QED
  BY <1>1 DEF Passed

\* One turn of the do-while loop that finds the number taken: the owner has
\* passed exactly the numbers below it, so the scanner leaves it behind.
LEMMA ScanLeavesOwner ==
  ASSUME Parameters, SharedInv, FewerAhead, NEW c \in Locker, Scan(c)
  PROVE  FewerAhead' /\ num[c] + 1 <= Cardinality(Locker)
<1> DEFINE k == num[c]
<1> DEFINE N == Cardinality(Locker)
<1>1. /\ pc[c] = "scan" /\ k \in Nat /\ N \in Nat
      /\ num' = [num EXCEPT ![c] = k + 1]
      /\ pc' = [pc EXCEPT ![c] = IF Exists(k + 1) THEN "scan" ELSE "exists"]
      /\ files' = files
      /\ num \in [Locker -> Nat] /\ pc \in [Locker -> Labels]
  BY AheadIsFinite DEF Scan, Goto, SharedInv, TypeOK
<1>2. Passed(c) = k
  BY <1>1 DEF Passed
<1>3. Passed(c)' = IF Exists(k + 1) THEN k + 1 ELSE k
  BY <1>1 DEF Passed, Naming
<1>4. ASSUME NEW d \in Locker, d # c PROVE Passed(d)' = Passed(d)
  BY <1>1, <1>4, SameFiles DEF Passed, OwnsFile, Exists
<1>5. \A d \in Locker : Passed(d) \in Nat
  BY PassedType
\* The scanner is one of those that have passed k numbers, so k is below N.
<1>6. k + 1 <= N
  <2>1. ASSUME k >= N PROVE FALSE
    <3>1. Cardinality(Ahead(N)) + N <= N
      BY <1>1 DEF FewerAhead
    <3>2. Cardinality(Ahead(N)) = 0
      BY <3>1, <1>1, AheadIsFinite
    <3>3. c \in Ahead(N)
      BY <1>1, <1>2, <2>1 DEF Ahead
    <3> QED
      BY <3>2, <3>3, AheadIsFinite, FS_EmptySet
  <2> QED
    BY <2>1, <1>1
<1>7. CASE ~Exists(k + 1)
  <2>1. \A d \in Locker : Passed(d)' = Passed(d)
    BY <1>2, <1>3, <1>4, <1>7
  <2>2. \A d \in Locker : Passed(d) \in Int /\ Passed(d)' \in Int /\ Passed(d)' <= Passed(d)
    BY <2>1, <1>5
  <2> QED
    BY <2>2, <1>6, NobodyAdvances
<1>8. CASE Exists(k + 1)
  <2> DEFINE h == files[k + 1].by
  <2>1. /\ h \in Locker /\ num[h] = k + 1 /\ h # c
        /\ pc[h] \in {"write", "held", "release", "unlink", "dead"}
    BY <1>1, <1>8 DEF SharedInv, TypeOK, NoLeftovers, LockFile, Exists
  <2>2. Passed(h) = k
    <3>1. OwnsFile(h)
      BY <2>1, <1>8 DEF OwnsFile
    <3>2. Passed(h) = num[h] - 1
      BY <2>1, <3>1 DEF Passed, Naming
    <3> QED
      BY <3>2, <2>1, <1>1
  <2> HIDE DEF h, N, k
  <2>3. ASSUME NEW m \in 0..N PROVE Cardinality(Ahead(m)') + m <= N
    <3>0. m \in Nat
      BY <2>3, <1>1
    <3>1. CASE m # k + 1
      <4>1. \A d \in Locker : Passed(d)' >= m <=> Passed(d) >= m
        BY <3>0, <3>1, <1>1, <1>2, <1>3, <1>4, <1>8
      <4>2. Ahead(m)' = Ahead(m)
        BY <4>1 DEF Ahead
      <4>3. Cardinality(Ahead(m)) + m <= N
        BY <2>3 DEF FewerAhead, N
      <4> QED
        BY <4>2, <4>3
    <3>2. CASE m = k + 1
      <4>1. k \in 0..N
        BY <1>1, <1>6
      <4>2. Cardinality(Ahead(k)) + k <= N
        BY <4>1 DEF FewerAhead, N
      <4>3. h \in Ahead(k)
        BY <2>1, <2>2, <1>1 DEF Ahead
      <4>4. Ahead(m)' \in SUBSET (Ahead(k) \ {h})
        <5> SUFFICES ASSUME NEW d \in Ahead(m)' PROVE d \in Ahead(k) /\ d # h
          OBVIOUS
        <5>1. d \in Locker /\ Passed(d)' >= k + 1
          BY <3>2 DEF Ahead
        <5>2. CASE d = c
          BY <5>2, <1>1, <1>2, <2>1 DEF Ahead
        <5>3. CASE d # c
          <6>1. Passed(d) >= k + 1 /\ Passed(d) \in Nat
            BY <5>1, <5>3, <1>4, <1>5
          <6> QED
            BY <5>1, <6>1, <1>1, <2>2 DEF Ahead
        <5> QED
          BY <5>2, <5>3
      <4>5. /\ IsFiniteSet(Ahead(k) \ {h})
            /\ Cardinality(Ahead(k) \ {h}) = Cardinality(Ahead(k)) - 1
        BY <4>3, AheadIsFinite, FS_RemoveElement
      <4>6. Cardinality(Ahead(m)') <= Cardinality(Ahead(k)) - 1
        BY <4>4, <4>5, FS_Subset
      <4>7. Cardinality(Ahead(m)') \in Nat /\ Cardinality(Ahead(k)) \in Nat
        BY AheadIsFinite, AheadIsFiniteNext
      <4> QED
        BY <3>2, <4>2, <4>6, <4>7, <1>1
    <3> QED
      BY <3>1, <3>2
  <2>4. FewerAhead'
    BY <2>3 DEF FewerAhead, N
  <2> QED
    BY <2>4, <1>6 DEF k, N
<1> QED
  BY <1>7, <1>8

\* Whatever else a locker does, and whenever it dies, it has not passed more
\* numbers than before, nor does its own number grow.
LEMMA OthersStay ==
  ASSUME SharedInv, SharedInv', [Next]_vars, \A c \in Locker : ~Scan(c)
  PROVE  \A c \in Locker : Passed(c)' <= Passed(c) /\ num'[c] <= num[c]
<1> SUFFICES ASSUME NEW d \in Locker PROVE Passed(d)' <= Passed(d) /\ num'[d] <= num[d]
  OBVIOUS
<1> DEFINE Goal == Passed(d)' <= Passed(d) /\ num'[d] <= num[d]
<1>a. pc \in [Locker -> Labels] /\ num \in [Locker -> Nat]
  BY DEF SharedInv, TypeOK
<1>b. /\ Passed(d) \in Nat /\ num[d] \in Nat
      /\ pc[d] \in Naming => num[d] >= 1
  BY PassedType
\* What the locker that does not move may lose is its file.
<1>s. ASSUME pc'[d] = pc[d], num'[d] = num[d], pc[d] = "dead" /\ OwnsFile(d)' => OwnsFile(d)
      PROVE  Goal
  <2>1. \/ Passed(d)' = Passed(d)
        \/ Passed(d)' = 0
    BY <1>s DEF Passed
  <2> QED
    BY <2>1, <1>s, <1>b
\* One that moves either keeps its number or has passed none.
<1>m. ASSUME pc[d] \in Naming, pc'[d] \in Naming, num'[d] = num[d] PROVE Goal
  <2>1. Passed(d)' = Passed(d)
    BY <1>m DEF Passed, Naming
  <2> QED
    BY <2>1, <1>m, <1>b
<1>z. ASSUME pc'[d] \notin Naming \cup {"dead", "scan"}, num'[d] \in {0, num[d]} PROVE Goal
  <2>1. Passed(d)' = 0
    BY <1>z DEF Passed
  <2> QED
    BY <2>1, <1>z, <1>b
\* A step of another locker: what it does to the folder is its own affair.
<1>o. ASSUME NEW c \in Locker, c # d,
             pc' = [pc EXCEPT ![c] = pc'[c]], num' = [num EXCEPT ![c] = num'[c]],
             \A n : n \in Listed' /\ files'[n].by = d => n \in Listed /\ files[n].by = d
      PROVE  Goal
  <2>1. pc'[d] = pc[d] /\ num'[d] = num[d]
    BY <1>o, <1>a
  <2>2. OwnsFile(d)' => OwnsFile(d)
    BY <2>1, <1>o DEF OwnsFile, Exists
  <2> QED
    BY <2>1, <2>2, <1>s
<1>f. files' = files => \A n : n \in Listed' /\ files'[n].by = d => n \in Listed /\ files[n].by = d
  BY SameFiles
<1>1. ASSUME NEW c \in Locker, Acquire(c) PROVE Goal
  BY <1>1, <1>a, <1>o, <1>f, <1>z DEF Acquire, Goto, Naming
<1>2. ASSUME NEW c \in Locker, Release(c) PROVE Goal
  BY <1>2, <1>a, <1>o, <1>f, <1>m DEF Release, Goto, Naming
<1>3. ASSUME NEW c \in Locker, Catch(c) PROVE Goal
  BY <1>3, <1>a, <1>o, <1>f, <1>z DEF Catch, Goto, Naming
<1>4. ASSUME NEW c \in Locker, Die(c) PROVE Goal
  <2>1. CASE c # d
    BY <2>1, <1>4, <1>a, <1>o, <1>f DEF Die, Goto
  <2>2. CASE c = d
    <3>1. /\ pc'[d] = "dead" /\ num'[d] = num[d] /\ pc[d] # "dead"
          /\ OwnsFile(d)' <=> OwnsFile(d)
      BY <2>2, <1>4, <1>a, SameFiles DEF Die, Goto, OwnsFile, Exists
    <3>2. CASE ~OwnsFile(d)
      <4>1. Passed(d)' = 0
        BY <3>1, <3>2 DEF Passed, Naming
      <4> QED
        BY <4>1, <3>1, <1>b
    <3>3. CASE OwnsFile(d)
      <4>1. pc[d] \in Naming
        BY <3>1, <3>3 DEF OwnsFile, Exists, SharedInv, NoLeftovers, Naming
      <4>2. Passed(d)' = Passed(d)
        BY <3>1, <3>3, <4>1 DEF Passed, Naming
      <4> QED
        BY <4>2, <3>1, <1>b
    <3> QED
      BY <3>2, <3>3
  <2> QED
    BY <2>1, <2>2
<1>5. ASSUME NEW c \in Locker, Step(c) PROVE Goal
  <2>1. CASE ReadListed(c)
    BY <2>1, <1>a, <1>o, <1>f, <1>z, <1>s DEF ReadListed, Goto, Naming
  <2>2. CASE JudgeListed(c)
    BY <2>2, <1>a, <1>o, <1>f, <1>z DEF JudgeListed, Goto, Naming
  <2>3. CASE RemoveStale(c)
    <3>1. \A n : n \in Listed' /\ files'[n].by = d => n \in Listed /\ files[n].by = d
      BY <2>3, <1>f, AfterWithout DEF RemoveStale
    <3> QED
      BY <2>3, <3>1, <1>a, <1>o, <1>z DEF RemoveStale, Goto, Naming
  <2>4. CASE AllCleared(c)
    BY <2>4, <1>a, <1>o, <1>f, <1>z DEF AllCleared, Goto, Naming
  <2>5. CASE CheckDouble(c)
    <3>1. CASE c # d
      BY <3>1, <2>5, <1>a, <1>o, <1>f DEF CheckDouble, Refused, Goto
    <3>2. CASE c = d /\ pc'[d] = "scan"
      <4>1. num'[d] = 0
        BY <3>2, <2>5, <1>a DEF CheckDouble, Refused, Goto
      <4>2. Passed(d)' = 0
        BY <3>2, <4>1 DEF Passed
      <4> QED
        BY <4>1, <4>2, <1>b
    <3>3. CASE c = d /\ pc'[d] # "scan"
      BY <3>3, <2>5, <1>a, <1>z DEF CheckDouble, Refused, Goto, Naming
    <3> QED
      BY <3>1, <3>2, <3>3
  <2>6. CASE CheckExists(c)
    BY <2>6, <1>a, <1>o, <1>f, <1>z, <1>m DEF CheckExists, Refused, Goto, Naming
  <2>7. CASE Create(c)
    <3>1. CASE c # d
      <4>1. \A n : n \in Listed' /\ files'[n].by = d => n \in Listed /\ files[n].by = d
        <5>1. CASE files' = files
          BY <5>1, <1>f
        <5>2. CASE files' = With(num[c], [by |-> c, written |-> FALSE])
          <6>1. /\ Listed' = Listed \cup {num[c]}
                /\ files'[num[c]] = [by |-> c, written |-> FALSE]
                /\ \A n \in Listed \ {num[c]} : files'[n] = files[n]
            BY <5>2, AfterWith
          <6> QED
            BY <6>1, <3>1
        <5> QED
          BY <2>7, <5>1, <5>2 DEF Create
      <4> QED
        BY <3>1, <4>1, <2>7, <1>a, <1>o DEF Create, Refused, Goto
    <3>2. CASE c = d
      BY <3>2, <2>7, <1>a, <1>z, <1>m DEF Create, Refused, Goto, Naming
    <3> QED
      BY <3>1, <3>2
  <2>8. CASE Write(c)
    <3>1. CASE c # d
      <4>1. \A n : n \in Listed' /\ files'[n].by = d => n \in Listed /\ files[n].by = d
        <5>1. CASE files' = files
          BY <5>1, <1>f
        <5>2. CASE files' = With(num[c], [by |-> c, written |-> TRUE])
          <6>1. /\ Listed' = Listed \cup {num[c]}
                /\ files'[num[c]] = [by |-> c, written |-> TRUE]
                /\ \A n \in Listed \ {num[c]} : files'[n] = files[n]
            BY <5>2, AfterWith
          <6> QED
            BY <6>1, <3>1
        <5> QED
          BY <2>8, <5>1, <5>2 DEF Write
      <4> QED
        BY <3>1, <4>1, <2>8, <1>a, <1>o DEF Write, Goto
    <3>2. CASE c = d
      BY <3>2, <2>8, <1>a, <1>m DEF Write, Goto, Naming
    <3> QED
      BY <3>1, <3>2
  <2>9. CASE Wake(c)
    BY <2>9, <1>a, <1>o, <1>f, <1>z DEF Wake, Goto, Naming
  <2>10. CASE ReadMine(c)
    BY <2>10, <1>a, <1>o, <1>f, <1>z, <1>m DEF ReadMine, Goto, Naming
  <2>11. CASE UnlinkMine(c)
    <3>1. \A n : n \in Listed' /\ files'[n].by = d => n \in Listed /\ files[n].by = d
      BY <2>11, <1>f, AfterWithout DEF UnlinkMine
    <3> QED
      BY <2>11, <3>1, <1>a, <1>o, <1>z DEF UnlinkMine, Goto, Naming
  <2> QED
    BY <1>5, <2>1, <2>2, <2>3, <2>4, <2>5, <2>6, <2>7, <2>8, <2>9, <2>10, <2>11
       DEF Step
<1>6. CASE UNCHANGED vars
  <2>1. pc' = pc /\ num' = num /\ files' = files
    BY <1>6 DEF vars
  <2> QED
    BY <2>1, <1>s, SameFiles DEF OwnsFile, Exists
<1> QED
  BY <1>1, <1>2, <1>3, <1>4, <1>5, <1>6 DEF Next

LEMMA CountStep ==
  ASSUME Parameters, SharedInv, SharedInv', CountInv, [Next]_vars
  PROVE  CountInv'
<1>0. /\ Cardinality(Locker) \in Nat
      /\ \A c \in Locker : num[c] \in Nat /\ num'[c] \in Nat /\ num[c] <= Cardinality(Locker)
      /\ \A c \in Locker : Passed(c) \in Nat
  BY AheadIsFinite, PassedType DEF CountInv, NumbersStayLow, SharedInv, TypeOK
<1>1. \A c \in Locker : Passed(c)' \in Nat
  BY PassedTypeNext
<1>2. CASE \E c \in Locker : Scan(c)
  <2>1. PICK c \in Locker : Scan(c)
    BY <1>2
  <2>2. FewerAhead' /\ num[c] + 1 <= Cardinality(Locker)
    BY <2>1, ScanLeavesOwner DEF CountInv
  <2>3. num' = [num EXCEPT ![c] = num[c] + 1] /\ num \in [Locker -> Nat]
    BY <2>1 DEF Scan, SharedInv, TypeOK
  <2>4. NumbersStayLow'
    BY <2>2, <2>3, <1>0 DEF NumbersStayLow
  <2> QED
    BY <2>2, <2>4 DEF CountInv
<1>3. CASE \A c \in Locker : ~Scan(c)
  <2>1. \A c \in Locker : Passed(c)' <= Passed(c) /\ num'[c] <= num[c]
    BY <1>3, OthersStay
  <2>2. FewerAhead'
    BY <2>1, <1>0, <1>1, NobodyAdvances DEF CountInv
  <2>3. NumbersStayLow'
    BY <2>1, <1>0 DEF NumbersStayLow
  <2> QED
    BY <2>2, <2>3 DEF CountInv
<1> QED
  BY <1>2, <1>3

\* The do-while loop of ShLock_do_obtain counts no further than there are
\* lockers, for any finite set of them: whoever clears and whoever dies, and
\* however the loop's looks at the folder fall between other lockers' steps.
THEOREM NumbersLow ==
  ASSUME Parameters
  PROVE  Spec => []NumbersStayLow
<1>1. Init => CountInv
  <2> SUFFICES ASSUME Init PROVE CountInv
    OBVIOUS
  <2>1. \A c \in Locker : num[c] = 0 /\ Passed(c) = 0
    BY DEF Init, Passed, Naming
  <2>2. NumbersStayLow
    BY <2>1, FS_CardinalityType DEF NumbersStayLow, Parameters
  <2>3. ASSUME NEW m \in 0..Cardinality(Locker)
        PROVE  Cardinality(Ahead(m)) + m <= Cardinality(Locker)
    <3>1. CASE m = 0
      BY <3>1, AheadIsFinite
    <3>2. CASE m # 0
      <4>1. Ahead(m) = {}
        BY <2>1, <3>2, AheadIsFinite DEF Ahead
      <4> QED
        BY <4>1, FS_EmptySet, AheadIsFinite
    <3> QED
      BY <3>1, <3>2
  <2> QED
    BY <2>2, <2>3 DEF CountInv, FewerAhead
<1>2. SharedInv /\ SharedInv' /\ CountInv /\ [Next]_vars => CountInv'
  BY CountStep
<1>3. CountInv => NumbersStayLow
  BY DEF CountInv
<1> QED
  BY <1>1, <1>2, <1>3, FilesAgree, PTL DEF Spec
=============================================================================
