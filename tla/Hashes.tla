------------------------------- MODULE Hashes -------------------------------
(***************************************************************************)
(* The hash table under snapshots, segments, folders and schemas: open     *)
(* addressing with a linear scan, a tombstone (UNDEF) where a key has been *)
(* deleted, a threshold that each tombstone lowers, and a table twice as   *)
(* large when it is reached.                                               *)
(***************************************************************************)
EXTENDS Integers, Sequences, FiniteSets
LOCAL INSTANCE SequencesExt
LOCAL INSTANCE FiniteSetsExt

CONSTANTS
    Key,            \* the keys that are stored
    HashCode(_),    \* of a key
    LeastCapacity,  \* the capacity of the smallest table: 16
    MaxCapacity,    \* bound: the capacity at which no key is stored any more
    MaxSteps        \* bound: operations

VARIABLES self, seen

Empty == [key |-> 0, value |-> 0]       \* an entry whose key is NULL
Tombstone == [key |-> -1, value |-> 0]
IsFree(entry) == entry \in {Empty, Tombstone}

ThresholdFor(capacity) == (capacity \div 3) * 2
EmptyTable(capacity) == [t \in 0..capacity - 1 |-> Empty]

\* Hash_init: room for the elements asked for without a rebuild.
RECURSIVE RoomFor(_, _)
RoomFor(capacity, asked) ==
    IF ThresholdFor(capacity) > asked THEN capacity ELSE RoomFor(2 * capacity, asked)
NewHash(asked) ==
    LET capacity == RoomFor(LeastCapacity, asked)
    IN  [entries |-> EmptyTable(capacity), capacity |-> capacity, size |-> 0,
         threshold |-> ThresholdFor(capacity), iterTick |-> -1]

\* The first of some places that a scan for the key comes to.
Tick(h, key, i) == (HashCode(key) + i) % h.capacity
Scan(h, key, places) == Tick(h, key, Min({i \in 0..h.capacity - 1 : Tick(h, key, i) \in places}))
FreePlaces(h) == {t \in DOMAIN h.entries : IsFree(h.entries[t])}
PlacesOf(h, key) == {t \in DOMAIN h.entries : h.entries[t].key = key}

\* SI_fetch_entry
EntryTick(h, key) == Scan(h, key, PlacesOf(h, key) \cup PlacesOf(h, Empty.key))
HasKey(h, key) == h.entries[EntryTick(h, key)].key = key
Fetch(h, key) == h.entries[EntryTick(h, key)].value

\* kino_Hash_do_store when the table has room; the first tombstone is taken.
StoreIn(h, key, value) ==
    LET t == Scan(h, key, PlacesOf(h, key) \cup FreePlaces(h))
        old == h.entries[t]
    IN  [h EXCEPT !.entries = [@ EXCEPT ![t] = [key |-> key, value |-> value]],
                  !.size = IF IsFree(old) THEN @ + 1 ELSE @,
                  !.threshold = IF old = Tombstone THEN @ + 1 ELSE @]

\* kino_Hash_rebuild_hash: what is in the table, in its order, into one twice
\* as large.
Rebuild(h) ==
    LET capacity == 2 * h.capacity
        kept == SelectSeq([i \in 1..h.capacity |-> h.entries[i - 1]], LAMBDA e : ~IsFree(e))
    IN  FoldLeft(LAMBDA r, e : StoreIn(r, e.key, e.value),
                 [entries |-> EmptyTable(capacity), capacity |-> capacity, size |-> 0,
                  threshold |-> ThresholdFor(capacity), iterTick |-> -1],
                 kept)

Store(h, key, value) == StoreIn(IF h.size >= h.threshold THEN Rebuild(h) ELSE h, key, value)

\* Mutated form of Delete: the threshold does not take note of the tombstone.
DeleteUncounted(h, key) ==
    IF ~HasKey(h, key) THEN h
    ELSE [h EXCEPT !.entries = [@ EXCEPT ![EntryTick(h, key)] = Tombstone], !.size = @ - 1]

Delete(h, key) ==
    IF ~HasKey(h, key) THEN h
    ELSE [h EXCEPT !.entries = [@ EXCEPT ![EntryTick(h, key)] = Tombstone],
                   !.size = @ - 1, !.threshold = @ - 1]

\* The threshold stays where the tombstones have brought it.
ClearHash(h) == [h EXCEPT !.entries = EmptyTable(h.capacity), !.size = 0]

\* Hash_iter_init and Hash_iter_next, which stays at the last entry.
IterInit(h) == [h EXCEPT !.iterTick = -1]
IterNext(h) ==
    LET ahead == {t \in h.iterTick + 1..h.capacity - 1 : ~IsFree(h.entries[t])}
    IN  [h EXCEPT !.iterTick = IF ahead = {} THEN h.capacity - 1 ELSE Min(ahead)]
IterEnded(h) == \A t \in h.iterTick + 1..h.capacity - 1 : IsFree(h.entries[t])
RECURSIVE KeysFrom(_)
KeysFrom(h) ==
    IF IterEnded(h) THEN <<>>
    ELSE LET next == IterNext(h) IN <<next.entries[next.iterTick].key>> \o KeysFrom(next)
Keys(h) == KeysFrom(IterInit(h))

\* Hash_equals
Equal(h, other) ==
    h.size = other.size /\ \A k \in ToSet(Keys(h)) : HasKey(other, k) /\ Fetch(other, k) = Fetch(h, k)

-----------------------------------------------------------------------------
(* A client; stored is what it has stored and not deleted, given the keys    *)
(* that its iteration has given while it stored nothing.  Values are steps.  *)

Init ==
    \E asked \in 0..ThresholdFor(LeastCapacity) :
        /\ self = NewHash(asked)
        /\ seen = [stored |-> [k \in {} |-> 0], given |-> <<>>, iterates |-> FALSE,
                   ended |-> FALSE, doubled |-> FALSE, steps |-> 0]

Saw(change) == seen' = [change EXCEPT !.steps = @ + 1]
Stopped(s) == [s EXCEPT !.given = <<>>, !.iterates = FALSE, !.ended = FALSE]

\* doubled: the key is there, and a tombstone comes before it.
StoreKey(k) ==
    /\ self.capacity < MaxCapacity \/ self.size < self.threshold
    /\ self' = Store(self, k, seen.steps + 1)
    /\ LET full == self.size >= self.threshold
           behind == EntryTick(self, k) # Scan(self, k, PlacesOf(self, k) \cup FreePlaces(self))
       IN  Saw([Stopped(seen) EXCEPT
                  !.stored = [x \in DOMAIN @ \cup {k} |-> IF x = k THEN seen.steps + 1 ELSE @[x]],
                  !.doubled = @ \/ (~full /\ k \in DOMAIN seen.stored /\ behind)])
DeleteKey(k) ==
    /\ self' = Delete(self, k)
    /\ Saw([seen EXCEPT !.stored = [x \in DOMAIN @ \ {k} |-> @[x]]])
Clear ==
    /\ self' = ClearHash(self)
    /\ Saw([Stopped(seen) EXCEPT !.stored = [x \in {} |-> 0]])
Begin ==
    /\ self' = IterInit(self)
    /\ Saw([Stopped(seen) EXCEPT !.iterates = TRUE])
Iterate ==
    /\ seen.iterates /\ ~seen.ended
    /\ self' = IterNext(self)
    /\ Saw(IF IterEnded(self) THEN [seen EXCEPT !.ended = TRUE]
           ELSE [seen EXCEPT !.given = Append(@, self'.entries[self'.iterTick].key)])

Next ==
    /\ seen.steps < MaxSteps
    /\ \/ \E k \in Key : StoreKey(k) \/ DeleteKey(k)
       \/ Clear \/ Begin \/ Iterate

-----------------------------------------------------------------------------
\* A Hash has the pairs that were stored and not deleted, no more and each
\* once, though keys collide, leave tombstones and move to a larger table; its
\* iterator gives each, while keys are deleted under it; and a scan ends, as
\* there is always an empty entry (Hash.bp).  Not so once a key has been stored
\* anew that lay behind a tombstone: it is then there twice.
HashRight ==
    ~seen.doubled =>
        /\ \E t \in DOMAIN self.entries : self.entries[t] = Empty
        /\ self.size = Cardinality(DOMAIN seen.stored)
        /\ \A k \in Key :
              IF k \in DOMAIN seen.stored THEN HasKey(self, k) /\ Fetch(self, k) = seen.stored[k]
              ELSE ~HasKey(self, k)
        /\ Len(Keys(self)) = self.size /\ ToSet(Keys(self)) = DOMAIN seen.stored
        /\ Equal(self, Rebuild(self))
        /\ IsInjective(seen.given)
        /\ seen.ended => DOMAIN seen.stored \subseteq ToSet(seen.given)
=============================================================================
