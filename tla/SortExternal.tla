---------------------------- MODULE SortExternal ----------------------------
(* Util/SortExternal.c: elements are fed, written out as sorted runs        *)
(* whenever they have filled the memory, and fetched in order when the last *)
(* one has been fed.  Flush and the reading of a run are those of the only  *)
(* complete subclass, BBSortEx, which has nothing but these.                *)
EXTENDS Integers, SequencesExt

CONSTANTS
    Elem,           \* numbers
    MaxFeeds,       \* bound: elements fed
    MemThresh,      \* elements that fill the memory of the sorter
    RunThresh       \* elements that a run reads into its cache at once

\* Assumed of the constants by every module that takes an instance of this one.
Parameters ==
    /\ Elem \subseteq Int /\ MaxFeeds \in Nat
    /\ MemThresh \in Nat /\ RunThresh \in Nat \ {0}

VARIABLES
    self,           \* cache, runs and flipped
    seen            \* the client's view: what was fed, and what was fetched

\* SortExRun_refill, BBSortExRun_read_elem
RunRefill(run) ==
    LET n == IF Len(run.external) < RunThresh THEN Len(run.external) ELSE RunThresh
    IN  [cache |-> SubSeq(run.external, 1, n),
         external |-> SubSeq(run.external, n + 1, Len(run.external))]

Difference(x, y) == x - y

INSTANCE Sorting WITH Compare <- Difference, Refill <- RunRefill

Init ==
    /\ self = [cache |-> <<>>, runs |-> <<>>, flipped |-> FALSE]
    /\ seen = [fed |-> <<>>, fetched |-> <<>>, ended |-> FALSE]

\* BBSortEx_flush: an empty cache makes no run.
Flushed(sorter) ==
    IF sorter.cache = <<>> THEN sorter
    ELSE [sorter EXCEPT !.cache = <<>>,
                        !.runs = Append(@, [cache |-> <<>>, external |-> MergeSort(sorter.cache)])]

\* SortEx_feed
Feed(x) ==
    /\ ~self.flipped /\ Len(seen.fed) < MaxFeeds
    /\ LET fuller == [self EXCEPT !.cache = Append(@, x)]
       IN  self' = IF Len(fuller.cache) >= MemThresh THEN Flushed(fuller) ELSE fuller
    /\ seen' = [seen EXCEPT !.fed = Append(@, x)]

\* SortEx_flip
Flip ==
    /\ ~self.flipped
    /\ self' = [Flushed(self) EXCEPT !.flipped = TRUE]
    /\ UNCHANGED seen

\* SortEx_fetch: refill the cache if it has been used up, take its first.
Fetch ==
    /\ self.flipped /\ ~seen.ended
    /\ LET ready == Ready(self)
       IN  IF ready.cache = <<>>
           THEN /\ self' = ready
                /\ seen' = [seen EXCEPT !.ended = TRUE]
           ELSE /\ self' = [ready EXCEPT !.cache = Tail(@)]
                /\ seen' = [seen EXCEPT !.fetched = Append(@, Head(ready.cache))]

\* SortEx_peek may refill the cache, too.
Peek ==
    /\ self.flipped
    /\ self' = Ready(self)
    /\ UNCHANGED seen

Next == (\E x \in Elem : Feed(x)) \/ Flip \/ Fetch \/ Peek

vars == <<self, seen>>

Spec == Init /\ [][Next]_vars

\* What is fetched is what was fed, in order, up to where the client is: the
\* n-th of it is the n-th least.
FetchedInOrder ==
    /\ \A n \in DOMAIN seen.fetched :
          LET x == seen.fetched[n]
          IN  /\ Cardinality({i \in DOMAIN seen.fed : seen.fed[i] < x}) < n
              /\ Cardinality({i \in DOMAIN seen.fed : seen.fed[i] <= x}) >= n
    /\ seen.ended => Len(seen.fetched) = Len(seen.fed)
=============================================================================
