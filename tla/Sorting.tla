------------------------------- MODULE Sorting -------------------------------
(* Util/MSort.c, Util/SortExRun.c and the reading side of                   *)
(* Util/SortExternal.c: a merge sort, and the merging of sorted runs of     *)
(* which only a part is in memory.                                          *)
(*                                                                          *)
(* A run is a record with a field cache, the elements in memory that have   *)
(* not been taken yet; what else it has is known to Refill alone.  A queue  *)
(* has runs and a cache of its own, of elements that are ready to be        *)
(* fetched.  Positions in a cache (cache_tick) are left out: a cache is     *)
(* what remains of it.                                                      *)
EXTENDS Integers, SequencesExt

CONSTANTS
    Compare(_, _),      \* less than, equal to, or greater than 0
    Refill(_)           \* SortExRun_Refill: a run whose cache was empty

\* MSort_merge4 and MSort_merge8: how many of each have gone one turn after
\* taken have; on a tie the left one goes first.
NextTaken(left, right, taken) ==
    IF \/ taken[2] = Len(right)
       \/ taken[1] < Len(left) /\ Compare(left[taken[1] + 1], right[taken[2] + 1]) < 1
    THEN <<taken[1] + 1, taken[2]>> ELSE <<taken[1], taken[2] + 1>>
Merge(left, right) ==
    LET taken[n \in 0..(Len(left) + Len(right))] ==
            IF n = 0 THEN <<0, 0>> ELSE NextTaken(left, right, taken[n - 1])
    IN  [n \in 1..(Len(left) + Len(right)) |->
            IF taken[n][1] > taken[n - 1][1] THEN left[taken[n][1]] ELSE right[taken[n][2]]]

\* S_do_sort4 and S_do_sort8
MergeSort(elems) ==
    LET Tick == 0..(Len(elems) - 1)
        sorted[ticks \in Tick \X Tick] ==
            LET left == ticks[1]
                right == ticks[2]
                mid == ((right + left) \div 2) + 1
            IN  IF right > left THEN Merge(sorted[<<left, mid - 1>>], sorted[<<mid, right>>])
                ELSE <<elems[left + 1]>>
    IN  IF elems = <<>> THEN <<>> ELSE sorted[<<0, Len(elems) - 1>>]

\* S_find_slice_size: how many elements of a cache do not come after endpost.
\* What is not after it begins at or before lo, what is after it at hi.
Halved(cache, endpost, bounds) ==
    LET lo == bounds[1]
        hi == bounds[2]
        mid == lo + ((hi - lo) \div 2)
    IN  IF hi - lo <= 1 THEN bounds
        ELSE IF Compare(cache[mid + 1], endpost) > 0 THEN <<lo, mid>> ELSE <<mid, hi>>
SliceSize(cache, endpost) ==
    LET bounds[n \in 0..Len(cache)] ==
            IF n = 0 THEN <<-1, Len(cache)>> ELSE Halved(cache, endpost, bounds[n - 1])
    IN  bounds[Len(cache)][1] + 1

\* SortExRun_pop_slice
Slice(run, endpost) == SubSeq(run.cache, 1, SliceSize(run.cache, endpost))
WithoutSlice(run, endpost) ==
    [run EXCEPT !.cache = SubSeq(@, SliceSize(@, endpost) + 1, Len(@))]

\* S_refill_runs: a run that stays empty is replaced by the last of the runs.
RefillRun(s) ==
    LET old == s.runs[s.i + 1]
        run == IF old.cache = <<>> THEN Refill(old) ELSE old
    IN  IF run.cache # <<>> THEN [runs |-> [s.runs EXCEPT ![s.i + 1] = run], i |-> s.i + 1]
        ELSE [s EXCEPT !.runs = [k \in 1..(Len(@) - 1) |-> IF k = s.i + 1 THEN Last(@) ELSE @[k]]]
RefillRuns(runs) ==
    LET turn[n \in 0..Len(runs)] ==
            IF n = 0 THEN [runs |-> runs, i |-> 0] ELSE RefillRun(turn[n - 1])
    IN  turn[Len(runs)].runs

\* Mutated form of Endpost: the greatest of the last items in memory, behind
\* which a run may have items yet to be read.
GreatestEndpost(runs) ==
    LET lasts == {Last(runs[k].cache) : k \in DOMAIN runs}
    IN  CHOOSE item \in lasts : \A other \in lasts : Compare(item, other) >= 0

\* S_find_endpost: the least of the last items in memory.
Endpost(runs) ==
    LET lasts == {Last(runs[k].cache) : k \in DOMAIN runs}
    IN  CHOOSE item \in lasts : \A other \in lasts : Compare(item, other) <= 0

\* S_merge_slices: neighbours are merged until one slice is left.
Round(slices) ==
    [k \in 1..((Len(slices) + 1) \div 2) |->
        IF 2 * k <= Len(slices) THEN Merge(slices[2 * k - 1], slices[2 * k]) ELSE slices[2 * k - 1]]
MergeSlices(slices) ==
    LET after[n \in 0..Len(slices)] == IF n = 0 THEN slices ELSE Round(after[n - 1])
    IN  after[Len(slices)][1]

\* S_absorb_slices, without the slices that have no elements.
SomeSlices(slices) ==
    LET some[n \in 0..Len(slices)] ==
            IF n = 0 THEN <<>>
            ELSE IF slices[n] = <<>> THEN some[n - 1] ELSE Append(some[n - 1], slices[n])
    IN  some[Len(slices)]
AbsorbSlices(queue, runs, endpost) ==
    [queue EXCEPT
        !.runs = [k \in DOMAIN runs |-> WithoutSlice(runs[k], endpost)],
        !.cache = MergeSlices(SomeSlices([k \in DOMAIN runs |-> Slice(runs[k], endpost)]))]

\* S_refill_cache
RefillCache(queue) ==
    LET Filled(runs) == IF runs = <<>> THEN [queue EXCEPT !.runs = <<>>, !.cache = <<>>]
                        ELSE AbsorbSlices(queue, runs, Endpost(runs))
    IN  Filled(RefillRuns(queue.runs))

\* SortEx_peek: the queue with its next item in the cache, if it has one left.
Ready(queue) == IF queue.cache = <<>> THEN RefillCache(queue) ELSE queue
=============================================================================
