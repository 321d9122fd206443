------------------------------ MODULE SortFiles ------------------------------
(* Index/SortWriter.c and Index/SortCache.c: for a sortable field, the      *)
(* unique values of a segment in order, and for each document the ordinal   *)
(* of its value.  Values are numbers; Null is no value at all.              *)
EXTENDS Integers, SequencesExt

CONSTANTS
    Null,
    MaxWidth1, MaxWidth2    \* most values for ordinals of 1 bit and 2 bits

\* FType_compare_values: no value comes last.
CompareValues(x, y) ==
    CASE x = Null /\ y = Null -> 0 [] x = Null /\ y # Null -> 1 [] x # Null /\ y = Null -> -1
      [] OTHER -> x - y

\* VA_Store fills up with NULLs.
Stored(vals, doc, value) ==
    [d \in 1..(IF doc > Len(vals) THEN doc ELSE Len(vals)) |->
        IF d = doc THEN value ELSE IF d <= Len(vals) THEN vals[d] ELSE Null]

\* S_has_nulls
HasNulls(vals, docMax) ==
    Len(vals) # docMax \/ \E d \in 1..(docMax - 1) : vals[d] = Null

\* S_calc_width, in both files; wider ones hold what they are given.
Width(numUniq) ==
    CASE numUniq <= MaxWidth1 -> 1 [] numUniq > MaxWidth1 /\ numUniq <= MaxWidth2 -> 2
      [] OTHER -> 8

\* S_write_ord and the setters of IntArrays.c
WrittenOrd(width, ord) == ord % 2 ^ width

\* S_finish_field: docs sorted by value; ix has a pointer for every value (-1
\* for Null) and one for the end; dat has one item per value.
FinishSortField(vals, docMax) ==
    LET Fetch(doc) == IF doc > Len(vals) THEN Null ELSE vals[doc]
        ByValue(x, y) == CompareValues(Fetch(x), Fetch(y)) < 0 \/ (Fetch(x) = Fetch(y) /\ x < y)
        numUniq == Cardinality({vals[d] : d \in DOMAIN vals} \ {Null})
                   + (IF HasNulls(vals, docMax) THEN 1 ELSE 0)
        \* starts are the places in sorted where another value begins
        Ord(i, starts) == Cardinality({k \in 2..Len(starts) : starts[k] <= i})
        Files(sorted, starts) ==
            LET uniq == [k \in DOMAIN starts |-> Fetch(sorted[starts[k]])]
                values == SelectSeq(uniq, LAMBDA v : v # Null)
            IN  [ords |-> [d \in 1..docMax |->
                              WrittenOrd(Width(numUniq), Ord(CHOOSE i \in 1..docMax : sorted[i] = d, starts))],
                 ix |-> [k \in DOMAIN uniq |-> IF uniq[k] = Null THEN -1 ELSE k - 1] \o <<Len(values)>>,
                 dat |-> values,
                 \* "ord mismatch with num_uniq" is thrown otherwise
                 matches |-> Len(uniq) = numUniq]
        Sorted(sorted) ==
            Files(sorted, SelectSeq([i \in 1..docMax |-> i],
                                    LAMBDA i : i = 1 \/ Fetch(sorted[i]) # Fetch(sorted[i - 1])))
    IN  Sorted(SortSeq([d \in 1..docMax |-> d], ByValue))

\* SortCache_init: how many values there are, from the length of ix.
NumUnique(cache) == Len(cache.ix) - 1

\* SortCache_ordinal
Ordinal(cache, doc) == WrittenOrd(Width(NumUnique(cache)), cache.ords[doc])

\* SortCache_value: from the pointer of a value to the next that is not Null's.
ValueAt(cache, ord) ==
    LET offset == cache.ix[ord + 1]
        next == CHOOSE n \in (ord + 2)..Len(cache.ix) :
                    cache.ix[n] # -1 /\ \A m \in (ord + 2)..(n - 1) : cache.ix[m] = -1
    IN  IF offset = -1 THEN Null ELSE SubSeq(cache.dat, offset + 1, cache.ix[next])[1]

\* SortCache_find: the ordinal of a value, of the greatest less than it if it
\* has none, or -1 if there is none of these.
Find(cache, term) ==
    LET Bound == -1..NumUnique(cache)
        search[lo \in Bound, hi \in Bound] ==
            LET mid == lo + ((hi - lo) \div 2)
                c == CompareValues(term, ValueAt(cache, mid))
            IN  IF hi < lo THEN hi
                ELSE IF c < 0 THEN search[lo, mid - 1]
                ELSE IF c > 0 THEN search[mid + 1, hi]
                ELSE mid
    IN  search[0, NumUnique(cache) - 1]
=============================================================================
