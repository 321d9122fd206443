--------------------------- MODULE SeriesMatching ---------------------------
(***************************************************************************)
(* Bit vectors, the Matcher that goes through the bits set in one, and the *)
(* SeriesMatcher that PolyDelReader_iterator puts together from the        *)
(* deletions of each segment: one after the other, at the segments'        *)
(* offsets.                                                                *)
(*                                                                         *)
(* A bit vector is its bytes put side by side: bits is defined on          *)
(* 0..cap - 1, and cap is a multiple of ByteBits.                          *)
(***************************************************************************)
EXTENDS Integers, Sequences, FiniteSets
LOCAL INSTANCE SequencesExt
LOCAL INSTANCE FiniteSetsExt

CONSTANTS
    ByteBits,   \* bits in a byte: 8
    DocMaxes,   \* the greatest document number of each segment, in sequences
    Infinity,   \* I32_MAX
    MaxTick,    \* bound: the greatest bit that a client names
    MaxSteps    \* bound: operations on bit vectors

VARIABLES self, seen

-----------------------------------------------------------------------------
(* BitVector.c *)

Zeroes(n) == [t \in 0..n - 1 |-> 0]
BytesFor(n) == (n + ByteBits - 1) \div ByteBits

NewBits(capacity) ==
    [cap |-> ByteBits * BytesFor(capacity), bits |-> Zeroes(ByteBits * BytesFor(capacity))]

\* BitVec_grow, which always has room for one bit more than it is asked for.
Grow(v, max) ==
    IF max < v.cap THEN v
    ELSE LET cap == ByteBits * BytesFor(max + 1)
         IN  [cap |-> cap, bits |-> [t \in 0..cap - 1 |-> IF t < v.cap THEN v.bits[t] ELSE 0]]

SetBit(v, tick) == [Grow(v, tick) EXCEPT !.bits[tick] = 1]
ClearBit(v, tick) == IF tick >= v.cap THEN v ELSE [v EXCEPT !.bits[tick] = 0]
ClearAll(v) == [v EXCEPT !.bits = Zeroes(v.cap)]
GetBit(v, tick) == tick < v.cap /\ v.bits[tick] = 1

\* The bits set in a byte, by their place in the vector.
InByte(v, byte) == {t \in byte * ByteBits..(byte + 1) * ByteBits - 1 : v.bits[t] = 1}
Bytes(v) == 0..(v.cap \div ByteBits) - 1


\* The first byte is shifted down to the bit asked for; of the others the
\* first that is not zero counts.
NextSetBit(v, tick) ==
    LET first == tick \div ByteBits
        rest == IF first \in Bytes(v) THEN {t \in InByte(v, first) : t >= tick} ELSE {}
        later == {b \in Bytes(v) : b > first /\ InByte(v, b) # {}}
    IN  IF rest # {} THEN Min(rest)
        ELSE IF later # {} THEN Min(InByte(v, Min(later)))
        ELSE -1

CloneBits(v) == [cap |-> NewBits(v.cap).cap, bits |-> v.bits]
\* BitVec_copy: what the other has no bytes for is cleared.
CopyBits(v, other) ==
    LET room == IF BytesFor(v.cap) > BytesFor(other.cap) THEN v ELSE Grow(v, other.cap)
    IN  [room EXCEPT !.bits = [t \in DOMAIN @ |-> IF t < other.cap THEN other.bits[t] ELSE 0]]

AndBits(v, other) ==
    [v EXCEPT !.bits = [t \in DOMAIN @ |-> IF t < other.cap THEN @[t] * other.bits[t] ELSE 0]]
AndNotBits(v, other) ==
    [v EXCEPT !.bits = [t \in DOMAIN @ |-> IF t < other.cap THEN @[t] * (1 - other.bits[t]) ELSE @[t]]]

\* S_do_or_or_xor: the bytes both have are combined, those only the other has
\* are copied.
Combined(v, other, op) ==
    LET common == IF v.cap < other.cap THEN v.cap ELSE other.cap
        room == Grow(v, IF v.cap < other.cap THEN other.cap ELSE v.cap)
    IN  [room EXCEPT !.bits =
            [t \in DOMAIN @ |-> IF t < common THEN op[@[t], other.bits[t]]
                                ELSE IF t < other.cap THEN other.bits[t] ELSE @[t]]]
OrBits(v, other) == Combined(v, other, [a, b \in 0..1 |-> IF a + b > 0 THEN 1 ELSE 0])
XorBits(v, other) == Combined(v, other, [a, b \in 0..1 |-> (a + b) % 2])

FlipBit(v, tick) == [Grow(v, tick) EXCEPT !.bits[tick] = 1 - @]
FlipEach(v, ticks) == [v EXCEPT !.bits = [t \in DOMAIN @ |-> IF t \in ticks THEN 1 - @[t] ELSE @[t]]]

\* BitVec_flip_block: from the end back to the beginning of a byte, from the
\* start on to the beginning of one, then that last bit alone, and whole bytes.
FlipBlock(v, offset, length) ==
    LET end == offset + length - 1
        last == IF ByteBits * (end \div ByteBits) < offset THEN offset ELSE ByteBits * (end \div ByteBits)
        first == IF ByteBits * BytesFor(offset) > last THEN last ELSE ByteBits * BytesFor(offset)
        partial == FlipEach(Grow(v, end), (last + 1..end) \cup (offset..first - 1))
        whole == {t \in DOMAIN partial.bits : t \div ByteBits \in first \div ByteBits..(last \div ByteBits) - 1}
    IN  IF length = 0 THEN v
        ELSE IF first = last THEN FlipBit(partial, last)
        ELSE FlipEach(FlipBit(partial, last), whole)

CountBits(v) == MapThenSumSet(LAMBDA b : Cardinality(InByte(v, b)), Bytes(v))
\* BitVec_to_array: byte by byte.
BitsArray(v) ==
    FlattenSeq([b \in 1..v.cap \div ByteBits |-> SetToSortSeq(InByte(v, b - 1), LAMBDA t, u : t < u)])

-----------------------------------------------------------------------------
(* Matchers that stand on a document; doc is what the call returns *)

BitVecMatcher(v) == [kind |-> "bits", bits |-> v, docId |-> 0, doc |-> 0]
BitVecAdvance(m, target) ==
    LET found == NextSetBit(m.bits, target)
    IN  [m EXCEPT !.docId = found, !.doc = IF found = -1 THEN 0 ELSE found]
BitVecNext(m) == BitVecAdvance(m, m.docId + 1)

\* ords: the documents' ordinals in the segment's SortCache.
RangeScorer(ords, lower, upper) ==
    [kind |-> "range", ords |-> ords, lower |-> lower, upper |-> upper, docId |-> 0, doc |-> 0]
RangeNext(m) ==
    LET docMax == Len(m.ords)
        found == {d \in m.docId + 1..docMax : m.ords[d] >= m.lower /\ m.ords[d] <= m.upper}
        end == IF m.docId > docMax THEN m.docId ELSE docMax
    IN  IF found = {} THEN [m EXCEPT !.docId = end, !.doc = 0]
        ELSE [m EXCEPT !.docId = Min(found), !.doc = Min(found)]
RangeAdvance(m, target) == RangeNext([m EXCEPT !.docId = target - 1])

-----------------------------------------------------------------------------
(* SeriesMatcher.c; a NULL among the matchers is <<>> *)

\* What a call on NULL comes to instead of a document: the process crashes.
Crash == -1

SeriesMatcher(matchers, offsets) ==
    [kind |-> "series", matchers |-> matchers, offsets |-> offsets, tick |-> 0,
     currentOffset |-> 0, nextOffset |-> 0, docId |-> 0, doc |-> 0]

\* To the next matcher, past those that are NULL.
RECURSIVE Proceed(_)
Proceed(s) ==
    LET tick == s.tick + 1
        isLast == tick = Len(s.offsets)
        next == IF isLast THEN Infinity ELSE s.offsets[tick + 1]
        moved == [s EXCEPT !.currentOffset = s.nextOffset, !.nextOffset = next,
                           !.docId = next - 1, !.tick = tick]
    IN  IF s.matchers[tick] # <<>> \/ isLast THEN moved ELSE Proceed(moved)

RECURSIVE SeriesAdvance(_, _)
SeriesAdvance(s, target) ==
    IF target >= s.nextOffset
    THEN IF s.tick < Len(s.offsets) THEN SeriesAdvance(Proceed(s), target)
         ELSE [s EXCEPT !.docId = 0, !.doc = 0]
    ELSE IF s.matchers[s.tick] = <<>> THEN [s EXCEPT !.doc = Crash]
    ELSE LET m == BitVecAdvance(s.matchers[s.tick], target - s.currentOffset)
             kept == [s EXCEPT !.matchers[s.tick] = m]
             found == m.doc + s.currentOffset
         IN  IF m.doc # 0 THEN [kept EXCEPT !.docId = found, !.doc = found]
             ELSE SeriesAdvance(kept, s.nextOffset)
SeriesNext(s) == SeriesAdvance(s, s.docId + 1)

\* PolyReader_init: the documents before each segment.
Offsets(docMaxes) == [i \in DOMAIN docMaxes |-> FoldSeq(LAMBDA x, y : x + y, 0, SubSeq(docMaxes, 1, i - 1))]

\* The bits of a deletions file.
DelDocs(deleted) == FoldSet(LAMBDA d, v : SetBit(v, d), NewBits(0), deleted)

\* PolyDelReader_iterator over the segments' DefDelReader_iterator; a reader
\* of another class may give none.
Iterator(deleted, offsets, without) ==
    SeriesMatcher([i \in DOMAIN deleted |-> IF i \in without THEN <<>> ELSE BitVecMatcher(DelDocs(deleted[i]))],
                  offsets)

-----------------------------------------------------------------------------
(* Clients: one works on two bit vectors, the other goes through a Matcher *)

NextDoc(m) == IF m.kind = "bits" THEN BitVecNext(m) ELSE IF m.kind = "range" THEN RangeNext(m) ELSE SeriesNext(m)
AdvanceTo(m, target) ==
    IF m.kind = "bits" THEN BitVecAdvance(m, target) ELSE IF m.kind = "range" THEN RangeAdvance(m, target)
    ELSE SeriesAdvance(m, target)

\* want: the documents the Matcher has; lasts: the last documents of segments
\* that another one follows; bare: is the last of the matchers NULL? asked:
\* the target of the last call, which for Next is the document behind.
Using(m, want, lasts, bare) ==
    self = m /\ seen = [want |-> want, lasts |-> lasts, bare |-> bare, asked |-> 0]

SeriesInit ==
    \E docMaxes \in DocMaxes :
        LET offsets == Offsets(docMaxes)
            max == offsets[Len(offsets)] + docMaxes[Len(offsets)]
        IN  \E all \in SUBSET (1..max) \ {{}} :
               LET deleted == [i \in DOMAIN docMaxes |-> {d \in 1..docMaxes[i] : offsets[i] + d \in all}]
               IN  \E without \in SUBSET {i \in DOMAIN offsets : deleted[i] = {}} :
                      Using(Iterator(deleted, offsets, without), all,
                            {offsets[i] : i \in DOMAIN offsets} \ {0}, Len(offsets) \in without)

RangeInit ==
    \E ords \in [1..3 -> 0..2], lower, upper \in 0..2 :
        Using(RangeScorer(ords, lower, upper), {d \in 1..3 : ords[d] \in lower..upper}, {}, FALSE)

VectorsInit ==
    \E capacity \in {0, MaxTick} :
        /\ self = [kind |-> "vectors", a |-> NewBits(0), b |-> NewBits(capacity), steps |-> 0]
        /\ seen = [a |-> {}, b |-> {}]

Init == SeriesInit \/ RangeInit \/ VectorsInit

Ended == seen.asked > 0 /\ self.doc \in {0, Crash}

CallNext ==
    /\ self.kind # "vectors" /\ ~Ended
    /\ self' = NextDoc(self)
    /\ seen' = [seen EXCEPT !.asked = self.doc + 1]

CallAdvance ==
    /\ self.kind # "vectors" /\ ~Ended
    /\ \E target \in self.doc + 1..self.doc + 3 :
          /\ self' = AdvanceTo(self, target)
          /\ seen' = [seen EXCEPT !.asked = target]

Change(a, set) ==
    /\ self.kind = "vectors" /\ self.steps < MaxSteps
    /\ self' = [self EXCEPT !.a = a, !.steps = @ + 1]
    /\ seen' = [seen EXCEPT !.a = set]

Set == \E t \in 0..MaxTick : Change(SetBit(self.a, t), seen.a \cup {t})
Clear == \E t \in 0..MaxTick : Change(ClearBit(self.a, t), seen.a \ {t})
EmptyIt == Change(ClearAll(self.a), {})
Flip == \E t \in 0..MaxTick : Change(FlipBit(self.a, t), SymDiff(seen.a, {t}))
FlipMany ==
    \E offset, length \in 0..MaxTick :
        offset + length <= MaxTick /\ Change(FlipBlock(self.a, offset, length), SymDiff(seen.a, offset..offset + length - 1))
Combine ==
    \/ Change(AndBits(self.a, self.b), seen.a \cap seen.b)
    \/ Change(OrBits(self.a, self.b), seen.a \cup seen.b)
    \/ Change(XorBits(self.a, self.b), SymDiff(seen.a, seen.b))
    \/ Change(AndNotBits(self.a, self.b), seen.a \ seen.b)
    \/ Change(CopyBits(self.a, self.b), seen.b)
    \/ Change(CloneBits(self.a), seen.a)
\* The two change places.
Swap ==
    /\ self.kind = "vectors" /\ self.steps < MaxSteps
    /\ self' = [self EXCEPT !.a = self.b, !.b = self.a, !.steps = @ + 1]
    /\ seen' = [seen EXCEPT !.a = seen.b, !.b = seen.a]

Next ==
    \/ CallNext \/ CallAdvance
    \/ self.kind = "vectors" /\ (Set \/ Clear \/ EmptyIt \/ Flip \/ FlipMany \/ Combine \/ Swap)

-----------------------------------------------------------------------------
LeastFrom(set, from) ==
    LET due == {d \in set : d >= from} IN IF due = {} THEN 0 ELSE Min(due)

\* A bit vector is the set of the bits that were set, whichever way it grew,
\* was combined and was cut into bytes (BitVector.bp).
VectorRight(v, set) ==
    /\ \A t \in 0..MaxTick + ByteBits : GetBit(v, t) <=> t \in set
    /\ \A t \in 0..MaxTick + ByteBits :
          NextSetBit(v, t) = IF \E u \in set : u >= t THEN LeastFrom(set, t) ELSE -1
    /\ CountBits(v) = Cardinality(set)
    /\ BitsArray(v) = SetToSortSeq(set, LAMBDA t, u : t < u)

\* Where SeriesMatcher_advance begins to look: a target that is the last
\* document of a segment is taken to the next one, by Next as by Advance.
From(asked) == IF asked \in seen.lasts THEN asked + 1 ELSE asked

=============================================================================
