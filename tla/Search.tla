------------------------------- MODULE Search -------------------------------
(* PolySearcher_top_docs over Searcher_top_docs: each Searchable in turn    *)
(* goes through its segments, Matcher_collect takes the matching documents  *)
(* that are not deleted to a SortCollector, the SortCollector keeps the     *)
(* best of them in a HitQueue, and PolySearcher merges the results.         *)
(*                                                                          *)
(* A query is the documents it matches, with their scores.  A PolySearcher  *)
(* of one Searchable stands for a Searcher by itself.                       *)
EXTENDS Integers, HitQueue, SequencesExt

CONSTANTS
    Layout,   \* a sequence of Searchables, each the sequence of its segments' doc_max
    Doc,      \* what a document may be, [matches, deleted, score, value]
    Search    \* searches, [rules : Seq(SortRule), wanted : Nat]

\* Sums(sizes)[n] is how many documents the first n have together.
Sums(sizes) ==
    LET sum[n \in 0..Len(sizes)] == IF n = 0 THEN 0 ELSE sum[n - 1] + sizes[n]
    IN  sum
Total(sizes) == Sums(sizes)[Len(sizes)]

Sizes == [t \in DOMAIN Layout |-> Total(Layout[t])]
DocMax == Total(Sizes)
NegInf == 0     \* F32_NEGINF: below every score
Never == DocMax + 2   \* I32_MAX: beyond every doc id and the one after the last

ASSUME SearchAssumption ==
    /\ Layout \in Seq(Seq(Nat)) /\ Layout # <<>>
    /\ Doc \subseteq [matches : BOOLEAN, deleted : BOOLEAN, score : Nat \ {NegInf}, value : Nat]
    /\ \A search \in Search :
          search.rules \in Seq(SortRule) \ {<<>>} /\ search.wanted \in Nat

VARIABLES
    docs,     \* the documents, numbered through all Searchables
    search,   \* the search: its rules and how many hits are wanted
    pc,
    tick,     \* the Searchable that is being searched
    seg,      \* its segment that is being searched
    doc,      \* doc_id in Matcher_collect
    nextDel,  \* next_deletion in Matcher_collect
    coll,     \* the SortCollector
    merged,   \* PolySearcher's HitQueue, and at the end what it pops from it
    total     \* PolySearcher's total_hits

input == <<docs, search>>
vars == <<docs, search, pc, tick, seg, doc, nextDel, coll, merged, total>>

-----------------------------------------------------------------------------
(* Doc ids *)

\* PolySearcher's starts, and the seg_starts of each Searcher: how many
\* documents come before.
Starts == [t \in DOMAIN Layout |-> Sums(Sizes)[t - 1]]
SegStarts ==
    [t \in DOMAIN Layout |-> [s \in 1..(Len(Layout[t]) + 1) |-> Sums(Layout[t])[s - 1]]]

Start == Starts[tick]
SegStart == SegStarts[tick][seg]
SegDocMax == Layout[tick][seg]

\* Document d of the segment
The(d) == docs[Start + SegStart + d]

\* The least d >= target in D, or 0: Matcher_Advance for the documents D.
Advance(D, target) ==
    LET rest == {d \in D : d >= target}
    IN  IF rest = {} THEN 0 ELSE CHOOSE d \in rest : \A e \in rest : d <= e

Matching == {d \in 1..SegDocMax : The(d).matches}
Deleted == {d \in 1..SegDocMax : The(d).deleted}

\* The next deletion, and the same when "no more" is to be no bound.
Deletion(target) == Advance(Deleted, target)
DeletionOrNever(target) ==
    IF Deletion(target) = 0 THEN Never ELSE Deletion(target)

-----------------------------------------------------------------------------
(* SortCollector *)

NewCollector == [hits |-> 0, bumped |-> NegInf, queue |-> <<>>, auto |-> TRUE,
                 bubbleDoc |-> 0, bubbleScore |-> NegInf]

NeedScore == \E i \in DOMAIN search.rules : search.rules[i].key = "score"

\* SortColl_set_reader: the threshold is for one segment.
SetReader(c) ==
    [c EXCEPT !.bumped = NegInf, !.auto = TRUE, !.bubbleDoc = 0, !.bubbleScore = NegInf]

\* Is there a SortCache for the segment?  Has any document a value?
HasCache == \E d \in 1..SegDocMax : The(d).value # Null

\* SortCache_ordinal: the rank of the value among those of the segment.
Ord(d) ==
    Cardinality({v \in {The(e).value : e \in 1..SegDocMax} : ValueBefore(v, The(d).value)})

\* One action of SI_competitive: does d beat the threshold, or the reverse?
Beats(rule, d, b, dScore, bScore) ==
    CASE rule.key = "score" -> dScore > bScore
      [] rule.key = "doc"   -> d < b
      [] rule.key = "field" -> HasCache /\ Ord(d) < Ord(b)

\* Mutated form of Wins: the reversed comparisons are not reversed.
WinsForward(rule, d) ==
    Beats(rule, d, coll.bubbleDoc, The(d).score, coll.bubbleScore)

Wins(rule, d) ==
    IF rule.reverse
    THEN Beats(rule, coll.bubbleDoc, d, coll.bubbleScore, The(d).score)
    ELSE Beats(rule, d, coll.bubbleDoc, The(d).score, coll.bubbleScore)

Loses(rule, d) ==
    IF rule.reverse
    THEN Beats(rule, d, coll.bubbleDoc, The(d).score, coll.bubbleScore)
    ELSE Beats(rule, coll.bubbleDoc, d, coll.bubbleScore, The(d).score)

\* A last rule "by doc id" need not be looked at: docs come in that order.
Actions ==
    IF Len(search.rules) > 1 /\ Last(search.rules) = [key |-> "doc", reverse |-> FALSE]
    THEN Front(search.rules) ELSE search.rules

\* The action that makes SI_competitive return true, 0 if it returns false.
WinningAction(d) ==
    LET decides(i) == /\ Wins(Actions[i], d)
                      /\ \A j \in 1..(i - 1) : ~Wins(Actions[j], d) /\ ~Loses(Actions[j], d)
    IN  IF \E i \in DOMAIN Actions : decides(i)
        THEN CHOOSE i \in DOMAIN Actions : decides(i) ELSE 0

Competitive(d) == IF coll.auto THEN search.wanted > 0 ELSE WinningAction(d) # 0

\* The score in the MatchDoc-in-waiting when d has been found competitive:
\* SI_competitive puts it there if it was decisive, SortColl_collect if there
\* is none yet.
ScoreFor(d) ==
    IF ~NeedScore THEN NegInf
    ELSE IF ~coll.auto /\ Actions[WinningAction(d)].key = "score" THEN The(d).score
    ELSE IF coll.bumped = NegInf THEN The(d).score
    ELSE coll.bumped

MatchDoc(d) == [doc |-> d + SegStart, score |-> ScoreFor(d), value |-> The(d).value]

\* SortColl_collect.  There are three ways in which HitQ_Jostle may go: a
\* vacancy, another MatchDoc that goes, which is then the MatchDoc-in-waiting,
\* or this one, which is then the threshold for the rest of the segment.
Collect(d) ==
    LET m == MatchDoc(d)
        max == search.wanted
        c == [coll EXCEPT !.hits = @ + 1]
    IN  \/ /\ ~Competitive(d)
           /\ coll' = c
        \/ /\ Competitive(d) /\ HasRoom(max, coll.queue)
           /\ coll' = [c EXCEPT !.queue = Put(search.rules, @, m), !.bumped = NegInf]
        \/ /\ Competitive(d) /\ Displaces(search.rules, max, coll.queue, m)
           /\ coll' = [c EXCEPT !.queue = Replaced(search.rules, @, m),
                                !.bumped = coll.queue[1].score]
        \/ /\ Competitive(d) /\ Refuses(search.rules, max, coll.queue, m)
           /\ coll' = [c EXCEPT !.auto = FALSE, !.bumped = m.score,
                                !.bubbleDoc = d, !.bubbleScore = m.score]

-----------------------------------------------------------------------------
(* Searcher_collect and Matcher_collect *)

Init ==
    /\ docs \in [1..DocMax -> Doc]
    /\ search \in Search
    /\ pc = "segment"
    /\ tick = 1 /\ seg = 1
    /\ doc = 0 /\ nextDel = 0
    /\ coll = NewCollector
    /\ merged = <<>> /\ total = 0

Matcher == pc = "segment" /\ seg \in DOMAIN Layout[tick]

\* Compiler_Make_Matcher gives a Matcher for the segment.
EnterSegment ==
    /\ Matcher
    /\ coll' = SetReader(coll)
    /\ pc' = "loop" /\ doc' = 0 /\ nextDel' = 0
    /\ UNCHANGED <<input, tick, seg, merged, total>>

\* Compiler_Make_Matcher may give NULL if nothing matches in the segment.
SkipSegment ==
    /\ Matcher /\ Matching = {}
    /\ seg' = seg + 1
    /\ UNCHANGED <<input, pc, tick, doc, nextDel, coll, merged, total>>

\* Mutated form of CatchUp: without a bound for "no more deletions".
CatchUpUnbounded ==
    /\ pc = "loop" /\ doc > nextDel
    /\ nextDel' = Deletion(doc)
    /\ UNCHANGED <<input, pc, tick, seg, doc, coll, merged, total>>

\* The deletions are behind the matches.
CatchUp ==
    /\ pc = "loop" /\ doc > nextDel
    /\ nextDel' = DeletionOrNever(doc)
    /\ UNCHANGED <<input, pc, tick, seg, doc, coll, merged, total>>

\* Skip past deletions, for as long as the document is deleted.
SkipDeleted ==
    /\ pc \in {"loop", "skip"} /\ doc = nextDel
    /\ pc' = "skip"
    /\ doc' = doc + 1
    /\ nextDel' = DeletionOrNever(doc')
    /\ UNCHANGED <<input, tick, seg, coll, merged, total>>

\* Mutated form of AdvancePast: the deletions are not brought up to the match.
AdvancePastOnly ==
    /\ pc = "skip" /\ doc # nextDel
    /\ doc' = Advance(Matching, doc)
    /\ pc' = IF doc' = nextDel THEN "skip" ELSE "hit"
    /\ UNCHANGED <<input, tick, seg, nextDel, coll, merged, total>>

\* Verify that the artificial advance actually worked.
AdvancePast ==
    /\ pc = "skip" /\ doc # nextDel
    /\ doc' = Advance(Matching, doc)
    /\ nextDel' = IF doc' > nextDel THEN Deletion(doc') ELSE nextDel
    /\ pc' = IF doc' = nextDel' THEN "skip" ELSE "hit"
    /\ UNCHANGED <<input, tick, seg, coll, merged, total>>

\* The next match, if the deletions are ahead.
NextMatch ==
    /\ pc = "loop" /\ doc < nextDel
    /\ doc' = Advance(Matching, doc + 1)
    /\ nextDel' = IF doc' >= nextDel THEN Deletion(doc') ELSE nextDel
    /\ pc' = IF doc' >= nextDel /\ doc' = nextDel' THEN "loop" ELSE "hit"
    /\ UNCHANGED <<input, tick, seg, coll, merged, total>>

Hit ==
    /\ pc = "hit" /\ doc # 0
    /\ Collect(doc)
    /\ pc' = "loop"
    /\ UNCHANGED <<input, tick, seg, doc, nextDel, merged, total>>

Exhausted ==
    /\ pc = "hit" /\ doc = 0
    /\ pc' = "segment" /\ seg' = seg + 1
    /\ UNCHANGED <<input, tick, doc, nextDel, coll, merged, total>>

-----------------------------------------------------------------------------
(* PolySearcher_top_docs *)

\* Searcher_top_docs returns what it pops from the queue, best first, and
\* S_modify_doc_ids moves the doc ids up.
TopDocs ==
    /\ pc = "segment" /\ seg = Len(Layout[tick]) + 1
    /\ total' = total + coll.hits
    /\ coll' = [coll EXCEPT !.queue =
                   LET best == PopAll(search.rules, @)
                   IN  [i \in DOMAIN best |-> [best[i] EXCEPT !.doc = @ + Start]]]
    /\ pc' = "merge"
    /\ UNCHANGED <<input, tick, seg, doc, nextDel, merged>>

\* HitQ_Insert, best first, until one does not get in.
Merge ==
    /\ pc = "merge" /\ coll.queue # <<>>
    /\ LET m == Head(coll.queue)
       IN  \/ /\ HasRoom(search.wanted, merged)
              /\ merged' = Put(search.rules, merged, m)
              /\ coll' = [coll EXCEPT !.queue = Tail(@)]
           \/ /\ Displaces(search.rules, search.wanted, merged, m)
              /\ merged' = Replaced(search.rules, merged, m)
              /\ coll' = [coll EXCEPT !.queue = Tail(@)]
           \/ /\ Refuses(search.rules, search.wanted, merged, m)
              /\ coll' = [coll EXCEPT !.queue = <<>>]
              /\ UNCHANGED merged
    /\ UNCHANGED <<input, pc, tick, seg, doc, nextDel, total>>

\* On to the next Searchable, with a new SortCollector, or to the end, when
\* all are popped.
Merged ==
    /\ pc = "merge" /\ coll.queue = <<>>
    /\ coll' = NewCollector
    /\ IF tick < Len(Layout)
       THEN pc' = "segment" /\ tick' = tick + 1 /\ seg' = 1 /\ UNCHANGED merged
       ELSE pc' = "done" /\ merged' = PopAll(search.rules, merged) /\ UNCHANGED <<tick, seg>>
    /\ UNCHANGED <<input, doc, nextDel, total>>

Next ==
    \/ EnterSegment \/ SkipSegment
    \/ CatchUp \/ SkipDeleted \/ AdvancePast \/ NextMatch \/ Hit \/ Exhausted
    \/ TopDocs \/ Merge \/ Merged

Spec == Init /\ [][Next]_vars
FairSpec == Spec /\ WF_vars(Next)

-----------------------------------------------------------------------------
(* PolySearcher_fetch_doc, and PolyDocReader_fetch below it *)

\* PolyReader_sub_tick: a binary search; if the id is the first of its
\* sub-reader, sub-readers that begin at that number are gone past.
SubTick(offsets, id) ==
    LET n == Len(offsets)
        past[mid \in 1..n] ==
            IF mid < n /\ offsets[mid + 1] = id THEN past[mid + 1] ELSE mid
        between[lo \in 1..(n + 1), hi \in 0..n] ==
            LET mid == lo + (hi - lo) \div 2
            IN  CASE hi < lo                -> hi
                  [] id < offsets[mid] + 1 -> between[lo, mid - 1]
                  [] id > offsets[mid] + 1 -> between[mid + 1, hi]
                  [] OTHER                  -> past[mid]
    IN  between[1, n]

\* The document that is fetched for doc id g: the Searchable's segment and the
\* number in it.  There is no document 0.
Fetched(g) ==
    LET t == SubTick(Starts, g)
        inSearchable == g - Starts[t]
        offsets == Front(SegStarts[t])
        s == SubTick(offsets, inSearchable)
    IN  [tick |-> t, seg |-> s, doc |-> inSearchable - offsets[s]]

-----------------------------------------------------------------------------
(* What a search promises, in terms of all documents *)

MatchDocs == [doc : 1..DocMax, score : Nat, value : Nat]

\* Every variable holds a value of its kind, and the queues never hold more
\* than wanted (S_put would throw).
TypeOK ==
    /\ docs \in [1..DocMax -> Doc]
    /\ search \in Search
    /\ pc \in {"segment", "loop", "skip", "hit", "merge", "done"}
    /\ tick \in DOMAIN Layout /\ seg \in 1..(Len(Layout[tick]) + 1)
    /\ doc \in 0..(DocMax + 1) /\ nextDel \in 0..Never
    /\ coll.queue \in Seq(MatchDocs) /\ merged \in Seq(MatchDocs)
    /\ Len(coll.queue) <= search.wanted /\ Len(merged) <= search.wanted
    /\ total \in 0..DocMax /\ coll.hits \in 0..DocMax

\* Document g as a hit with its true score.
TrueHit(g) == [doc |-> g, score |-> IF NeedScore THEN docs[g].score ELSE NegInf,
               value |-> docs[g].value]

Live(g) == docs[g].matches /\ ~docs[g].deleted

\* Does the order that the rules describe put a before b?
Before(a, b) ==
    LET key(rule, m) ==
            CASE rule.key = "score" -> -m.score
              [] rule.key = "doc"   -> m.doc
              [] rule.key = "field" -> IF m.value = Null THEN 1 + Max({docs[g].value : g \in 1..DocMax})
                                                     ELSE m.value
        signed(rule, m) == IF rule.reverse THEN -key(rule, m) ELSE key(rule, m)
        differ == {i \in DOMAIN search.rules :
                     signed(search.rules[i], a) # signed(search.rules[i], b)}
    IN  differ # {} /\ LET first == CHOOSE i \in differ : \A j \in differ : i <= j
                       IN  signed(search.rules[first], a) < signed(search.rules[first], b)

\* The best of a set of hits: true hits, as many as there are up to wanted, and
\* none left out comes before one that was kept.
AreBest(kept, hits) ==
    /\ kept \subseteq hits
    /\ Cardinality(kept) = Min({search.wanted, Cardinality(hits)})
    /\ \A a \in hits \ kept, b \in kept : ~Before(a, b)

\* How far Matcher_collect has got in the segment.
Reached ==
    CASE pc = "segment" -> 0
      [] pc = "loop"    -> doc
      [] pc = "skip"    -> doc - 1
      [] pc = "hit"     -> IF doc = 0 THEN SegDocMax ELSE doc - 1

Collecting == pc \in {"segment", "loop", "skip", "hit"}

\* The live documents of this Searchable that have been gone by.
GoneBy == {g \in (Start + 1)..(Start + SegStart + Reached) : Live(g)}

\* Matcher_collect hands each matching document that is not deleted to the
\* collector once and no other, however matches and deletions are laid out.
HitsCounted == Collecting => coll.hits = Cardinality(GoneBy)

\* SortColl_collect, with its threshold per segment and its comparison by
\* ordinals, never turns away a hit that belongs among the best so far, and
\* the MatchDocs it keeps bear the scores of their documents.
QueueIsBest ==
    Collecting =>
        AreBest({[m EXCEPT !.doc = @ + Start] : m \in Range(coll.queue)},
                {TrueHit(g) : g \in GoneBy})

\* What PolySearcher_top_docs returns, from any division of the documents into
\* Searchables and segments, is the best of all live matches, the better first,
\* and their number.
ResultIsBest ==
    pc = "done" =>
        /\ total = Cardinality({g \in 1..DocMax : Live(g)})
        /\ AreBest(Range(merged), {TrueHit(g) : g \in {h \in 1..DocMax : Live(h)}})
        /\ \A i, j \in DOMAIN merged : i < j => ~Before(merged[j], merged[i])

\* Every hit is fetched from the segment of the Searchable that it was found
\* in: PolyReader_sub_tick "determines which sub-reader a document id belongs
\* to" (PolyReader.bp).
FetchesRight ==
    pc = "done" =>
        \A m \in Range(merged) : LET f == Fetched(m.doc)
                          IN  f.doc \in 1..Layout[f.tick][f.seg]

\* The loops of Matcher_collect end, whichever of the matches and the deletions
\* is exhausted first.
Terminates == <>(pc = "done")
=============================================================================
