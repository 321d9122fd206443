------------------------------ MODULE HitQueue ------------------------------
(* Search/HitQueue.c over Util/PriorityQueue.c: the MatchDocs that rank     *)
(* highest by a list of SortRules, at most so many of them.                 *)
(*                                                                          *)
(* A queue is a heap, the MatchDocs in the order of their places, with the  *)
(* least one first.  A MatchDoc has a doc id, a score and the value of the  *)
(* one field there is to sort on; a document without a value has Null.      *)
EXTENDS Naturals, SequencesExt

Null == 0

SortRule == [key : {"score", "doc", "field"}, reverse : BOOLEAN]

\* FType_Compare_Values: NULL sorts last.
ValueBefore(v, w) == v # Null /\ (w = Null \/ v < w)

\* One step of HitQ_less_than: does the rule put a ahead of b?
Ahead(rule, a, b) ==
    CASE rule.key = "score" -> a.score > b.score
      [] rule.key = "doc"   -> a.doc < b.doc
      [] rule.key = "field" -> ValueBefore(a.value, b.value)

Prefers(rule, a, b) == IF rule.reverse THEN Ahead(rule, b, a) ELSE Ahead(rule, a, b)

\* Mutated form of LessThan: only the first rule is asked.
LessThanFirst(rules, a, b) == Prefers(rules[1], b, a)

\* HitQ_less_than: the first rule that tells a and b apart decides.
LessThan(rules, a, b) ==
    \E i \in DOMAIN rules :
        /\ Prefers(rules[i], b, a)
        /\ \A j \in 1..(i - 1) : ~Prefers(rules[j], a, b) /\ ~Prefers(rules[j], b, a)

-----------------------------------------------------------------------------
SwapNodes(heap, i, j) == [heap EXCEPT ![i] = heap[j], ![j] = heap[i]]

\* A MatchDoc on its way through a heap is at a node of it.
Places(heap) == [heap : [DOMAIN heap -> Range(heap)], node : DOMAIN heap]
MoveTo(at, j) == [heap |-> SwapNodes(at.heap, at.node, j), node |-> j]

\* One turn of the loop of S_up_heap: is the node less than its parent?
Rises(rules, at) ==
    LET j == at.node \div 2 IN j > 0 /\ LessThan(rules, at.heap[at.node], at.heap[j])

\* S_up_heap: the last node goes up.
UpHeap(rules, heap) ==
    LET up[at \in Places(heap)] ==
            IF Rises(rules, at) THEN up[MoveTo(at, at.node \div 2)] ELSE at.heap
    IN  up[[heap |-> heap, node |-> Len(heap)]]

\* The smaller child of node i.
Smaller(rules, heap, i) ==
    IF 2 * i + 1 <= Len(heap) /\ LessThan(rules, heap[2 * i + 1], heap[2 * i])
    THEN 2 * i + 1 ELSE 2 * i

\* One turn of the loop of S_down_heap: is the smaller child less than the node?
Sinks(rules, at) ==
    LET j == Smaller(rules, at.heap, at.node)
    IN  j <= Len(at.heap) /\ LessThan(rules, at.heap[j], at.heap[at.node])

\* S_down_heap: the first node goes down.
DownHeap(rules, heap) ==
    LET down[at \in Places(heap)] ==
            IF Sinks(rules, at) THEN down[MoveTo(at, Smaller(rules, at.heap, at.node))] ELSE at.heap
    IN  down[[heap |-> heap, node |-> 1]]

\* Mutated form of Pop: the last node is put first and left there.
PopUnsifted(rules, heap) ==
    IF Len(heap) = 1 THEN <<>> ELSE [Front(heap) EXCEPT ![1] = Last(heap)]

\* PriQ_Pop: what is left.
Pop(rules, heap) ==
    IF Len(heap) = 1 THEN <<>> ELSE DownHeap(rules, [Front(heap) EXCEPT ![1] = Last(heap)])

\* PriQ_Pop_All: the array is filled from its end.
PopAll(rules, heap) ==
    LET all[h \in BoundedSeq(Range(heap), Len(heap))] ==
            IF h = <<>> THEN <<>> ELSE Append(all[Pop(rules, h)], h[1])
    IN  all[heap]

\* Mutated form of HasRoom: max_size is taken for the last index.
HasRoomExtra(max, heap) == Len(heap) <= max

\* What PriQ_Jostle does with the new MatchDoc m: S_put, or m for the least.
HasRoom(max, heap) == Len(heap) < max
Put(rules, heap, m) == UpHeap(rules, Append(heap, m))

Displaces(rules, max, heap, m) ==
    ~HasRoom(max, heap) /\ heap # <<>> /\ ~LessThan(rules, m, heap[1])
Replaced(rules, heap, m) == DownHeap(rules, [heap EXCEPT ![1] = m])

Refuses(rules, max, heap, m) ==
    ~HasRoom(max, heap) /\ (heap = <<>> \/ LessThan(rules, m, heap[1]))
=============================================================================
