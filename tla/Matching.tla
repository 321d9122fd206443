------------------------------ MODULE Matching ------------------------------
(* The common ground of the compound Matchers (Search/PolyMatcher.c and its *)
(* subclasses): a client that calls Next, Advance and Score, and children   *)
(* that are Matchers themselves (Matcher.tla).                              *)
EXTENDS Integers, Sequences, FiniteSets

CONSTANTS
    DocMax,      \* documents in a segment
    SkipInterval \* Architecture_Skip_Interval; 16

VARIABLES
    kind,    \* the class of the Matcher
    kids,    \* [1..n -> SUBSET DocId]: what each child matches
    pos,     \* the doc id each child is at; 0: not asked yet, Ended: exhausted
    misuse,  \* was a child asked for what Matcher.bp does not allow?
    self,    \* the Matcher's members, and the locals of the call
    pc,      \* where the call is; "idle" between calls
    asked,   \* the target of the last call
    found,   \* what the last call that returned gave
    parts    \* whose score at which document the score is made of

client == <<kind, kids, asked>>
child == <<pos, misuse>>
vars == <<client, child, self, pc, found, parts>>

DocId == 1..DocMax
Ended == DocMax + 1
Kid == DOMAIN kids

HighestOf(S) == CHOOSE h \in S : \A e \in S : e <= h

\* The least document of D that is not below target, 0 if there is none.
First(D, target) ==
    LET rest == {d \in D : d >= target}
    IN  IF rest = {} THEN 0 ELSE CHOOSE d \in rest : \A e \in rest : d <= e

\* Where child k is once it has been asked for target.
At(k, target) == IF First(kids[k], target) = 0 THEN Ended ELSE First(kids[k], target)
AtFirst(k) == At(k, 1)

\* Matcher_Advance on child k, which gives First(kids[k], target).
Ask(k, target) ==
    /\ pos' = [pos EXCEPT ![k] = At(k, target)]
    /\ misuse' = (misuse \/ pos[k] = Ended \/ target <= pos[k])

Goto(label) == pc' = label /\ UNCHANGED found
Return(d) == pc' = "idle" /\ found' = d

\* The client calls Next or Advance until it is given 0.
Target == self.target
Callable == pc = "idle" /\ (asked = 0 \/ found # 0)
=============================================================================
