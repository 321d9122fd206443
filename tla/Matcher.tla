------------------------------ MODULE Matcher ------------------------------
(* What Search/Matcher.bp promises: a Matcher iterates over an ascending    *)
(* set of doc ids; Next() and Advance() give the first of them that is not  *)
(* below a target, which must be past the last one given, and 0 when there  *)
(* is none.                                                                 *)
EXTENDS Naturals

VARIABLES
    docs,   \* the documents that match
    asked,  \* the target of the last call, 0 before the first
    found   \* what the last call that returned gave

vars == <<docs, asked, found>>

\* The least document of D that is not below target, 0 if there is none.
First(D, target) ==
    LET rest == {d \in D : d >= target}
    IN  IF rest = {} THEN 0 ELSE CHOOSE d \in rest : \A e \in rest : d <= e

Init == asked = 0 /\ found = 0

Exhausted == asked # 0 /\ found = 0

\* Next() asks for what is past the last document, Advance() for more.
Call == ~Exhausted /\ asked' > found /\ UNCHANGED <<docs, found>>

Return == found' = First(docs, asked) /\ UNCHANGED <<docs, asked>>

Next == Call \/ Return

Spec == Init /\ [][Next]_vars
=============================================================================
