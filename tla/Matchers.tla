------------------------------ MODULE Matchers ------------------------------
(* A client and one Matcher over some children: the Matcher must give what  *)
(* Matcher.tla says for the documents its class stands for.                 *)
EXTENDS BooleanMatchers, Postings

CONSTANT Pairs \* <<class of Matcher, the children>>, the instances to try

Meaning ==
    CASE kind \in {"and", "phrase"} -> ConjunctionMeaning
      [] kind \in {"ormatcher", "orscorer"} -> DisjunctionMeaning
      [] kind \in {"not", "reqopt"} -> ExclusionMeaning
      [] kind = "postings" -> PostingsMeaning

Init ==
    /\ \E pair \in Pairs : kind = pair[1] /\ kids = pair[2]
    /\ CASE kind = "and" -> AndInit
         [] kind = "phrase" -> PhraseInit
         [] kind \in {"ormatcher", "orscorer"} -> DisjunctionInit
         [] kind = "not" -> NotInit
         [] kind = "reqopt" -> ReqOptInit
         [] kind = "postings" -> PostingsInit
    /\ pc = IF kind = "orscorer" THEN "prime" ELSE "idle"
    /\ misuse = FALSE /\ asked = 0 /\ found = 0 /\ parts = {}

\* The last document there could be.
LastDoc == IF kind = "postings" THEN Len(kids) * DocMax ELSE DocMax

\* Matcher_next, for the document after the last, or Matcher_advance.
Call(t, isNext) ==
    /\ Callable
    /\ isNext => t = found + 1
    /\ asked' = t
    /\ \/ kind \in {"and", "phrase"} /\ ConjunctionCall(t)
       \/ MatcherCall(t, isNext)
       \/ ScorerCall(t, isNext)
       \/ NotCall(t, isNext)
       \/ ReqOptCall(t)
       \/ PostingsCall(t, isNext)
    /\ UNCHANGED <<kind, kids, parts>>

Step == ConjunctionStep \/ DisjunctionStep \/ ExclusionStep \/ PostingsStep

Next == Step \/ \E t \in found + 1 .. LastDoc + 1, isNext \in BOOLEAN : Call(t, isNext)

Spec == Init /\ [][Next]_vars

\* A call that has begun is carried on with: nothing in a Matcher waits.
FairSpec == Spec /\ WF_vars(pc # "idle" /\ Step)

-----------------------------------------------------------------------------

\* A child is at one of its documents or at an end, and what is given is a
\* document.
TypeOK ==
    /\ \A k \in Kid : pos[k] \in kids[k] \cup {0, Ended}
    /\ asked \in 0 .. LastDoc + 1 /\ found \in 0 .. LastDoc
    /\ parts \subseteq Kid \X DocId
    /\ kind \in {"ormatcher", "orscorer"} =>
           \A i, j \in DOMAIN self.heap : self.heap[i].kid = self.heap[j].kid => i = j

\* Next and Advance give the documents the class stands for, each once and in
\* order, and 0 after the last: Matcher.bp.
Contract == INSTANCE Matcher WITH docs <- Meaning
ImplementsMatcher == Contract!Spec

\* No child is asked for a document that is not past the one it is at, nor
\* asked again after it has given 0: Matcher.bp requires it of Advance's
\* callers.
LegalCalls == ~misuse

\* The score of a document is made of the scores of exactly the children that
\* match it, each taken while the child is at that document.
ScoreRight ==
    (/\ pc = "idle" /\ found # 0
     /\ kind \in {"and", "orscorer"} \/ (kind = "reqopt" /\ self.scored = found))
        => parts = {<<k, found>> : k \in {c \in Kid : found \in kids[c]}}

\* Next and Advance return: children that disagree catch up with each other.
CallsReturn == pc # "idle" ~> pc = "idle"
=============================================================================
