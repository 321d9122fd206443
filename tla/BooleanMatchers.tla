-------------------------- MODULE BooleanMatchers ---------------------------
(* The Matchers that put the documents of their children together: all of   *)
(* them, any of them, or the ones without them.                             *)
EXTENDS Matching, Functions


-----------------------------------------------------------------------------
(* Search/ANDScorer.c and Search/PhraseScorer.c: documents on which all the *)
(* children agree.  The children of a PhraseScorer are posting lists, and a *)
(* document on which they agree must also have the terms side by side; here *)
(* the documents that do are kept in self.phrase.                           *)

\* ANDScorer_init sends every child to its first document.
AndInit ==
    /\ pos = [k \in Kid |-> AtFirst(k)]
    /\ self = [more |-> \A k \in Kid : kids[k] # {}, first |-> TRUE,
               highest |-> 0, target |-> 0, i |-> 1, phrase |-> DocId]

\* PhraseScorer_init leaves them where they are.
PhraseInit ==
    /\ pos = [k \in Kid |-> 0]
    /\ self \in [more : {TRUE}, first : {TRUE}, highest : {0}, target : {0},
                 i : {1}, phrase : SUBSET DocId]

\* ANDScorer_next is ANDScorer_advance for the document after the last.
ConjunctionCall(t) ==
    /\ self' = [self EXCEPT !.target = t, !.highest = 0, !.i = 1]
    /\ Goto("seed")
    /\ UNCHANGED child

\* The search begins with the first child alone moved on.
SeedWith(target) ==
    LET d == First(kids[1], target)
    IN  /\ Ask(1, target)
        /\ self' = [self EXCEPT !.highest = d, !.more = d # 0]
        /\ IF d = 0 THEN Return(0) ELSE Goto("scoot")

AndSeed ==
    /\ pc = "seed" /\ kind = "and"
    /\ \/ ~self.more /\ Return(0) /\ UNCHANGED <<self, child>>
       \/ /\ self.more /\ self.first
          /\ self' = [self EXCEPT !.first = FALSE]
          /\ Goto("scoot") /\ UNCHANGED child
       \/ self.more /\ ~self.first /\ SeedWith(Target)
    /\ UNCHANGED <<client, parts>>

\* The first time all posting lists are advanced; one that has no document
\* ends the search.  S_invalidate
PhraseSeed ==
    /\ pc = "seed" /\ kind = "phrase"
    /\ \/ /\ self.first
          /\ pos' = [k \in Kid |-> AtFirst(k)]
          /\ UNCHANGED misuse
          /\ self' = [self EXCEPT !.first = FALSE,
                                  !.highest = HighestOf({pos'[k] : k \in Kid})]
          /\ IF \E k \in Kid : kids[k] = {} THEN Return(0) ELSE Goto("scoot")
       \/ ~self.first /\ SeedWith(pos[1] + 1)
    /\ UNCHANGED <<client, parts>>

\* The highest of the documents seen and the target.
Bar == HighestOf({self.highest, pos[self.i], Target})

\* One turn of the loop that scoots all children up to the highest document.
Scoot ==
    /\ pc = "scoot" /\ self.i <= Len(kids)
    /\ LET here == pos[self.i]
           d == IF here < Bar THEN First(kids[self.i], Bar)
                              ELSE HighestOf({self.highest, here})
       IN  /\ IF here < Bar THEN Ask(self.i, Bar) ELSE UNCHANGED child
           /\ self' = [self EXCEPT !.target = Bar, !.highest = d,
                                   !.more = d # 0, !.i = @ + 1]
           /\ IF d = 0 THEN Return(0) ELSE Goto("scoot")
    /\ UNCHANGED <<client, parts>>

Agreed == self.highest >= Target /\ \A k \in Kid : pos[k] = self.highest

\* Mutated form of NextTarget: the document is left as the target.
NextTargetSame == Target

\* On a document without the phrase the PhraseScorer raises the target by one.
NextTarget == IF Agreed THEN Target + 1 ELSE Target

\* If the children do not agree, back through the loop.
Reconcile ==
    /\ pc = "scoot" /\ self.i > Len(kids)
    /\ IF Agreed /\ self.highest \in self.phrase
       THEN /\ Return(self.highest)
            /\ parts' = {<<k, pos[k]>> : k \in Kid}
            /\ UNCHANGED self
       ELSE /\ Goto("scoot")
            /\ self' = [self EXCEPT !.i = 1, !.target = NextTarget]
            /\ UNCHANGED parts
    /\ UNCHANGED <<client, child>>

ConjunctionStep == AndSeed \/ PhraseSeed \/ Scoot \/ Reconcile

ConjunctionMeaning == {d \in self.phrase : \A k \in Kid : d \in kids[k]}

-----------------------------------------------------------------------------
(* Search/ORMatcher.c: documents that any of the children match, for        *)
(* ORMatcher, which only matches, and for ORScorer.  The children sit in a  *)
(* heap, with the least document at its top; an exhausted child leaves it.  *)

Swap(s, i, j) == [s EXCEPT ![i] = s[j], ![j] = s[i]]

\* The lesser of the two children of node i.
Lesser(heap, i) ==
    IF 2 * i + 1 <= Len(heap) /\ heap[2 * i + 1].doc < heap[2 * i].doc THEN 2 * i + 1 ELSE 2 * i

\* Is node i no greater than its children?
Settled(heap, i) ==
    LET j == Lesser(heap, i) IN j > Len(heap) \/ heap[j].doc >= heap[i].doc

\* One turn of the loop of S_sift_down, which is at a node of a heap.
SiftTurn(at) ==
    LET j == Lesser(at.heap, at.node)
    IN  [heap |-> Swap(at.heap, at.node, j), node |-> j]

\* S_sift_down: the first node goes down, past lesser children.
SiftDown(heap) ==
    LET sift[at \in [heap : [DOMAIN heap -> Range(heap)], node : DOMAIN heap]] ==
            IF Settled(at.heap, at.node) THEN at.heap ELSE sift[SiftTurn(at)]
    IN  sift[[heap |-> heap, node |-> 1]]

\* Mutated form of AdjustRoot: the child that takes the exhausted one's place
\* stays at the top.
AdjustRootUnsifted(heap, doc) ==
    IF doc # Ended THEN SiftDown([heap EXCEPT ![1].doc = doc])
    ELSE SubSeq([heap EXCEPT ![1] = heap[Len(heap)]], 1, Len(heap) - 1)

\* S_adjust_root: the heap when the child at its top has moved on to doc.
AdjustRoot(heap, doc) ==
    LET filled == IF doc # Ended THEN [heap EXCEPT ![1].doc = doc]
                  ELSE SubSeq([heap EXCEPT ![1] = heap[Len(heap)]], 1, Len(heap) - 1)
    IN  IF filled = <<>> THEN filled ELSE SiftDown(filled)

Top == self.heap[1]
TopIsAt(heap, d) == heap # <<>> /\ heap[1].doc = d

\* SI_top_next and SI_top_advance
TopAdvance(target) ==
    /\ Ask(Top.kid, target)
    /\ self' = [self EXCEPT !.heap = AdjustRoot(@, pos'[Top.kid])]

\* The docs of a heap that has just been made are 0; the constructor of an
\* ORScorer goes past them with ORMatcher_next.
DisjunctionInit ==
    /\ pos = [k \in Kid |-> 0]
    /\ self = [heap |-> [k \in Kid |-> [kid |-> k, doc |-> 0]],
               doc |-> 0, target |-> 0, last |-> 0]

\* ORMatcher_next, ORMatcher_advance
MatcherCall(t, isNext) ==
    /\ kind = "ormatcher"
    /\ self' = [self EXCEPT !.target = t, !.last = Top.doc]
    /\ Goto(IF isNext THEN "next" ELSE "advance")
    /\ UNCHANGED child

\* ORScorer_next, ORScorer_advance.  A target at or below the document the
\* ORScorer is at, for which ORScorer_advance stays there, is never asked for.
ScorerCall(t, isNext) ==
    /\ kind = "orscorer"
    /\ self' = [self EXCEPT !.target = t]
    /\ Goto(IF isNext THEN "current" ELSE "catchup")
    /\ UNCHANGED child

\* All children have been exhausted.
Spent ==
    /\ pc \in {"current", "catchup"} /\ self.heap = <<>>
    /\ Return(0)
    /\ UNCHANGED <<client, child, self, parts>>

\* One turn of the loop of ORMatcher_next: every child at the last document
\* is sent on.
TopNext ==
    /\ pc \in {"next", "prime"}
    /\ Top.doc = self.last
    /\ TopAdvance(Top.doc + 1)
    /\ \/ self'.heap = <<>> /\ pc = "next" /\ Return(0)
       \/ self'.heap = <<>> /\ pc = "prime" /\ Goto("idle")
       \/ self'.heap # <<>> /\ UNCHANGED <<pc, found>>
    /\ UNCHANGED <<client, parts>>

PastLast ==
    /\ pc \in {"next", "prime"}
    /\ Top.doc # self.last
    /\ IF pc = "next" THEN Return(Top.doc) ELSE Goto("idle")
    /\ UNCHANGED <<client, child, self, parts>>

\* One turn of the loop of ORMatcher_advance.
AdvanceTop ==
    /\ pc = "advance"
    /\ TopAdvance(Target)
    /\ \/ self'.heap = <<>> /\ Return(0)
       \/ self'.heap # <<>> /\ self'.heap[1].doc >= Target /\ Return(self'.heap[1].doc)
       \/ self'.heap # <<>> /\ self'.heap[1].doc < Target /\ UNCHANGED <<pc, found>>
    /\ UNCHANGED <<client, parts>>

\* One turn of the loop of ORScorer_advance.
CatchUp ==
    /\ pc = "catchup" /\ self.heap # <<>>
    /\ \/ /\ Top.doc >= Target
          /\ Goto("current") /\ UNCHANGED <<self, child>>
       \/ /\ Top.doc < Target
          /\ TopAdvance(Target)
          /\ \/ self'.heap = <<>> /\ Return(0)
             \/ self'.heap # <<>> /\ UNCHANGED <<pc, found>>
    /\ UNCHANGED <<client, parts>>

\* Mutated form of Current: the scores of the last document are kept.
CurrentAdded ==
    /\ pc = "current" /\ self.heap # <<>>
    /\ parts' = parts \cup {<<Top.kid, pos[Top.kid]>>}
    /\ self' = [self EXCEPT !.doc = Top.doc]
    /\ Goto("accumulate")
    /\ UNCHANGED <<client, child>>

\* S_advance_after_current: the top child is at the document already.
Current ==
    /\ pc = "current" /\ self.heap # <<>>
    /\ parts' = {<<Top.kid, pos[Top.kid]>>}
    /\ self' = [self EXCEPT !.doc = Top.doc]
    /\ Goto("accumulate")
    /\ UNCHANGED <<client, child>>

\* One turn of its loop: send the top child past the document, and take the
\* score of the next one if it is at the document too.
Accumulate ==
    /\ pc = "accumulate"
    /\ TopAdvance(Top.doc + 1)
    /\ \/ /\ ~TopIsAt(self'.heap, self.doc)
          /\ Return(self.doc) /\ UNCHANGED parts
       \/ /\ TopIsAt(self'.heap, self.doc)
          /\ parts' = parts \cup {<<Top'.kid, pos'[Top'.kid]>>}
          /\ UNCHANGED <<pc, found>>
    /\ UNCHANGED client

DisjunctionStep == TopNext \/ PastLast \/ AdvanceTop \/ Spent \/ CatchUp \/ Current \/ Accumulate

DisjunctionMeaning == UNION {kids[k] : k \in Kid}

-----------------------------------------------------------------------------
(* Search/NOTScorer.c: the documents that the one child does not match; and *)
(* Search/RequiredOptionalScorer.c: the documents that the first child      *)
(* matches, which the second may add to the score of.                       *)

NotInit ==
    /\ pos = [k \in Kid |-> 0]
    /\ self = [doc |-> 0, nextNegation |-> 0, target |-> 0]

\* NOTScorer_advance starts before the target, NOTScorer_next where it is.
NotCall(t, isNext) ==
    /\ kind = "not"
    /\ self' = [self EXCEPT !.target = t, !.doc = IF isNext THEN @ ELSE t - 1]
    /\ Goto("negate")
    /\ UNCHANGED child

\* Mutated form of Stale: the next negation is looked up on every turn.
StaleAlways(doc) == TRUE

\* Is the negation that is known of behind doc?
Stale(doc) == self.nextNegation < doc

\* One turn of the loop of NOTScorer_next.
Negate ==
    /\ pc = "negate"
    /\ LET doc == self.doc + 1
           negation == IF Stale(doc) THEN At(1, doc) ELSE self.nextNegation
       IN  /\ IF Stale(doc) THEN Ask(1, doc) ELSE UNCHANGED child
           /\ self' = [self EXCEPT !.doc = IF doc > DocMax THEN DocMax ELSE doc,
                                   !.nextNegation = negation]
           /\ \/ doc > DocMax /\ Return(0)
              \/ doc <= DocMax /\ doc # negation /\ Return(doc)
              \/ doc <= DocMax /\ doc = negation /\ Goto("negate")
    /\ UNCHANGED <<client, parts>>

\* optional: is there still an optional matcher?  scored: the document that
\* Score was last called for.
ReqOptInit ==
    /\ pos = [k \in Kid |-> 0]
    /\ self = [firstTime |-> TRUE, optional |-> TRUE, scored |-> 0, target |-> 0]

\* ReqOptScorer_next and ReqOptScorer_advance are the required matcher's.
ReqOptCall(t) ==
    /\ kind = "reqopt"
    /\ self' = [self EXCEPT !.target = t]
    /\ Goto("require")
    /\ UNCHANGED child

Require ==
    /\ pc = "require"
    /\ Ask(1, Target)
    /\ Return(First(kids[1], Target))
    /\ UNCHANGED <<client, self, parts>>

\* Is the optional matcher behind the required one?
OptionalDue == self.optional /\ (self.firstTime \/ pos[2] < pos[1])

\* ReqOptScorer_score
Score ==
    /\ pc = "idle" /\ kind = "reqopt" /\ found # 0
    /\ IF OptionalDue THEN Ask(2, pos[1]) ELSE UNCHANGED child
    /\ self' = [self EXCEPT !.firstTime = FALSE, !.scored = pos[1],
                            !.optional = @ /\ pos'[2] # Ended]
    /\ parts' = {<<k, pos'[k]>> : k \in IF self'.optional /\ pos'[2] = pos[1]
                                        THEN {1, 2} ELSE {1}}
    /\ UNCHANGED <<client, pc, found>>

ExclusionStep == Negate \/ Require \/ Score

ExclusionMeaning == IF kind = "not" THEN DocId \ kids[1] ELSE kids[1]
=============================================================================
