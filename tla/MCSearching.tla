---------------------------- MODULE MCSearching ----------------------------
(* A whole search, or one Matcher by itself inside of a segment.  A         *)
(* behaviour is of one kind; the variables of the other kind then keep a    *)
(* fixed value.                                                             *)
EXTENDS MCSearch

CONSTANTS Pairs, SegmentMax, SkipInterval

\* A class of Matcher is made with as many children as it needs.
ASSUME PairsAssumption ==
    /\ SegmentMax \in Nat
    /\ \A pair \in Pairs :
          /\ pair[1] \in {"and", "phrase", "ormatcher", "orscorer", "not", "reqopt", "postings"}
          /\ pair[2] \in Seq(SUBSET (1..SegmentMax))
          /\ pair[1] # "postings" => pair[2] # <<>>
          /\ pair[1] = "reqopt" => Len(pair[2]) = 2

VARIABLES
    scope,      \* "search" or "matcher"
    \* the state of the Matcher
    kind, kids, pos, misuse, self, step, asked, found, parts

matcherVars == <<kind, kids, pos, misuse, self, step, asked, found, parts>>

\* Up to three children, and four for the heap of an ORMatcher.
Two == [1..2 -> SUBSET (1..3)]
Three == [1..3 -> SUBSET (1..3)]
Four == [1..4 -> {{1}, {2}, {1, 3}, {2, 4}}]
\* Segments of up to four postings, with a skip after every second.
Segments == [1..1 -> SUBSET (1..4)] \cup [1..2 -> {{}, {3}, {1, 2}, {2, 3, 4}, 1..4}]

MCPairs ==
    ({"and"} \X Three) \cup ({"phrase"} \X Two)
    \cup ({"ormatcher", "orscorer"} \X (Two \cup Four))
    \cup ({"not"} \X [1..1 -> SUBSET (1..4)]) \cup ({"reqopt"} \X Two)
    \cup ({"postings"} \X Segments)

Single == INSTANCE Matchers WITH DocMax <- SegmentMax, pc <- step

\* Nothing to match, and a posting list of no segments.
NoSearch ==
    /\ docs = [g \in 1..DocMax |-> CHOOSE d \in Doc : ~d.matches]
    /\ search = CHOOSE any \in Search : TRUE
    /\ pc = "done" /\ tick = 1 /\ seg = 1 /\ doc = 0 /\ nextDel = 0
    /\ coll = NewCollector /\ merged = <<>> /\ total = 0
NoMatcher ==
    /\ kind = "postings" /\ kids = <<>> /\ pos = <<>> /\ misuse = FALSE /\ self = <<>>
    /\ step = "idle" /\ asked = 0 /\ found = 0 /\ parts = {}

EitherInit ==
    \/ scope = "search" /\ Init /\ NoMatcher
    \/ scope = "matcher" /\ Single!Init /\ NoSearch

EitherNext ==
    /\ UNCHANGED scope
    /\ \/ scope = "search" /\ Next /\ UNCHANGED matcherVars
       \/ scope = "matcher" /\ Single!Next /\ UNCHANGED vars

EitherSpec ==
    /\ EitherInit /\ [][EitherNext]_<<scope, vars, matcherVars>>
    /\ WF_<<scope, vars, matcherVars>>(scope = "search" /\ EitherNext)
    /\ WF_<<scope, vars, matcherVars>>(step # "idle" /\ EitherNext)

\* Next and Advance of every class of Matcher give the documents it stands
\* for, each once and in order: Matcher.bp.
ImplementsMatcher == Single!ImplementsMatcher

\* No child is asked for what Matcher.bp does not allow.
LegalCalls == Single!LegalCalls

\* The score of a document is made of those of the children that match it.
ScoreRight == Single!ScoreRight

\* Next and Advance return.
CallsReturn == Single!CallsReturn
=============================================================================
