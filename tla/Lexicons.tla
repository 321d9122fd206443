------------------------------ MODULE Lexicons ------------------------------
(* Index/LexIndex.c, SegLexicon.c, PolyLexicon.c and LexiconReader.c: an     *)
(* iterator over the terms of a field in all segments, and the search for    *)
(* one term, in files that TermFiles.tla has written.                        *)
EXTENDS Integers, FiniteSets

CONSTANTS
    Collections,    \* what the segments may hold: sequences of [term -> SUBSET doc]
    Target,         \* what may be asked for, the empty string included
    SkipInterval, IndexInterval

VARIABLES
    self,       \* the readers' files and lexicons, and a PolyLexicon
    seen        \* what was asked and answered last, and where the iterator was

INSTANCE TermFiles

Absent == -2        \* NULL, for a term

\* The files of a segment: postings in the order of terms, then documents.
FilesOf(contents) ==
    LET pairs == {<<t, d>> : t \in DOMAIN contents, d \in UNION Range(contents)}
        held == {p \in pairs : p[2] \in contents[p[1]]}
        InOrder(p, q) == p[1] < q[1] \/ (p[1] = q[1] /\ p[2] < q[2])
        Posting(p) == [term |-> p[1], doc |-> p[2], freq |-> 1, aux |-> <<>>]
        sorted == SetToSortSeq(held, InOrder)
    IN  WriteTermsAndPostings(NewFiles, [i \in DOMAIN sorted |-> Posting(sorted[i])], FALSE)

\* SegLex_init
NewLexicon == [stepper |-> Stepper(Absent, NoInfo), filepos |-> 0, termNum |-> -1]

\* LexIndex_seek: the last entry whose term does not come after the target.
IndexTick(ix, target) ==
    LET Bound == -1..Len(ix)
        found[lo \in Bound, hi \in Bound] ==
            LET mid == lo + ((hi - lo) \div 2)
                entry == ix[mid + 1].text
            IN  IF hi < lo THEN (IF hi = -1 THEN 0 ELSE hi)
                ELSE IF target < entry THEN found[lo, mid - 1]
                ELSE IF target > entry THEN found[mid + 1, hi]
                ELSE mid
    IN  IF ix = <<>> THEN 0 ELSE found[0, Len(ix) - 1]

\* LexIndex_get_term_num
IndexTermNum(tick) == IndexInterval * tick - 1

\* S_read_term_text begins with an empty text if there is none.
WithText(stepper) == IF stepper.text = Absent THEN Stepper(NoText, stepper.info) ELSE stepper

\* SegLex_next
SegNext(lex, files) ==
    IF lex.termNum + 1 >= Len(files.dat)
    THEN [lex EXCEPT !.termNum = Len(files.dat), !.stepper = Stepper(Absent, NoInfo)]
    ELSE [lex EXCEPT !.termNum = @ + 1, !.filepos = @ + 1,
                     !.stepper = ReadRecord(WithText(@), files.dat[lex.filepos + 1])]

\* SegLex_reset
SegReset(lex) == NewLexicon

\* Mutated form of ScanTo: the empty term that the index starts with counts.
ScanToAnything(lex, files, target) ==
    LET after[n \in 0..(Len(files.dat) + 1)] ==
            IF n = 0 THEN lex
            ELSE LET l == after[n - 1]
                 IN  IF l.stepper.text = Absent \/ l.stepper.text >= target THEN l ELSE SegNext(l, files)
    IN  after[Len(files.dat) + 1]

\* S_scan_to: on to the first term that does not come before the target.
ScanTo(lex, files, target) ==
    LET Arrived(l) == l.stepper.text = Absent \/ (l.stepper.text >= target /\ l.termNum # -1)
        after[n \in 0..(Len(files.dat) + 1)] ==
            IF n = 0 THEN lex
            ELSE IF Arrived(after[n - 1]) THEN after[n - 1] ELSE SegNext(after[n - 1], files)
    IN  after[Len(files.dat) + 1]

\* SegLex_seek, with LexStepper_Set_TInfo and LexStepper_Set_Value.
SegSeek(lex, files, target) ==
    LET tick == IndexTick(files.ix, target)
        entry == files.ix[tick + 1]
    IN  ScanTo([stepper |-> Stepper(entry.text, entry.info), filepos |-> entry.lexFilepos,
                termNum |-> IndexTermNum(tick)], files, target)

\* DefLexReader_fetch_term_info, of the lexicon that the reader has sought in.
InfoOf(lex, target) == IF lex.stepper.text = target THEN lex.stepper.info ELSE NoInfo

----------------------------------------------------------------------------
(* PolyLexicon: a queue of the SegLexicons that have a term. *)

Segs == DOMAIN self.files
TextOf(lexs, k) == lexs[k].stepper.text
Queue(lexs) == {k \in DOMAIN lexs : TextOf(lexs, k) # Absent}

\* PriQ_Peek with SegLexQ_less_than: one with a least term.
Peek(lexs, queue) == CHOOSE k \in queue : \A j \in queue : TextOf(lexs, k) <= TextOf(lexs, j)

\* PolyLex_reset
PolyReset(p) ==
    LET lexs == [k \in Segs |-> SegNext(SegReset(p.lexs[k]), self.files[k])]
    IN  [lexs |-> lexs, queue |-> Queue(lexs), term |-> Absent]

\* PolyLex_next: lexicons at the term that was returned last go one further.
PolyNext(p) ==
    LET Turn(s) ==
            LET top == Peek(s.lexs, s.queue)
                next == SegNext(s.lexs[top], self.files[top])
            IN  IF s.done THEN s
                ELSE IF s.queue = {} THEN [s EXCEPT !.term = Absent, !.done = TRUE]
                ELSE IF s.term # TextOf(s.lexs, top)
                     THEN [s EXCEPT !.term = TextOf(s.lexs, top), !.done = TRUE]
                ELSE [s EXCEPT !.lexs[top] = next,
                               !.queue = IF next.stepper.text = Absent THEN @ \ {top} ELSE @]
        turns == Cardinality(p.queue) + 1
        after[n \in 0..turns] ==
            IF n = 0 THEN [lexs |-> p.lexs, queue |-> p.queue, term |-> p.term, done |-> FALSE]
            ELSE Turn(after[n - 1])
    IN  [f \in {"lexs", "queue", "term"} |-> after[turns][f]]

\* PolyLex_seek and S_refresh_lex_q
PolySeek(p, target) ==
    LET lexs == [k \in Segs |-> SegSeek(p.lexs[k], self.files[k], target)]
        queue == Queue(lexs)
        least == IF queue = {} THEN Absent ELSE TextOf(lexs, Peek(lexs, queue))
        sought == [lexs |-> lexs, queue |-> queue, term |-> least]
    IN  IF least # Absent /\ least >= target THEN sought ELSE PolyNext(sought)

\* PolyLex_init and PolyLexReader_lexicon
Init ==
    /\ \E contents \in Collections :
          LET files == [k \in DOMAIN contents |-> FilesOf(contents[k])]
              none == [k \in DOMAIN contents |-> NewLexicon]
              first == [k \in DOMAIN contents |-> SegNext(NewLexicon, files[k])]
          IN  /\ self = [files |-> files, own |-> none, doc |-> <<>>,
                         poly |-> [lexs |-> first, queue |-> Queue(first), term |-> Absent]]
              /\ seen = [docs |-> contents, asked |-> "reset", target |-> 0, from |-> Absent]

Asked(what, target) ==
    seen' = [seen EXCEPT !.asked = what, !.target = target, !.from = self.poly.term]

Reset == self' = [self EXCEPT !.poly = PolyReset(@)] /\ Asked("reset", 0)

NextTerm ==
    /\ self.poly.term # Absent \/ seen.asked = "reset"
    /\ self' = [self EXCEPT !.poly = PolyNext(@)] /\ Asked("next", 0)

Seek(target) == self' = [self EXCEPT !.poly = PolySeek(@, target)] /\ Asked("seek", target)

\* PolyPList_seek, SegPList_seek and PolyLexReader_doc_freq: each segment's
\* reader looks for the term, with the lexicon it keeps.
Find(target) ==
    LET own == [k \in Segs |-> SegSeek(self.own[k], self.files[k], target)]
    IN  /\ self' = [self EXCEPT !.own = own,
                                !.doc = [k \in Segs |-> DocsOf(self.files[k], InfoOf(own[k], target))]]
        /\ Asked("find", target)

Next ==
    \/ Reset \/ NextTerm
    \/ \E target \in Target : Seek(target) \/ Find(target)

----------------------------------------------------------------------------
TermsOf(contents) == UNION {{t \in DOMAIN contents[k] : contents[k][t] # {}} : k \in DOMAIN contents}

\* What is asked for is found: a PolyLexicon goes through the terms of all
\* segments, each once and in order, from the start or from the first term
\* that does not come before a target, through the blocks of the index; each
\* SegLexicon knows the documents of the term it is at; and the reader finds
\* the documents of a term in each segment, or none.
LexiconRight ==
    LET all == TermsOf(seen.docs)
        ahead == CASE seen.asked = "next" -> {t \in all : t > seen.from}
                   [] seen.asked = "seek" -> {t \in all : t >= seen.target}
                   [] OTHER -> {}
        DocsIn(k, t) == SetToSortSeq(IF t \in DOMAIN seen.docs[k] THEN seen.docs[k][t] ELSE {}, <)
    IN  /\ CASE seen.asked = "reset" -> self.poly.term = Absent
             [] seen.asked = "find" -> self.poly.term = seen.from
             [] OTHER -> self.poly.term = IF ahead = {} THEN Absent ELSE Min(ahead)
        /\ \A k \in self.poly.queue :
              DocsOf(self.files[k], self.poly.lexs[k].stepper.info)
                  = DocsIn(k, TextOf(self.poly.lexs, k))
        /\ seen.asked = "find" => \A k \in Segs : self.doc[k] = DocsIn(k, seen.target)
=============================================================================
