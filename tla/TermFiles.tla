----------------------------- MODULE TermFiles -----------------------------
(* The files of a field's terms and postings: what                          *)
(* S_write_terms_and_postings in Index/PostingsWriter.c and                 *)
(* Index/LexiconWriter.c write, and how Index/LexStepper.c and              *)
(* Index/LexIndex.c read their records.                                     *)
(*                                                                          *)
(* Postings are RawPostings. A file is the sequence of its records, and a   *)
(* position in it the number of records before.  Numbers are written as     *)
(* differences where the code does so; a text, which is written as what it  *)
(* does not share with the text before, keeps that text in the field after. *)
EXTENDS Integers, SequencesExt

CONSTANTS SkipInterval, IndexInterval

NoText == 0         \* the empty string, which no term is

\* TermInfo: lex_filepos is used by the index of a lexicon alone.
NoInfo == [docFreq |-> 0, postFilepos |-> 0, skipFilepos |-> 0]

NewFiles == [dat |-> <<>>, ix |-> <<>>, posts |-> <<>>, skips |-> <<>>,
             \* the LexiconWriter's
             lastText |-> NoText, lastInfo |-> NoInfo,
             \* of S_write_terms_and_postings
             text |-> NoText, info |-> NoInfo, lastDoc |-> 0,
             skipDoc |-> 0, skipFilepos |-> 0]

\* S_add_last_term_to_ix: the last term, and where the term after it will be.
IndexEntry(f) == [text |-> f.lastText, info |-> f.lastInfo, lexFilepos |-> Len(f.dat)]

\* LexStepper_write_record
LexRecord(f) == [text |-> f.text, after |-> f.lastText, docFreq |-> f.info.docFreq,
                 postDelta |-> f.info.postFilepos - f.lastInfo.postFilepos,
                 skipFilepos |-> IF f.info.docFreq >= SkipInterval THEN f.info.skipFilepos ELSE 0]

\* LexWriter_add_term, and the fresh start for the next term.
EndTerm(f, temp) ==
    [f EXCEPT !.ix = IF ~temp /\ Len(f.dat) % IndexInterval = 0
                     THEN Append(@, IndexEntry(f)) ELSE @,
              !.dat = Append(@, LexRecord(f)),
              !.lastText = f.text, !.lastInfo = f.info,
              !.info = [NoInfo EXCEPT !.postFilepos = Len(f.posts)],
              !.lastDoc = 0, !.skipDoc = 0, !.skipFilepos = Len(f.posts)]

\* Mutated form of AddSkip: the differences go on from the last term's.
AddSkipCarried(f, doc) ==
    IF f.info.docFreq % SkipInterval # 0 THEN f
    ELSE [f EXCEPT !.skips = Append(@, [doc |-> doc - f.lastDoc,
                                        filepos |-> Len(f.posts) - f.skipFilepos]),
                   !.info.skipFilepos = IF f.info.docFreq = SkipInterval THEN Len(f.skips) ELSE @,
                   !.skipDoc = doc, !.skipFilepos = Len(f.posts)]

\* SkipStepper_write_record after every SkipInterval postings of a term.  That
\* same_text_as_last is false for its first makes no difference then, as
\* SkipInterval is more than 1.
AddSkip(f, doc) ==
    IF f.info.docFreq % SkipInterval # 0 THEN f
    ELSE [f EXCEPT !.skips = Append(@, [doc |-> doc - f.skipDoc,
                                        filepos |-> Len(f.posts) - f.skipFilepos]),
                   !.info.skipFilepos = IF f.info.docFreq = SkipInterval THEN Len(f.skips) ELSE @,
                   !.skipDoc = doc, !.skipFilepos = Len(f.posts)]

\* RawPost_write_record
PostRecord(p, lastDoc) == [doc |-> p.doc - lastDoc, freq |-> p.freq, aux |-> p.aux]

\* A posting and, if it is time, the skip data behind it.
AddPosting(f, p) ==
    LET written == [f EXCEPT !.posts = Append(@, PostRecord(p, f.lastDoc)), !.info.docFreq = @ + 1]
    IN  [AddSkip(written, p.doc) EXCEPT !.lastDoc = p.doc]

\* S_write_terms_and_postings: the files f, begun for this field or, in temp
\* mode, gone on with, and at least one posting.
WriteTermsAndPostings(f, postings, temp) ==
    LET Turn(g, p) ==
            AddPosting(IF p.term = g.text THEN g ELSE [EndTerm(g, temp) EXCEPT !.text = p.term],
                       p)
        fresh == [f EXCEPT !.lastText = NoText, !.lastInfo = NoInfo, !.text = postings[1].term,
                           !.info = NoInfo, !.lastDoc = 0, !.skipDoc = 0, !.skipFilepos = 0]
    IN  EndTerm(FoldLeft(Turn, fresh, postings), temp)

----------------------------------------------------------------------------
\* A LexStepper: the term it is at, if any, and its TermInfo.
Stepper(text, info) == [text |-> text, info |-> info]

\* LexStepper_read_record.  A record that does not follow the term the
\* stepper is at gives some other text.
Garbage == -1
ReadRecord(stepper, record) ==
    Stepper(IF record.after = stepper.text THEN record.text ELSE Garbage,
            [docFreq |-> record.docFreq,
             postFilepos |-> stepper.info.postFilepos + record.postDelta,
             skipFilepos |-> record.skipFilepos])

\* All terms of a lexicon with their TermInfos, from the first on.
Terms(f) ==
    LET at[n \in 0..Len(f.dat)] == IF n = 0 THEN Stepper(NoText, NoInfo)
                                   ELSE ReadRecord(at[n - 1], f.dat[n])
    IN  [n \in DOMAIN f.dat |-> at[n]]

\* The documents of a term: ScorePost_read_record, doc_freq times.
DocsOf(f, info) ==
    LET doc[n \in 0..info.docFreq] == IF n = 0 THEN 0
                                      ELSE doc[n - 1] + f.posts[info.postFilepos + n].doc
    IN  [n \in 1..info.docFreq |-> doc[n]]

\* SkipStepper_read_record: the skips of a term, as documents and positions
\* in the postings of the field.
SkipsOf(f, info) ==
    LET skip[n \in 0..(info.docFreq \div SkipInterval)] ==
            IF n = 0 THEN [doc |-> 0, filepos |-> info.postFilepos]
            ELSE LET record == f.skips[info.skipFilepos + n]
                 IN  [doc |-> skip[n - 1].doc + record.doc,
                      filepos |-> skip[n - 1].filepos + record.filepos]
    IN  [n \in 1..(info.docFreq \div SkipInterval) |-> skip[n]]
=============================================================================
