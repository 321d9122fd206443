------------------------------ MODULE Postings ------------------------------
(* Index/SegPostingList.c and Index/PolyPostingList.c: the documents that   *)
(* have a term, segment after segment, read from the postings that          *)
(* Index/PostingsWriter.c has written, and over the skips between them.     *)
(* The children are the segments, each with DocMax documents.               *)
EXTENDS Matching

DocBase(k) == (k - 1) * DocMax

\* The nth posting of the term in segment k: its documents in order.
Posting(k, n) == CHOOSE d \in kids[k] : Cardinality({e \in kids[k] : e <= d}) = n
DocFreq(k) == Cardinality(kids[k])

\* S_write_terms_and_postings writes a record to the skip file after every
\* SkipInterval postings: the document and the position reached.
Skips(k) == [n \in 1..(DocFreq(k) \div SkipInterval) |->
                [doc |-> Posting(k, n * SkipInterval), at |-> n * SkipInterval]]

\* S_seek_tinfo.  at is the position in the postings file, counted in
\* postings; skipDoc and skipAt are the SkipStepper's.
Sought(k) == [count |-> 0, at |-> 0, doc |-> DocBase(k),
              skipCount |-> 0, skipDoc |-> DocBase(k), skipAt |-> 0]

\* SegPList_seek on every segment; current is 0 before the first.
PostingsInit ==
    /\ pos = [k \in Kid |-> 0]
    /\ self = [subs |-> [k \in Kid |-> Sought(k)], current |-> 0, isNext |-> TRUE,
               target |-> 0, newDoc |-> 0, newAt |-> 0, skipped |-> 0]

Here == self.current
Sub == self.subs[Here]
WithSub(s) == [self EXCEPT !.subs[Here] = s]

\* PolyPList_next, PolyPList_advance: try the current segment.
PostingsCall(t, isNext) ==
    /\ kind = "postings"
    /\ self' = [self EXCEPT !.target = t, !.isNext = isNext]
    /\ Goto(IF Here = 0 THEN "segment" ELSE "try")
    /\ UNCHANGED child

NextSegment ==
    /\ pc = "segment"
    /\ \/ /\ Here < Len(kids)
          /\ self' = [self EXCEPT !.current = @ + 1]
          /\ Goto("try")
       \/ /\ Here = Len(kids)
          /\ Return(0)
          /\ UNCHANGED self
    /\ UNCHANGED <<client, child, parts>>

\* SegPList_next, and SegPList_advance with or without skips to look at.
Try ==
    /\ pc = "try"
    /\ self' = [self EXCEPT !.newDoc = Sub.skipDoc, !.newAt = Sub.at,
                            !.skipped = 0 - (Sub.count % SkipInterval)]
    /\ Goto(IF self.isNext \/ DocFreq(Here) < SkipInterval THEN "scan" ELSE "skip")
    /\ UNCHANGED <<client, child, parts>>

\* Does the skip the stepper is at count?
Ahead == Sub.skipDoc # DocBase(Here) /\ Sub.skipDoc >= Sub.doc

\* One turn of the loop that looks for something to skip.
Skip ==
    /\ pc = "skip" /\ Target > Sub.skipDoc
    /\ LET noted == [self EXCEPT !.newDoc = Sub.skipDoc, !.newAt = Sub.skipAt,
                                 !.skipped = IF Ahead THEN @ + SkipInterval ELSE @]
           records == Skips(Here)
           n == Sub.skipCount + 1
       IN  IF n > Len(records)
           THEN self' = noted /\ Goto("jump")
           ELSE /\ self' = [noted EXCEPT
                              !.subs[Here] = [Sub EXCEPT
                                  !.skipCount = n,
                                  !.skipDoc = DocBase(Here) + records[n].doc,
                                  !.skipAt = records[n].at]]
                /\ Goto("skip")
    /\ UNCHANGED <<client, child, parts>>

SkipDone ==
    /\ pc = "skip" /\ Target <= Sub.skipDoc
    /\ Goto("jump")
    /\ UNCHANGED <<client, child, self, parts>>

\* If something to skip was found, it is skipped.
Jump ==
    /\ pc = "jump"
    /\ self' = IF self.newAt > Sub.at
               THEN WithSub([Sub EXCEPT !.at = self.newAt, !.doc = self.newDoc,
                                        !.count = @ + self.skipped])
               ELSE self
    /\ Goto("scan")
    /\ UNCHANGED <<client, child, parts>>

\* Post_Read_Record: postings are written as the difference from the last.
Delta(k, n) == Posting(k, n) - (IF n = 1 THEN 0 ELSE Posting(k, n - 1))

\* SegPList_next, and the loop of SegPList_advance around it.
Scan ==
    /\ pc = "scan"
    /\ \/ /\ Sub.count >= DocFreq(Here)
          /\ self' = WithSub([Sub EXCEPT !.doc = DocBase(Here)])
          /\ Goto("segment")
       \/ /\ Sub.count < DocFreq(Here)
          /\ self' = WithSub([Sub EXCEPT !.count = @ + 1, !.at = @ + 1,
                                         !.doc = @ + Delta(Here, Sub.at + 1)])
          /\ IF self.isNext \/ self'.subs[Here].doc >= Target
             THEN Return(self'.subs[Here].doc) ELSE Goto("scan")
    /\ UNCHANGED <<client, child, parts>>

PostingsStep == NextSegment \/ Try \/ Skip \/ SkipDone \/ Jump \/ Scan

PostingsMeaning == UNION {{DocBase(k) + d : d \in kids[k]} : k \in Kid}
=============================================================================
