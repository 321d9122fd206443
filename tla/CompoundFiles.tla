--------------------------- MODULE CompoundFiles ---------------------------
(***************************************************************************)
(* The files of one segment as FSFolder shows them: written one by one,    *)
(* packed into cf.dat with their offsets in cfmeta.json by                 *)
(* CFWriter_Consolidate, found again through a CompoundFileReader that     *)
(* each folder object looks for once and remembers, and deleted one by one *)
(* by a purge.  The process that writes and purges may die between any two *)
(* calls; the next one starts over in the directory it finds.  Another     *)
(* process lists the folder at any time (as everyone does who looks for    *)
(* the latest snapshot) and opens files once the segment is committed.     *)
(***************************************************************************)
EXTENDS Integers, SequencesExt

CONSTANTS
  Names,      \* the files to be packed
  SegMeta,    \* segmeta.json, which is not packed
  MaxLength,  \* bound: bytes of a file
  Align,      \* the multiple that files begin at in cf.dat (8)
  MaxDeaths   \* bound: deaths of the writing process

\* Assumed of the constants by every module that takes an instance of this one.
Parameters ==
    /\ IsFiniteSet(Names) /\ SegMeta \notin Names
    /\ MaxLength \in Nat /\ Align \in Nat \ {0} /\ MaxDeaths \in Nat

VARIABLES self, seen

DataFiles == SetToSeq(Names)   \* in the order of their names, whatever that is
AllNames  == Names \cup {SegMeta}
Folders   == {"writer", "reader"}
Filler    == <<"", 0>>
NotLooked == [state |-> "none",  entries |-> <<>>, bytes |-> <<>>]
Undef     == [state |-> "undef", entries |-> <<>>, bytes |-> <<>>]

With(fn, n, x) == [k \in DOMAIN fn \cup {n} |-> IF k = n THEN x ELSE fn[k]]
Without(fn, n) == [k \in DOMAIN fn \ {n} |-> fn[k]]

\* A file of a given length, each byte different from every other.
Content(n, len) == [i \in 1..len |-> <<n, i>>]

-----------------------------------------------------------------------------
(* CompoundFileWriter *)

\* One file's turn in do_consolidate: the bytes, the entry, the filler.
Absorb(out, n, bytes) ==
    LET filler == [i \in 1..(Align - (Len(bytes) % Align)) % Align |-> Filler]
    IN [entries |-> With(out.entries, n, [offset |-> out.len, length |-> Len(bytes)]),
        bytes |-> out.bytes \o bytes \o filler,
        len |-> out.len + Len(bytes) + Len(filler)]

\* All of them, in the order of their names.
Packed(files) ==
    LET packed[i \in 0..Len(DataFiles)] ==
            IF i = 0 THEN [entries |-> <<>>, bytes |-> <<>>, len |-> 0]
            ELSE IF DataFiles[i] \in DOMAIN files
                 THEN Absorb(packed[i - 1], DataFiles[i], files[DataFiles[i]])
            ELSE packed[i - 1]
    IN  packed[Len(DataFiles)]

-----------------------------------------------------------------------------
(* FSFolder *)

\* S_get_cf_reader, but for the question whether it is segmeta.json: what the
\* folder then has cached.  CFReader_init maps cf.dat as long as it is now.
Looked(f) ==
    IF self.cache[f].state # "none" THEN self.cache[f]
    ELSE IF self.dat # <<>> /\ self.meta # <<>>
         THEN [state |-> "reader", entries |-> self.meta[1], bytes |-> self.dat[1]]
         ELSE Undef

Virtual(r, n) == r.state = "reader" /\ n \in DOMAIN r.entries

\* CFReader_Open_In: a view of part of cf.dat, which a read past the end of
\* what was mapped throws out of.
OpenVirtual(r, n) ==
    LET e == r.entries[n]
    IN IF e.offset + e.length > Len(r.bytes)
       THEN [found |-> TRUE, throws |-> TRUE, bytes |-> <<>>]
       ELSE [found |-> TRUE, throws |-> FALSE,
             bytes |-> SubSeq(r.bytes, e.offset + 1, e.offset + e.length)]

\* FSFolder_Open_In: the reader in the cache, a real file, the reader looked for.
OpenIn(f, n) ==
    IF Virtual(self.cache[f], n) THEN OpenVirtual(self.cache[f], n)
    ELSE IF n \in DOMAIN self.files
         THEN [found |-> TRUE, throws |-> FALSE, bytes |-> self.files[n]]
    ELSE IF n # SegMeta /\ Virtual(Looked(f), n) THEN OpenVirtual(Looked(f), n)
    ELSE [found |-> FALSE, throws |-> FALSE, bytes |-> <<>>]

\* FSFolder_Exists
Exists(f, n) ==
    IF n # SegMeta /\ Looked(f).state = "reader" THEN Virtual(Looked(f), n)
    ELSE n \in DOMAIN self.files

\* FSFolder_List: the real files but for cf.dat, and what the reader found for
\* cfmeta.json lists.  There may be no such reader: the call then goes astray.
ListFails(f) == self.meta # <<>> /\ Looked(f).state # "reader"
List(f) ==
    SetToSeq(DOMAIN self.files)
       \o (IF self.meta = <<>> THEN <<>>
           ELSE SetToSeq(DOMAIN Looked(f).entries))

\* S_read_fsfolder: a RAMFolder that holds a copy of every listed file.
RamCopy(f) == [n \in ToSet(List(f)) |-> OpenIn(f, n).bytes]

-----------------------------------------------------------------------------
Init ==
    /\ self = [pc |-> "prepare",
               written |-> <<>>,      \* what the session wrote: name -> bytes
               files |-> <<>>,        \* the real files of the directory: name -> bytes
               dat |-> <<>>,          \* cf.dat, as a sequence of at most one
               meta |-> <<>>,         \* cfmeta.json, likewise
               temp |-> FALSE,        \* cfmeta.json.temp is there
               dir |-> FALSE,         \* the directory is there
               out |-> <<>>,          \* the bytes for cf.dat not yet in the file
               cache |-> [f \in Folders |-> NotLooked],
               gone |-> {},           \* the files this process has deleted
               deaths |-> 0]
    /\ seen = {}

\* SegWriter_Prep_Seg_Dir on the directory as it is.  Folder_Exists asks a
\* reader of leftover compound files about the directory and hears no, so
\* that Folder_MkDir throws.
Prepare ==
    /\ self.pc = "prepare"
    /\ LET reader == Looked("writer")
       IN IF reader.state = "reader" /\ self.dir
          THEN self' = [self EXCEPT !.pc = "stuck", !.cache["writer"] = reader]
          ELSE self' = [self EXCEPT !.pc = "write", !.dir = TRUE, !.files = <<>>,
                                    !.temp = FALSE, !.cache["writer"] = reader]
    /\ UNCHANGED seen

\* A component writes a file and closes it; the last is segmeta.json.
WriteFile ==
    /\ self.pc = "write"
    /\ \E n \in AllNames \ DOMAIN self.files, len \in 1..MaxLength :
          /\ n = SegMeta => DOMAIN self.files # {} /\ len = 1
          /\ self' = [self EXCEPT !.files = With(@, n, Content(n, len)),
                                  !.written = With(self.files, n, Content(n, len)),
                                  !.pc = IF n = SegMeta THEN "finish" ELSE "write"]
    /\ UNCHANGED seen

\* CFWriter_Consolidate: S_clean_up_old_temp_files and do_consolidate up to
\* the last file's filler.  How much of cf.dat has left the buffer by then
\* depends on the sizes.
Consolidate ==
    /\ self.pc = "finish" /\ self.meta = <<>>
    /\ LET out == Packed(self.files)
       IN \E flushed \in 0..out.len :
            self' = [self EXCEPT !.pc = "spew", !.temp = FALSE,
                                 !.dat = <<SubSeq(out.bytes, 1, flushed)>>,
                                 !.out = SubSeq(out.bytes, flushed + 1, out.len),
                                 !.cache["writer"] = IF self.dat # <<>> THEN NotLooked ELSE @]
    /\ UNCHANGED seen

\* S_write_cfmeta: the temporary file, then the rename.
SpewMeta ==
    /\ self.pc = "spew"
    /\ self' = [self EXCEPT !.pc = "rename", !.temp = TRUE]
    /\ UNCHANGED seen

RenameMeta ==
    /\ self.pc = "rename"
    /\ self' = [self EXCEPT !.pc = "close", !.temp = FALSE,
                            !.meta = <<Packed(self.files).entries>>]
    /\ UNCHANGED seen

CloseDat ==
    /\ self.pc = "close"
    /\ self' = [self EXCEPT !.pc = "unlink", !.dat = <<self.dat[1] \o self.out>>, !.out = <<>>]
    /\ UNCHANGED seen

\* The originals are deleted in the order of a hash.
UnlinkOriginal ==
    /\ self.pc = "unlink"
    /\ \E n \in DOMAIN self.files \ {SegMeta} :
          self' = [self EXCEPT !.files = Without(@, n)]
    /\ UNCHANGED seen

\* Mutated form of Forgotten: the folder goes on with what it had cached.
Kept == self.cache["writer"]

\* FSFolder_Finish_Segment lets go of the reader, or of the mark that there is none.
Forgotten == NotLooked

FinishSegment ==
    /\ self.pc = "unlink" /\ DOMAIN self.files = {SegMeta}
    /\ self' = [self EXCEPT !.pc = "done", !.cache["writer"] = Forgotten]
    /\ UNCHANGED seen

\* FSFolder_Delete by a purge.  Files but the last vanish from the reader of
\* this folder object only; with the last, cf.dat and then cfmeta.json go.  If
\* a file on disk cannot be deleted, everything stays as it was.
Delete ==
    /\ self.pc \in {"done", "purge"}
    /\ \E n \in DOMAIN self.written \ self.gone :
          LET reader == Looked("writer")
              shorter == [reader EXCEPT !.entries = Without(@, n)]
          IN IF n # SegMeta /\ Virtual(reader, n)
             THEN IF Cardinality(DOMAIN reader.entries) > 1
                  THEN self' = [self EXCEPT !.pc = "purge", !.gone = @ \cup {n},
                                            !.cache["writer"] = shorter]
                  ELSE self' = [self EXCEPT !.pc = "last", !.dat = <<>>,
                                            !.gone = @ \cup {n}, !.cache["writer"] = reader]
             ELSE self' = [self EXCEPT !.pc = "purge", !.gone = @ \cup {n},
                                       !.files = Without(@, n),
                                       !.cache["writer"] = IF n = SegMeta THEN @ ELSE reader]
    /\ UNCHANGED seen

DeleteMeta ==
    /\ self.pc = "last"
    /\ self' = [self EXCEPT !.pc = "purge", !.meta = <<>>, !.cache["writer"] = NotLooked]
    /\ UNCHANGED seen

\* cfmeta.json cannot be deleted, and "if the data file gets deleted but this
\* stays behind it's a problem": FSFolder_Delete throws.
MetaStays ==
    /\ self.pc = "last"
    /\ self' = [self EXCEPT !.pc = "broken"]
    /\ UNCHANGED seen

\* The process dies.  Its successor, with a folder object of its own, uses the
\* directory of a session that did not finish again, and goes on with a purge.
Die ==
    /\ self.pc \notin {"prepare", "stuck", "broken"} /\ self.deaths < MaxDeaths
    /\ self' = [self EXCEPT !.pc = CASE self.pc = "last" -> "broken"
                                     [] self.pc \in {"done", "purge"} -> "purge"
                                     [] OTHER -> "prepare",
                            !.out = <<>>,
                            !.gone = IF self.meta = <<>> THEN @ ELSE @ \cap {SegMeta},
                            !.cache["writer"] = NotLooked, !.deaths = @ + 1]
    /\ UNCHANGED seen

\* The other process lists the folder, and dies of it when there is metadata
\* without data.
ListFolder ==
    /\ self' = [self EXCEPT !.cache["reader"] =
                   IF ListFails("reader") THEN NotLooked
                   ELSE IF self.meta = <<>> THEN @ ELSE Looked("reader")]
    /\ seen' = IF ListFails("reader") THEN seen \cup {self.pc} ELSE seen

Next ==
    \/ Prepare \/ WriteFile \/ Consolidate \/ SpewMeta \/ RenameMeta \/ CloseDat
    \/ UnlinkOriginal \/ FinishSegment \/ Delete \/ DeleteMeta \/ MetaStays \/ Die
    \/ ListFolder

vars == <<self, seen>>

Spec == Init /\ [][Next]_vars

-----------------------------------------------------------------------------
\* The folder made its reader while cf.dat was still being written: what it
\* has mapped is short for as long as the folder object lives.
Early(f) ==
    self.cache[f].state = "reader" /\ Len(self.cache[f].bytes) < Packed(self.written).len

\* Once a segment is finished every file of it is there for every folder
\* object, with its own bytes, listed exactly once, and copied into a
\* RAMFolder; a folder object that made its reader too early throws rather
\* than show other bytes.  A purge takes away no file that it was not asked
\* to delete, also after deaths in it.  Listing goes astray only where a
\* purge is, or died, between deleting cf.dat and cfmeta.json.
SegmentFilesRight ==
    /\ \A f \in Folders, n \in DOMAIN self.written :
          LET opened == OpenIn(f, n)
              times  == Cardinality({i \in DOMAIN List(f) : List(f)[i] = n})
              asked  == IF f = "writer" \/ n = SegMeta THEN self.gone ELSE {}
          IN self.pc \in {"done", "purge"} /\ self.meta # <<>> =>
                IF n \in asked THEN ~opened.found /\ ~Exists(f, n) /\ times = 0
                ELSE /\ opened.found /\ Exists(f, n) /\ times = 1
                     /\ opened.throws => Early(f)
                     /\ ~opened.throws =>
                           opened.bytes = self.written[n] /\ RamCopy(f)[n] = opened.bytes
    /\ self.pc \in {"prepare", "done", "purge"} => ~ListFails("writer")
    /\ seen \subseteq {"last", "broken"}
=============================================================================
