------------------------------ MODULE Streams ------------------------------
(***************************************************************************)
(* A file written through an OutStream and read through an InStream.  The  *)
(* OutStream gathers small writes in a buffer; the file descriptor keeps   *)
(* the bytes in buffers of its own (RAMFileDes) or in one piece            *)
(* (FSFileDes, MMapFileDes).  The InStream reads through a window that the *)
(* descriptor moves over the file, may show only a part of the file (a     *)
(* file within cf.dat), and seeks without moving the window.  Pointers     *)
(* into a window are modelled as positions in it, from 0.                  *)
(***************************************************************************)
EXTENDS Integers, Sequences, FiniteSets
LOCAL INSTANCE SequencesExt

CONSTANTS
  BufSize,   \* IO_STREAM_BUF_SIZE
  Base,      \* what a byte of a compressed integer counts to (128)
  Chunks,    \* the runs of bytes that are written
  Numbers,   \* the integers that are written
  Width,     \* bytes of a fixed width integer
  MaxFile,   \* bound: bytes of the file
  Kinds      \* the file descriptors: "ram", "fs" and "mmap"

VARIABLES self, seen

None == -1
Wild == -1   \* what is read from memory that holds nothing of the file
Least(a, b) == IF a < b THEN a ELSE b

-----------------------------------------------------------------------------
(* Integers: a byte below Base ends a compressed integer *)

Continued[n \in Nat] == IF n = 0 THEN <<>> ELSE Append(Continued[n \div Base], Base + (n % Base))
EncodeC32(n) == Append(Continued[n \div Base], n % Base)
DecodeC32(bytes) == FoldLeft(LAMBDA v, b : v * Base + (b % Base), 0, bytes)

\* Math_encode_padded_c32: leading zeroes that go on.
PaddedC32(n, width) == [i \in 1..width - Len(EncodeC32(n)) |-> Base] \o EncodeC32(n)

\* Math_encode_bigend_u32 and its reverse, for bytes of 2 * Base values.
BigEnd(n) == [i \in 1..Width |-> (n \div (2 * Base) ^ (Width - i)) % (2 * Base)]
DecodeBigEnd(bytes) == FoldLeft(LAMBDA v, b : v * 2 * Base + b, 0, bytes)

-----------------------------------------------------------------------------
(* File descriptors *)

NewFileDes(kind) == [kind |-> kind, buffers |-> <<>>, len |-> 0]

\* RAMFileDes_write: the last buffer is filled up before one is added.
RamWrite(d, b) ==
    [d EXCEPT !.buffers = IF d.len % BufSize = 0 THEN Append(@, <<b>>)
                          ELSE Append(Front(@), Append(Last(@), b)),
              !.len = @ + 1]
\* FSFileDes_write: a file on disk grows at its end.
FileWrite(d, b) ==
    [d EXCEPT !.buffers = <<IF @ = <<>> THEN <<b>> ELSE Append(@[1], b)>>, !.len = @ + 1]
DesWrite(des, bytes) ==
    FoldLeft(LAMBDA d, b : IF d.kind = "ram" THEN RamWrite(d, b) ELSE FileWrite(d, b), des, bytes)

\* RAMFileDes_read: position pos is in one of the buffers.
RamByte(des, pos) == des.buffers[(pos \div BufSize) + 1][(pos % BufSize) + 1]
\* FSFileDes_read, MMapFileDes_read
FileByte(des, pos) == des.buffers[1][pos + 1]
DesRead(des, offset, len) ==
    [i \in 1..len |-> IF des.kind = "ram" THEN RamByte(des, offset + i - 1)
                      ELSE FileByte(des, offset + i - 1)]

\* FileDes_Read as SI_read_bytes calls it, whose answer it ignores: past the
\* end of the file FSFileDes_read gives what there is, the others nothing.
DirectRead(des, offset, len) ==
    LET has == IF offset + len <= des.len THEN len
               ELSE IF des.kind = "fs" /\ offset < des.len THEN des.len - offset
               ELSE 0
    IN  DesRead(des, offset, has) \o [i \in 1..len - has |-> Wild]

\* RAMFileDes_contents
Contents(des) == FlattenSeq(des.buffers)

NewWindow == [offset |-> 0, len |-> 0, cap |-> 0, bytes |-> <<>>]
\* RAMFileDes_window, FSFileDes_window: a copy of the bytes asked for in a
\* buffer that only grows.
CopyWindow(des, window, offset, len) ==
    [offset |-> offset, len |-> len,
     cap |-> IF window.cap >= len THEN window.cap ELSE IF len < BufSize THEN BufSize ELSE len,
     bytes |-> DesRead(des, offset, len)]
\* MMapFileDes_window: the mapped file itself, whatever the length.
MMapWindow(des, offset, len) ==
    [offset |-> offset, len |-> len, cap |-> des.len, bytes |-> DesRead(des, offset, des.len - offset)]
Window(des, window, offset, len) ==
    IF des.kind = "mmap" THEN MMapWindow(des, offset, len) ELSE CopyWindow(des, window, offset, len)

-----------------------------------------------------------------------------
(* OutStream *)

NewOut(kind) == [des |-> NewFileDes(kind), buf |-> <<>>, bufStart |-> 0]

Flush(out) == [des |-> DesWrite(out.des, out.buf), buf |-> <<>>,
               bufStart |-> out.bufStart + Len(out.buf)]

TellOut(out) == out.bufStart + Len(out.buf)

WriteBytes(out, bytes) ==
    IF Len(bytes) >= BufSize
    THEN LET o == Flush(out)
         IN [o EXCEPT !.des = DesWrite(@, bytes), !.bufStart = @ + Len(bytes)]
    ELSE LET o == IF Len(out.buf) + Len(bytes) >= BufSize THEN Flush(out) ELSE out
         IN [o EXCEPT !.buf = @ \o bytes]

WriteU8(out, b) ==
    LET o == IF Len(out.buf) >= BufSize THEN Flush(out) ELSE out
    IN [o EXCEPT !.buf = Append(@, b)]

WriteC32(out, n) == WriteBytes(out, EncodeC32(n))
WriteU32(out, n) == WriteBytes(out, BigEnd(n))

\* OutStream_write_string
WriteString(out, bytes) == WriteBytes(WriteC32(out, Len(bytes)), bytes)

-----------------------------------------------------------------------------
(* InStream: at and limit are positions in the window, limit None is NULL *)

NewIn(des) == [des |-> des, offset |-> 0, len |-> des.len, at |-> 0, limit |-> None,
               window |-> NewWindow, thrown |-> FALSE]

Tell(in) == in.at + in.window.offset - in.offset
Throw(in) == [in EXCEPT !.thrown = TRUE]
Available(in) == IF in.limit = None THEN None ELSE in.limit - in.at

Fill(in, amount) ==
    LET pos == Tell(in)
        real == pos + in.offset
        remaining == in.len - pos
        w == Window(in.des, in.window, real, amount)
    IN IF amount > remaining \/ real + amount > in.des.len THEN Throw(in)
       ELSE [in EXCEPT !.window = w, !.at = real - w.offset,
                       !.limit = Least(real - w.offset + remaining, w.len)]

Refill(in) ==
    LET remaining == in.len - Tell(in)
    IN IF remaining = 0 THEN Throw(in) ELSE Fill(in, Least(remaining, BufSize))

\* Mutated form of Seek: the limit stays although the buffer pointer has left the window.
SeekUnlimited(in, target) == [in EXCEPT !.at = in.offset + target - in.window.offset]

Seek(in, target) ==
    LET top == in.window.offset - in.offset
    IN [in EXCEPT !.at = in.offset + target - in.window.offset,
                  !.limit = IF target >= top /\ target <= top + in.window.len THEN @ ELSE None]

Clone(in) == Seek(NewIn(in.des), Tell(in))

Reopen(in, offset, len) == Seek([Clone(in) EXCEPT !.offset = offset, !.len = len], 0)

\* The next n bytes at the buffer pointer.
Copied(in, n) ==
    [i \in 1..n |-> IF in.at + i \in DOMAIN in.window.bytes THEN in.window.bytes[in.at + i]
                    ELSE Wild]
Moved(in, n) == [in EXCEPT !.at = @ + n]

\* SI_read_bytes: what the window has, then the rest from the next window, or
\* from the descriptor when that is too much for one.  Neither looks whether
\* there is as much left; of the refill only that there is anything.
ReadBytes(in, len) ==
    LET available == Available(in)
        head == IF available > 0 THEN Copied(in, available) ELSE <<>>
        in1  == Moved(in, Len(head))
        rest == len - Len(head)
        in2  == Refill(in1)
        pos  == Tell(in1)
    IN IF available >= len THEN [in |-> Moved(in, len), bytes |-> Copied(in, len)]
       ELSE IF rest < BufSize
            THEN [in |-> IF in2.thrown THEN in2 ELSE Moved(in2, rest),
                  bytes |-> head \o (IF in2.thrown THEN <<>> ELSE Copied(in2, rest))]
            ELSE [in |-> Seek(in1, pos + rest),
                  bytes |-> head \o DirectRead(in.des, pos + in.offset, rest)]

\* SI_read_u8
ReadU8(in) ==
    LET in1 == IF in.limit = None \/ in.at >= in.limit THEN Refill(in) ELSE in
    IN [in |-> IF in1.thrown THEN in1 ELSE Moved(in1, 1),
        bytes |-> IF in1.thrown THEN <<>> ELSE Copied(in1, 1)]

\* InStream_read_c32 and InStream_read_raw_c64: bytes up to one that ends it.
ReadC32(in) ==
    FoldLeft(LAMBDA r, i :
                IF r.in.thrown \/ (r.bytes # <<>> /\ Last(r.bytes) < Base) THEN r
                ELSE LET u == ReadU8(r.in) IN [in |-> u.in, bytes |-> r.bytes \o u.bytes],
             [in |-> in, bytes |-> <<>>], [i \in 1..in.len + 1 |-> i])

\* InStream_Buf: at least as much in the buffer as was asked for or is left.
Buf(in, request) ==
    LET amount == Least(in.len - Tell(in),
                        LET a == IF request < in.window.cap THEN in.window.cap ELSE request
                        IN IF a < BufSize THEN BufSize ELSE a)
    IN IF request > Available(in) /\ amount > Available(in) THEN Fill(in, amount) ELSE in

-----------------------------------------------------------------------------
Init ==
    \E kind \in Kinds :
       /\ self = [out |-> NewOut(kind), in |-> <<>>, text |-> <<>>]
       /\ seen = TRUE

Written(out, bytes) ==
    /\ Len(self.text) + Len(bytes) <= MaxFile
    /\ self' = [self EXCEPT !.out = out, !.text = @ \o bytes]
    /\ seen' = (TellOut(out) = Len(self.text) + Len(bytes))

Write ==
    /\ self.in = <<>>
    /\ \/ \E c \in Chunks : Written(WriteBytes(self.out, c), c)
       \/ \E c \in Chunks : Written(WriteString(self.out, c), EncodeC32(Len(c)) \o c)
       \/ \E c \in Chunks : Written(WriteU8(self.out, Head(c)), <<Head(c)>>)
       \/ \E n \in Numbers : Written(WriteC32(self.out, n), EncodeC32(n))
       \/ \E n \in Numbers : Written(WriteU32(self.out, n), BigEnd(n))

\* OutStream_close; the file is opened for reading.
Close ==
    /\ self.in = <<>> /\ self.text # <<>>
    /\ self' = [self EXCEPT !.out = Flush(@), !.in = <<NewIn(Flush(self.out).des)>>]
    /\ seen' = (Contents(Flush(self.out).des) = self.text)

\* The bytes of the part of the file that the stream shows, from where it is.
Ahead(in) == SubSeq(self.text, in.offset + Tell(in) + 1, in.offset + in.len)

\* A read of len bytes that are left gives those.
Gives(r, len) ==
    LET in == self.in[1]
    IN  ~r.in.thrown /\ r.bytes = SubSeq(Ahead(in), 1, len) /\ Tell(r.in) = Tell(in) + len

\* Bytes read one by one past the end: the last there is, and the exception.
Ends(r) == r.in.thrown /\ r.bytes = Ahead(self.in[1])

\* A read of len bytes of which not all are left throws only where the window
\* has all that is left and the rest would fit into one; anything else is taken
\* for a success, and leaves the stream behind the end.  What is left is then
\* among the bytes, unless they were asked of the descriptor.
Overruns(r, len) ==
    LET in   == self.in[1]
        held == IF Available(in) > 0 THEN Available(in) ELSE 0
    IN  IF held = Len(Ahead(in)) /\ len - held < BufSize THEN Ends(r)
        ELSE /\ ~r.in.thrown /\ Len(r.bytes) = len /\ Tell(r.in) = Tell(in) + len
             /\ len - held < BufSize => IsPrefix(Ahead(in), r.bytes)

\* The client catches what is thrown.
Did(r, right) ==
    /\ self' = [self EXCEPT !.in = <<[r.in EXCEPT !.thrown = FALSE]>>]
    /\ seen' = right

\* A stream that was left behind its end is not used before a seek.
Usable == self.in # <<>> /\ Tell(self.in[1]) <= self.in[1].len

Read ==
    /\ Usable
    /\ LET in == self.in[1]
           left == Len(Ahead(in)) IN
       \/ \E len \in 1..BufSize + 1 :
             Did(ReadBytes(in, len),
                 IF len <= left THEN Gives(ReadBytes(in, len), len)
                 ELSE Overruns(ReadBytes(in, len), len))
       \/ Did(ReadU8(in), IF left > 0 THEN Gives(ReadU8(in), 1) ELSE Ends(ReadU8(in)))
       \/ LET ends == {i \in DOMAIN Ahead(in) : Ahead(in)[i] < Base}
              len  == CHOOSE i \in ends : \A j \in ends : i <= j
          IN Did(ReadC32(in), IF ends # {} THEN Gives(ReadC32(in), len) ELSE Ends(ReadC32(in)))

Move ==
    /\ self.in # <<>>
    /\ LET in == self.in[1] IN
       \/ \E target \in 0..in.len :
             Did([in |-> Seek(in, target)], Tell(Seek(in, target)) = target)
       \/ /\ Usable /\ in.offset = 0 /\ in.len = in.des.len
          /\ Did([in |-> Clone(in)], Tell(Clone(in)) = Tell(in))
       \/ /\ Usable /\ in.offset = 0 /\ in.len = in.des.len
          /\ \E offset \in 1..in.len - 1 : \E len \in 1..in.len - offset :
                Did([in |-> Reopen(in, offset, len)], Tell(Reopen(in, offset, len)) = 0)

\* InStream_Buf and InStream_Advance_Buf, as ScorePost_Read_Record uses them.
BufAndAdvance ==
    /\ Usable
    /\ \E request \in 1..Width :
          LET in == self.in[1]
              b  == Buf(in, request)
              n  == Least(request, Len(Ahead(in)))
          IN /\ n > 0
             /\ Did([in |-> Moved(b, n)],
                    /\ ~b.thrown /\ Available(b) >= n
                    /\ Copied(b, n) = SubSeq(Ahead(in), 1, n))

Next == Write \/ Close \/ Read \/ Move \/ BufAndAdvance

-----------------------------------------------------------------------------
\* Whatever is written in whatever pieces comes out of the descriptor in one;
\* and whatever is read, after any seeks, through any window, from a stream
\* that shows the whole file or a part of it, is what was written there.
\* Integers come back with their value.  At the end of the part, reads byte by
\* byte throw; longer ones mostly do not, as Overruns says, although
\* t/050-ramfile.t has it that "reading past EOF throws an error".
ReadsRight ==
    /\ seen
    /\ self.in # <<>> /\ self.in[1].limit # None =>
          self.in[1].limit <= Len(self.in[1].window.bytes)
    /\ \A n \in Numbers :
       /\ DecodeC32(EncodeC32(n)) = n /\ DecodeC32(PaddedC32(n, Width + 1)) = n
       /\ DecodeBigEnd(BigEnd(n)) = n
=============================================================================
