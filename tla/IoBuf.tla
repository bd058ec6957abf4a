------------------------------- MODULE IoBuf -------------------------------
(* The ring buffer of libhttp/iobuf.c and the descriptor i/o on it in       *)
(* libhttpd/iobuf-util.c.  The two offsets are C unsigned integers that     *)
(* only grow, and wrap at Modulus; an index into the ring is an offset      *)
(* modulo Size.  The copies are modelled as the code makes them, in one or  *)
(* two pieces.                                                              *)
EXTENDS Integers, Sequences

CONSTANTS
    Byte,      \* the values of a byte
    Size,      \* size of the ring, mask + 1; a power of two
    Modulus,   \* one more than the largest unsigned
    Strings,   \* byte sequences that are written, or arrive on a descriptor
    ReadSizes  \* sizes of the reader's buffer

ASSUME IoBufAssumption ==
    /\ Size \in Nat \ {0} /\ Modulus \in Nat
    /\ Size < Modulus /\ Modulus % Size = 0
    /\ Strings \subseteq Seq(Byte) /\ ReadSizes \subseteq Nat
    /\ \A s \in Strings : Len(s) < Modulus - Size  \* no string fills the address space

VARIABLES
    read, write,  \* the absolute offsets
    data,         \* the bytes of the ring
    eof,          \* the flag IOBUF_EOF
    out,          \* what the last call returned and took out
    broken        \* history: a call went outside what the ring can do
vars == <<read, write, data, eof, out, broken>>

Result(ret, bytes) == [ret |-> ret, data |-> bytes]

Index(o) == o % Size

\* A mutant of Plus: the offsets do not wrap.
PlusUnwrapped(o, n) == o + n

Plus(o, n) == (o + n) % Modulus

\* minute_iobuf_used
Used == (write - read) % Modulus
bi == Index(read)
ei == Index(write)

\* memcpy of s into the ring at index `at', and of n bytes out of it.
CopyIn(ring, at, s) ==
    [i \in DOMAIN ring |-> IF i \in at .. at + Len(s) - 1 THEN s[i - at + 1] ELSE ring[i]]
CopyOut(at, n) == [i \in 1 .. n |-> data[at + i - 1]]

\* s into the ring, at most `split' bytes of it at ei and the rest at 0.
CopySplit(split, s) ==
    IF Len(s) <= split THEN CopyIn(data, ei, s)
    ELSE CopyIn(CopyIn(data, ei, SubSeq(s, 1, split)), 0, SubSeq(s, split + 1, Len(s)))

Break == broken' = TRUE
Fine  == UNCHANGED broken

---------------------------------------------------------------------------
Clear ==
    /\ read' = 0 /\ write' = 0
    /\ out' = Result(0, <<>>)
    /\ Fine /\ UNCHANGED <<data, eof>>

\* The test for a full ring compares the offsets as numbers: after `write' has
\* wrapped and `read' has not, a full ring is overwritten.
Put(c) ==
    IF read < write /\ bi = ei
    THEN out' = Result(0, <<>>) /\ Fine /\ UNCHANGED <<read, write, data, eof>>
    ELSE /\ data' = [data EXCEPT ![ei] = c]
         /\ write' = Plus(write, 1)
         /\ out' = Result(1, <<>>)
         /\ IF Used = Size THEN Break ELSE Fine
         /\ UNCHANGED <<read, eof>>

\* The caller keeps the offset inside the contents (iobuf.h:48-52).
Replace(offset, c) ==
    /\ offset \in -Used .. Used - 1
    /\ data' = [data EXCEPT ![Index((IF offset < 0 THEN write ELSE read) + offset)] = c]
    /\ out' = Result(1, <<>>)
    /\ Fine /\ UNCHANGED <<read, write, eof>>

\* A mutant of Write: a ring that would be exactly full is not refused one
\* byte more.
WriteOneTooMany(s) ==
    LET ne == Plus(write, Len(s))
    IN  IF (ne - read) % Modulus > Size + 1
        THEN out' = Result(-1, <<>>) /\ Fine /\ UNCHANGED <<read, write, data, eof>>
        ELSE /\ data' = CopySplit(Size - ei, s)
             /\ write' = ne
             /\ out' = Result(Len(s), <<>>)
             /\ IF s = <<>> THEN Break ELSE Fine
             /\ UNCHANGED <<read, eof>>

\* Writing no bytes takes the branch of a wrapping copy with a first piece
\* longer than the data, and a second one of negative length.
Write(s) ==
    LET ne  == Plus(write, Len(s))
        nei == Index(ne)
    IN  IF (ne - read) % Modulus > Size
        THEN out' = Result(-1, <<>>) /\ Fine /\ UNCHANGED <<read, write, data, eof>>
        ELSE /\ data' = IF nei > ei THEN CopyIn(data, ei, s)
                                    ELSE CopySplit(Size - ei, s)
             /\ write' = ne
             /\ out' = Result(Len(s), <<>>)
             /\ IF nei <= ei /\ Len(s) < Size - ei THEN Break ELSE Fine
             /\ UNCHANGED <<read, eof>>

\* A mutant of Read: the two pieces change places.
ReadSwapped(sz) ==
    LET e    == IF Used > sz THEN Plus(read, sz) ELSE write
        l    == (e - read) % Modulus
        tail == Size - bi
    IN  /\ read' = e
        /\ IF Index(e) < bi
           THEN out' = Result(l, CopyOut(0, l - tail) \o CopyOut(bi, tail)) /\ Fine
           ELSE IF bi + l <= Size
           THEN out' = Result(l, CopyOut(bi, l)) /\ Fine
           ELSE out' = Result(l, CopyOut(bi, tail)) /\ Break
        /\ UNCHANGED <<write, data, eof>>

\* A full ring whose read index is not 0 is taken for a straight copy, which
\* runs past the end of the ring.
Read(sz) ==
    LET e    == IF Used > sz THEN Plus(read, sz) ELSE write
        l    == (e - read) % Modulus
        tail == Size - bi
    IN  /\ read' = e
        /\ IF Index(e) < bi
           THEN out' = Result(l, CopyOut(bi, tail) \o CopyOut(0, l - tail)) /\ Fine
           ELSE IF bi + l <= Size
           THEN out' = Result(l, CopyOut(bi, l)) /\ Fine
           ELSE out' = Result(l, CopyOut(bi, tail)) /\ Break
        /\ UNCHANGED <<write, data, eof>>

---------------------------------------------------------------------------
(* minute_iobuf_readfd                                                     *)

Full  == read # write /\ bi = ei
Room1 == IF bi > ei THEN bi - ei ELSE Size - ei
Room2 == IF bi > ei THEN 0 ELSE bi

ReadFdFull ==
    /\ Full
    /\ out' = Result(-1, <<>>)
    /\ Fine /\ UNCHANGED <<read, write, data, eof>>

ReadFd(s) ==
    /\ ~Full
    /\ Len(s) \in 1 .. Room1 + Room2
    /\ data' = CopySplit(Room1, s)
    /\ write' = Plus(write, Len(s))
    /\ out' = Result(Len(s), <<>>)
    /\ Fine /\ UNCHANGED <<read, eof>>

ReadFdEnd ==
    /\ ~Full
    /\ eof' = TRUE
    /\ out' = Result(0, <<>>)
    /\ Fine /\ UNCHANGED <<read, write, data>>

\* readv() fails: r is a size_t, so the test 0>r is false and the branch of
\* a successful read adds -1 to the write offset.
ReadFdError ==
    /\ ~Full
    /\ write' = Plus(write, -1)
    /\ out' = Result(-1, <<>>)
    /\ Break /\ UNCHANGED <<read, data, eof>>

---------------------------------------------------------------------------
(* minute_iobuf_gather and minute_iobuf_flushfd                            *)

\* The two pieces that hold the contents; none once `write' alone has wrapped.
Gather == IF write > read
          THEN CopyOut(bi, IF bi < ei THEN ei - bi ELSE Size - bi)
               \o CopyOut(0, IF bi < ei THEN 0 ELSE ei)
          ELSE <<>>

\* writev() takes n bytes, or fails.
FlushFd(n) ==
    /\ n <= Len(Gather)
    /\ read' = IF n > 0 THEN Plus(read, n) ELSE read
    /\ out' = Result(n, SubSeq(Gather, 1, n))
    /\ Fine /\ UNCHANGED <<write, data, eof>>

---------------------------------------------------------------------------
Init ==
    /\ read = 0 /\ write = 0
    /\ data \in [0 .. Size - 1 -> Byte]
    /\ eof = FALSE
    /\ out = Result(0, <<>>)
    /\ broken = FALSE

Next ==
    /\ ~broken
    /\ \/ Clear
       \/ \E c \in Byte : Put(c) \/ \E offset \in -Size .. Size : Replace(offset, c)
       \/ \E s \in Strings : Write(s) \/ ReadFd(s)
       \/ \E sz \in ReadSizes : Read(sz)
       \/ ReadFdFull \/ ReadFdEnd \/ ReadFdError
       \/ \E n \in -1 .. Size : FlushFd(n)

Spec == Init /\ [][Next]_vars

---------------------------------------------------------------------------
(* Properties                                                              *)

\* Both offsets are unsigned integers and the ring keeps its size.
TypeOK ==
    /\ read \in 0 .. Modulus - 1 /\ write \in 0 .. Modulus - 1
    /\ data \in [0 .. Size - 1 -> Byte]
    /\ eof \in BOOLEAN /\ broken \in BOOLEAN
    /\ out \in [ret : Int, data : Seq(Byte)]

\* The offsets are never further apart than the size of the buffer
\* (iobuf.h:6-9), as long as the ring is not broken.
WithinSize == ~broken => Used <= Size

\* What the ring holds, oldest byte first.
Contents == [i \in 1 .. Used |-> data[Index(read + i - 1)]]

Fifo == INSTANCE ByteFifo WITH Capacity <- Size, contents <- Contents, ok <- ~broken

\* The ring is a first-in first-out queue of Size bytes, whatever the offsets
\* and wherever they wrap, up to the first call that breaks it.
IsFifo == Fifo!FifoInit /\ [][Fifo!FifoNext(Strings, ReadSizes)]_<<Contents, eof, out, broken>>
====
