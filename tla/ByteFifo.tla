------------------------------ MODULE ByteFifo ------------------------------
(* What libhttp/iobuf.h promises of an iobuf: a bounded first-in first-out  *)
(* queue of bytes.  Bytes come out in the order they went in, none is lost  *)
(* or made up, a call that does not fit changes nothing and says so.        *)
EXTENDS Integers, Sequences

CONSTANTS Byte,      \* the values of a byte
          Capacity   \* what fits in the buffer

VARIABLES contents,  \* the bytes in the buffer, oldest first
          eof,       \* IOBUF_EOF
          out,       \* what the last call returned: a number, and bytes taken out
          ok         \* FALSE once a call was made that the promise leaves out
fifoVars == <<contents, eof, out, ok>>

Result(ret, data) == [ret |-> ret, data |-> data]

FifoInit == contents = <<>> /\ eof = FALSE /\ out = Result(0, <<>>) /\ ok = TRUE

Fits(n) == Len(contents) + n <= Capacity

\* Bytes s come in and n is returned.
In(s, n) == /\ contents' = contents \o s
            /\ out' = Result(n, <<>>)
            /\ UNCHANGED <<eof, ok>>

\* The n oldest bytes go out.
Out(n) == /\ n <= Len(contents)
          /\ contents' = SubSeq(contents, n + 1, Len(contents))
          /\ out' = Result(n, SubSeq(contents, 1, n))
          /\ UNCHANGED <<eof, ok>>

Refuse(ret) == out' = Result(ret, <<>>) /\ UNCHANGED <<contents, eof, ok>>

Put(c) == IF Fits(1) THEN In(<<c>>, 1) ELSE Refuse(0)

Write(s) == IF Fits(Len(s)) THEN In(s, Len(s)) ELSE Refuse(-1)

\* The byte at an offset from the start, or from the end when negative.
Replace(offset, c) ==
    /\ offset \in -Len(contents) .. Len(contents) - 1
    /\ contents' = [contents EXCEPT ![1 + (IF offset < 0 THEN Len(contents) ELSE 0) + offset] = c]
    /\ out' = Result(1, <<>>)
    /\ UNCHANGED <<eof, ok>>

Read(sz) == Out(IF sz < Len(contents) THEN sz ELSE Len(contents))

\* A descriptor gives between one byte and all that fit; or its end; a full
\* buffer takes none.
ReadFd(s) == s # <<>> /\ Fits(Len(s)) /\ In(s, Len(s))
ReadFdEnd == eof' = TRUE /\ out' = Result(0, <<>>) /\ UNCHANGED <<contents, ok>>
ReadFdFull == ~Fits(1) /\ Refuse(-1)

\* A descriptor takes some bytes, or fails.
FlushFd == Refuse(-1) \/ \E n \in 0 .. Len(contents) : Out(n)

Clear == contents' = <<>> /\ out' = Result(0, <<>>) /\ UNCHANGED <<eof, ok>>

\* Nothing is promised of a call outside the contract, or of any call after it.
Break == ok /\ ok' = FALSE

FifoNext(strings, sizes) ==
    \/ /\ ok
       /\ \/ \E c \in Byte : Put(c) \/ \E o \in -Capacity .. Capacity : Replace(o, c)
          \/ \E s \in strings : Write(s) \/ ReadFd(s)
          \/ \E sz \in sizes : Read(sz)
          \/ ReadFdEnd \/ ReadFdFull \/ FlushFd \/ Clear
    \/ Break
====
