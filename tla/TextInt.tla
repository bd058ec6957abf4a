------------------------------ MODULE TextInt ------------------------------
(* The text and integer store (libhttp/textint.c): one block of memory in   *)
(* which text grows up and integers grow down.  A store is a record of what *)
(* has been put in it; txt->text and txt->ints are Low and High.            *)
EXTENDS Integers, Sequences, SequencesExt

CONSTANTS
    TextSize,   \* txt->size
    IntSize     \* sizeof(int)

Store == [text : Seq(Int), ints : Seq(Int)]

Low(t)   == Len(t.text)
High(t)  == TextSize - IntSize * Len(t.ints)

Clear == [text |-> <<>>, ints |-> <<>>]

\* A mutant of HasRoomC: one character too many.
HasRoomCOver(t) == Low(t) <= High(t)

HasRoomC(t) == Low(t) < High(t)
PutC(t, c)  == [t EXCEPT !.text = Append(@, c)]

\* (The code subtracts unsigned numbers; High is at least IntSize as long as
\* there is any text, which minute_http_init sees to.)
HasRoomI(t) == Low(t) < High(t) - IntSize
PutI(t, i)  == [t EXCEPT !.ints = Append(@, i)]

\* Offsets from the end are negative.
GetI(t, o)  == t.ints[(IF o < 0 THEN Len(t.ints) ELSE 0) + 1 + o]
ReplaceC(t, o, c) == [t EXCEPT !.text[(IF o < 0 THEN Low(t) ELSE 0) + 1 + o] = c]

\* The C string at offset o >= 0, up to its null byte or, where there is none, on
\* into memory that is no text: the last byte is then not the null.
GetS(t, o) ==
    LET rest == SubSeq(t.text, o + 1, Low(t))
        end  == SelectInSeq(rest, LAMBDA c : c = 0)
    IN  IF end = 0 THEN rest ELSE SubSeq(rest, 1, end)

\* Text and integers do not meet.
Apart(t) == Low(t) <= High(t)
=============================================================================
