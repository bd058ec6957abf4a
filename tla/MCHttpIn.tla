----------------------------- MODULE MCHttpIn -----------------------------
(* Requests of a client: short payloads whose bytes look like framing.     *)
EXTENDS HttpIn

Newline == <<CR, LF>>
Following == <<CR, LF, Other>>   \* the next request, pipelined, and the line end before it

Positions(from, n) == [i \in 1 .. n |-> from + i]

\* The stream of chunks, each a record of its line and its data.
RECURSIVE Chunks(_)
Chunks(cs) ==
    IF cs = <<>> THEN [wire |-> <<>>, body |-> <<>>]
    ELSE LET before == Chunks(Front(cs))
             c      == Last(cs)
         IN  [wire |-> before.wire \o c.line \o c.data \o Newline,
              body |-> before.body \o Positions(Len(before.wire) + Len(c.line), Len(c.data))]

Request(chunked, payload, length, rest) ==
    [chunked |-> chunked, length |-> length, wire |-> payload.wire \o rest,
     body |-> payload.body, end |-> Len(payload.wire),
     sound |-> TRUE, fits |-> TRUE]

Chunked(cs, trailers, rest) ==
    LET c == Chunks(cs)
    IN  Request(TRUE, [c EXCEPT !.wire = @ \o <<0>> \o Newline \o trailers], 0, rest)

Sized(bytes, rest) ==
    Request(FALSE, [wire |-> bytes, body |-> Positions(0, Len(bytes))], Len(bytes), rest)

OneTrailer == <<Other, Other, CR, LF, CR, LF>>
Bare       == <<Other, LF, LF>>
C(line, bytes) == [line |-> line, data |-> bytes]

Sound == {
    Chunked(<<C(<<2, CR, LF>>, <<CR, LF>>), C(<<1, Semi, 2, LF>>, <<0>>)>>, OneTrailer, Following),
    Chunked(<<C(<<1, 0, CR, LF>>, <<1, 2, 3, LF>>)>>, Bare, <<>>),
    Chunked(<<C(<<0, 2, CR, LF>>, <<Other, CR>>)>>, Bare, Following),
    Sized(<<CR, LF, 1, 2, 3, 1, 2, 3, 1, 2>>, Following),
    Sized(<<>>, Following)}

Unsound == {
    [Chunked(<<C(<<1, Other, LF>>, <<1>>)>>, Bare, <<>>) EXCEPT !.sound = FALSE],
    [Chunked(<<C(<<1, CR, LF>>, <<1>>)>>, <<Other, CR, Other, LF>>, <<>>) EXCEPT !.sound = FALSE],
    [Chunked(<<C(<<1, Semi>> \o [i \in 1 .. 9 |-> Other] \o Newline, <<1>>)>>, Bare, <<>>)
        EXCEPT !.fits = FALSE]}

All     == Sound \cup Unsound
Long    == {Sized([i \in 1 .. 10 |-> Other], <<>>)}

\* What NextBegins needs of a request that is not refused; that of NoTrailer, which
\* is as most are, has it not.
ASSUME TrailedAssumption == \A rq \in All : rq.sound => Trailed(rq)

NoTrailer == {Chunked(<<C(<<1, CR, LF>>, <<3>>)>>, Newline, <<Other, LF>>)}
Zero    == {0}
Some    == {0, 3, 7}
Four    == {1, 3, 8}
=============================================================================
