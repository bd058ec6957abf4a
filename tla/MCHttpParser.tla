---------------------------- MODULE MCHttpParser ----------------------------
(* Requests put together from pieces, each with what it means.  Words are   *)
(* the first letters of the code's; those that share a prefix there (POST   *)
(* and PUT; accept and accept-charset; connection, content-length) share it. *)
(* No request has a null byte, which ends a word, or the byte 255 in a value *)
(* or a line that is skipped, which looks like the end of the stream.       *)
EXTENDS HttpParser

A == 65  G == 71  H == 72  O == 79  P == 80  T == 84  U == 85
a == 97  b == 98  c == 99  e == 101  h == 104  k_ == 107  l == 108  n == 110
o == 111  r == 114  s == 115  t == 116  x == 120
One == 49  Zero == 48  Two == 50  Four == 52
Colon == 58  Dash == 45  Slash == 47  Question == 63  Percent == 37  Dot == 46

CRLF == <<CR, LF>>

MCWords ==
    [method |-> (<<G, 69>> :> "GET" @@ <<H, 69>> :> "HEAD" @@
                 <<P, O>> :> "POST" @@ <<P, U>> :> "PUT"),
     proto  |-> (<<H, T>> :> "HTTP"),
     header |-> (<<a, c>> :> 1 @@ <<a, c, Dash>> :> 2 @@ <<c, n>> :> 7 @@ <<c, l>> :> 10 @@
                 <<e, x>> :> 16 @@ <<h, o>> :> 18 @@ <<t, e>> :> 30 @@ <<t, r>> :> 32 @@
                 <<U + 32, s>> :> 34),
     connection |-> (<<c, l>> :> "close" @@ <<k_, e>> :> "keep"),
     expect   |-> (<<One, Zero>> :> "continue"),
     transfer |-> (<<c, h>> :> "chunked")]

---------------------------------------------------------------------------
(* A header: its line without the end, what it gives, and what the code does *)
(* not read in it as it is meant.                                          *)

Header_(line, headers, flags, length) ==
    [line |-> line, headers |-> headers, flags |-> flags, length |-> length, forms |-> {}]
Value(name, code, line, value) == Header_(name \o <<Colon>> \o line, <<<<code, value>>>>, {}, 0)
Flag(name, line, flag) == Header_(name \o <<Colon>> \o line, <<>>, {flag}, 0)
Length(line, v) == Header_(<<c, l, Colon>> \o line, <<>>, {"content_length"}, v)
Nothing(line)   == Header_(line, <<>>, {}, 0)
Form(part, form) == [part EXCEPT !.forms = {form}]

Host    == Value(<<H, o>>, 18, <<SPACE, a>>, <<a>>)
Spaced  == Value(<<h, O>>, 18, <<SPACE, a, TAB, SPACE, b, 37>>, <<a, SPACE, b, 37>>)
Folded(nl) == Value(<<h, o>>, 18, <<a>> \o nl \o <<SPACE, TAB, b>>, <<a, SPACE, b>>)
Accept  == Value(<<a, c>>, 1, <<>>, <<>>)
Charset == Value(<<A, c, Dash>>, 2, <<TAB, Dash>>, <<Dash>>)
Te      == Value(<<t, e>>, 30, <<x>>, <<x>>)
Agent   == Value(<<U, s>>, 34, <<SPACE, x>>, <<x>>)
Close   == Flag(<<c, n>>, <<SPACE, c, 76>>, "close")
Expect  == Flag(<<e, x>>, <<One, Zero>>, "continue")
Chunked == Flag(<<t, r>>, <<SPACE, SPACE, c, h>>, "chunked")
Size12  == Length(<<SPACE, Zero, One, Two>>, 12)
\* Unknown names and values, and lines that go on.
Unknown(nl) == Nothing(<<x, a, Colon, c, l>> \o nl \o <<SPACE, x>>)
NotClose == Nothing(<<c, n, Colon, c, x>>)
Almost   == Nothing(<<c, Colon, SPACE, x>>)
Name(m)  == Nothing([i \in 1 .. m |-> x])
Wide     == Nothing(<<c, n, Colon>> \o [i \in 1 .. 9 |-> SPACE] \o <<x>>)
Long(m)  == Value(<<h, o>>, 18, [i \in 1 .. m |-> x], [i \in 1 .. m |-> x])

\* A length whose line ends with nl, and one beyond Modulus.
Counted(nl) == IF nl = CRLF THEN Length(<<Four>>, 4) ELSE Form(Length(<<Four>>, 4), "length LF")
WideLength  == Form(Length(<<One, Two, Four>>, 124), "wide length")
Blanked     == Form(Flag(<<c, n>>, <<c, l, SPACE>>, "close"), "blank after value")
Listed      == Form(Flag(<<c, n>>, <<x, 44, c, l>>, "close"), "list")
FoldedFlag(nl) == Form(Flag(<<c, n>>, nl \o <<SPACE, c, l>>, "close"), "folded flag")
\* An unknown header that goes on, after one that is collected.
Stray(nl)   == Form(Nothing(<<x, Colon>> \o nl \o <<SPACE, b>>), "stray continuation")

---------------------------------------------------------------------------
(* A request: method, target, version and headers.                         *)

Target(line, path, query) == [line |-> line, path |-> path, query |-> query, forms |-> {}]
Root   == Target(<<Slash>>, <<Slash>>, <<>>)
Escape == Target(<<Slash, Percent, Four, One, Question, a, Percent, Two, 102, Question>>,
                 <<Slash, A>>, <<a, Slash, Question>>)
\* %4A, which is J.
UpperEscape == Form(Target(<<Slash, Percent, Four, A>>, <<Slash, 74>>, <<>>), "upper-case escape")

Joined(hs, nl) == FoldLeft(LAMBDA w, hd : w \o hd.line \o nl, <<>>, hs)
Gathered(hs)   == FoldLeft(LAMBDA w, hd : w \o hd.headers, <<>>, hs)

Made(lead, word, method, target, minor, hs, nl) ==
    [line  |-> lead \o word \o <<SPACE>> \o target.line \o <<SPACE, H, T, Slash, One, Dot, 48 + minor>>
                  \o nl \o Joined(hs, nl) \o nl,
     means |-> [method |-> method, path |-> target.path, query |-> target.query,
                version |-> 10 + minor, flags |-> UNION {hs[i].flags : i \in DOMAIN hs},
                length |-> FoldLeft(LAMBDA m, hd : IF hd.length > 0 THEN hd.length ELSE m, 0, hs),
                headers |-> Gathered(hs)],
     status |-> 0,
     forms |-> target.forms \cup UNION {hs[i].forms : i \in DOMAIN hs}]

Get(target, hs, nl) == Made(<<>>, <<G, 69>>, "GET", target, 1, hs, nl)
Post(hs, nl)        == Made(CRLF, <<P, O>>, "POST", Root, 1, hs, nl)
Put10(hs, nl)       == Made(<<LF>>, <<P, U>>, "PUT", Root, 0, hs, nl)
Headed(hs, nl)       == Made(<<>>, <<H, 69>>, "HEAD", Root, 1, hs, nl)

\* Refused with this status.
Refused(line, st) == [Get(Root, <<>>, CRLF) EXCEPT !.line = line, !.status = st]

\* The bytes a request needs in the store; with more, a header is too much.
Need(m) == 1 + Len(m.path) + 1 + (IF m.query = <<>> THEN 0 ELSE Len(m.query) + 1)
              + FoldLeft(LAMBDA sum, hd : sum + 2 * IntSize + Len(hd[2]) + 1, 0, m.headers)
Stored(rq) == IF Need(rq.means) > TextSize THEN [rq EXCEPT !.status = 413] ELSE rq
\* What one that does not fit in the ring comes to.
Wider(rq) == [rq EXCEPT !.status = 414]

Connection(rqs_) ==
    LET lines == FoldLeft(LAMBDA w, q : Append(w, Last(w) \o q.line), <<<<>>>>, rqs_)
    IN  [wire  |-> Last(lines),
         asked |-> [i \in DOMAIN rqs_ |-> [status |-> rqs_[i].status, end |-> Len(lines[i + 1]),
                                           means |-> rqs_[i].means,
                                           forms |-> rqs_[i].forms]]]

\* With either line end.
Ends(nl) == {
    Connection(<<Get(Escape, <<Host>>, nl), Put10(<<>>, nl)>>),
    Connection(<<Post(<<Spaced, Close, Chunked>>, nl), Headed(<<Accept>>, nl)>>),
    Connection(<<Headed(<<Unknown(nl), Folded(nl), Te>>, nl)>>),
    Connection(<<Get(Root, <<NotClose, Almost, Charset, Accept, Expect>>, nl)>>),
    Connection(<<Get(Root, <<Agent, Host>>, nl)>>)}

\* The forms that Parsed leaves out.  (Counted(CRLF) is none.)
Forms(nl) == {
    Connection(<<Post(<<Counted(nl)>>, nl)>>),
    Connection(<<Get(UpperEscape, <<>>, nl)>>),
    Connection(<<Headed(<<Host, Stray(nl)>>, nl)>>),
    Connection(<<Post(<<WideLength>>, nl)>>),
    Connection(<<Get(Root, <<Blanked>>, nl)>>),
    Connection(<<Get(Root, <<Listed>>, nl), Get(Root, <<FoldedFlag(nl)>>, nl)>>)}

Line(rest) == <<G, 69, SPACE, Slash>> \o rest
Others == {
    Connection(<<Post(<<Size12, Host>>, CRLF), Post(<<Length(<<Four>>, 4), Close>>, CRLF)>>),
    Connection(<<Stored(Get(Root, <<Host, Long(4)>>, CRLF))>>),
    Connection(<<Stored(Get(Root, <<Host, Long(5)>>, CRLF))>>),
    Connection(<<Stored(Get(Root, <<Host, Long(2), Te>>, CRLF))>>),
    Connection(<<Refused(Line([i \in 1 .. TextSize |-> x]), 414)>>),
    Connection(<<Wider(Get(Root, <<Wide>>, CRLF))>>)}

Bad == {Connection(<<Refused(w, st)>>) : <<w, st>> \in {
    <<<<P, A, SPACE>>, 400>>, <<<<G, SPACE>>, 400>>, <<<<G, 69, SPACE, CR>>, 400>>,
    <<Line(<<Percent, x>>), 400>>, <<Line(<<Percent, a, LF>>), 400>>, <<Line(<<127>>), 400>>,
    <<Line(<<Question, CR>>), 400>>, <<Line(<<SPACE, SPACE, x>>), 505>>,
    <<Line(<<SPACE, H, T, Slash, x>>), 400>>,
    <<Line(<<SPACE, H, T, Slash, One, Dot, One, LF, c, l, Colon, Four, x>>), 400>>,
    <<Line(<<SPACE, H, T, Slash, Two, Dot, Zero, CR, LF>>), 505>>}}

\* One request with the three forms that FormsRead is about.
Misread == {Connection(<<Get(UpperEscape, <<Host, Stray(<<LF>>), Counted(<<LF>>)>>, <<LF>>)>>)}

All == Ends(CRLF) \cup Ends(<<LF>>) \cup Others \cup Bad \cup Forms(CRLF) \cup Forms(<<LF>>)
=============================================================================
