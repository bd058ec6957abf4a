----------------------------- MODULE HttpParser -----------------------------
(* The request parser (libhttp/http.c), called by minute_httpd_read_request *)
(* (libhttpd/httpd.c) for each request of a connection: a state machine that *)
(* may run out of input after any byte.                                     *)
(*                                                                          *)
(* A byte is a signed char, its ASCII code.  The input ring is the window   *)
(* from read to write of what the client sends; IoBuf is about how the      *)
(* bytes lie in it.  The tries are the sets of words they accept, with words *)
(* shorter than the code's that share prefixes as those do.                 *)
EXTENDS Integers, Sequences, SequencesExt

CONSTANTS
    Size,         \* size of the input ring
    TextSize, IntSize,   \* of the text store
    Modulus,      \* one more than the largest unsigned
    MaskBits,     \* width of the header mask; 32 in the code
    Words,        \* the tries: root -> (word -> code)
    Connections,  \* what clients may send, records as in ConnectionType
    MaxFaults     \* bound: calls of readv() that fail

Text == INSTANCE TextInt

Char == -128 .. 127
\* What a request should come to; `end' is where it ends in the stream, `forms' what
\* it has in it that the code does not read as it is meant.
Meaning == [method : STRING, path : Seq(Char), query : Seq(Char), version : Nat,
            flags : SUBSET STRING, length : Nat, headers : Seq(Nat \X Seq(Char))]
ConnectionType ==
    [wire : Seq(Char),
     asked : Seq([status : Nat, end : Nat, means : Meaning, forms : SUBSET STRING])]

ASSUME HttpParserAssumption ==
    /\ Size \in Nat \ {0} /\ Modulus \in Nat \ {0} /\ MaskBits \in Nat
    /\ MaxFaults \in Nat
    /\ TextSize \in Nat \ {0} /\ IntSize \in Nat \ {0} /\ TextSize % IntSize = 0
    /\ DOMAIN Words = {"method", "proto", "header", "connection", "expect", "transfer"}
    /\ \A w \in DOMAIN Words["header"] : Words["header"][w] \in Nat
    /\ Connections \subseteq ConnectionType /\ \A c \in Connections : c.asked # <<>>

VARIABLES
    conn,        \* what the client sends on the connection
    k,           \* the request that is being read
    read, write, eof,  \* state->in: offsets into conn.wire
    rqs,         \* minute_http_rqs, minute_http_rq and the text store
    at,          \* where minute_httpd_read_request is
    status,      \* what it returns
    wraps,       \* what the build makes of 1u << r for an r of MaskBits or more
    faults
vars == <<conn, k, read, write, eof, rqs, at, status, wraps, faults>>

---------------------------------------------------------------------------
(* Characters                                                              *)

TAB == 9    LF == 10    CR == 13    SPACE == 32
H_EOF == -1     \* also what the byte 255 looks like
Digit == 48 .. 57
Upper == 65 .. 90
Lower == 97 .. 122
Blank == {SPACE, TAB}

ToLower(c) == IF c \in Upper THEN c + 32 ELSE c

\* - _ . ! ~ * ' ( ), then : @ & = + $ , and the rest of what is reserved
uri_mark       == {45, 95, 46, 33, 126, 42, 39, 40, 41}
uri_unreserved == Digit \cup Upper \cup Lower \cup uri_mark
uri_pchar      == uri_unreserved \cup {58, 64, 38, 61, 43, 36, 44}
uri_uric       == uri_pchar \cup {59, 47, 63}
uri_hex        == Digit \cup 65 .. 70 \cup 97 .. 102

\* A letter in upper case comes out negative.
uri_hex_conv(c) == IF c \in Digit THEN c - 48 ELSE c + 10 - 97

\* (esc << 4) | lo, as a char.
Escaped(esc, lo) ==
    LET hi == esc % 16
        b  == IF lo >= 0 THEN 16 * hi + lo
                         ELSE 16 * (IF hi % 2 = 1 THEN 15 ELSE 14) + (lo % 16)
    IN  ((b + 128) % 256) - 128

---------------------------------------------------------------------------
(* walk_trie.  A position is a prefix of some word; a node of the compacted *)
(* trie ends where words branch.                                           *)

Branches(dict, p) ==
    \E v, w \in DOMAIN dict :
        /\ IsStrictPrefix(p, v) /\ IsStrictPrefix(p, w)
        /\ v[Len(p) + 1] # w[Len(p) + 1]

\* c = 0 ends a word.  At a node that is no word it is taken and changes nothing.
walk_trie(root, s, c) ==
    LET slot == IF s.pos = <<>> THEN root ELSE s.slot
        dict == Words[slot]
        hit(h, p) == [hit |-> h, slot |-> slot, pos |-> p]
    IN  CASE c = 0 /\ s.pos \in DOMAIN dict -> hit("word", s.pos)
          [] c = 0 /\ s.pos \notin DOMAIN dict \cup {<<>>} /\ Branches(dict, s.pos)
               -> hit("more", s.pos)
          [] c # 0 /\ \E w \in DOMAIN dict : IsPrefix(Append(s.pos, c), w)
               -> hit("more", Append(s.pos, c))
          [] OTHER -> hit("no", s.pos)
---------------------------------------------------------------------------
(* One turn of the loop of minute_http_read.  An operator per state of the  *)
(* machine takes the parser s and the character c; `reset' is the use of    *)
(* one in another, `shift' a new st.  ret is Again until the code returns.  *)

Again == -1

Shift(s, st)   == [s EXCEPT !.st = st]
Return(s, ret) == [s EXCEPT !.ret = ret]
Release(s)     == [s EXCEPT !.b = s.m]
NewWord(s)     == [s EXCEPT !.pos = <<>>, !.slot = ""]
Walked(s, w)   == [s EXCEPT !.pos = w.pos, !.slot = w.slot]
Code(w)        == Words[w.slot][w.pos]

Put(s, c, full) ==
    IF Text!HasRoomC(s.text) THEN [s EXCEPT !.text = Text!PutC(@, c)]
    ELSE Return(s, full)

BadRequest(s) == Return(s, 400)

h_method(s, c) ==
    LET w == walk_trie("method", s, IF c = SPACE THEN 0 ELSE c)
        t == Release(Walked(s, w))
    IN  CASE w.hit = "word" -> [Shift(t, "h_method_sp") EXCEPT !.rq.method = Code(w)]
          [] w.hit = "more" -> t
          [] OTHER -> BadRequest(s)

h_initial(s, c) ==
    IF c \in {LF, CR} THEN s
    ELSE h_method([Shift(NewWord(s), "h_method") EXCEPT !.esc = 0], c)

\* The end of the path or of the query.
h_uri_end(s) == Release(Shift(Put(s, 0, 414), "h_path_sp"))

\* A character of the path or of the query, which is what st says.
h_uri(s, c) ==
    CASE c \in (IF s.st = "h_path" THEN uri_pchar \cup {47, 59} ELSE uri_uric)
           -> Release(Put(s, c, 414))
      [] c = 37 -> Release([s EXCEPT !.est = s.st, !.st = "h_escaped_1"])
      [] c = 63 /\ s.st = "h_path"
           -> LET t == Release(Shift(Put(s, 0, 414), "h_query"))
              IN  [t EXCEPT !.rq.query = Text!Low(t.text)]
      [] c = SPACE -> h_uri_end(s)
      [] OTHER -> BadRequest(s)

h_method_sp(s, c) ==
    IF c = SPACE THEN s
    ELSE h_uri([Shift(Release(s), "h_path") EXCEPT !.rq.path = Text!Low(s.text)], c)

h_escaped_1(s, c) ==
    IF c \in uri_hex THEN [Shift(s, "h_escaped_2") EXCEPT !.esc = uri_hex_conv(c)]
    ELSE BadRequest(s)

h_escaped_2(s, c) ==
    IF c \in uri_hex
    THEN [Shift(Put(s, Escaped(s.esc, uri_hex_conv(c)), 414), s.est) EXCEPT !.esc = 0]
    ELSE BadRequest(s)

h_prot(s, c) ==
    LET w == walk_trie("proto", s, IF c = 47 THEN 0 ELSE c)
        t == Release(Walked(s, w))
    IN  CASE w.hit = "word" -> Shift(t, "h_prot_slash")
          [] w.hit = "more" -> t
          [] OTHER -> Return(s, 505)

h_path_sp(s, c) ==
    IF c = SPACE THEN s ELSE h_prot(Shift(NewWord(s), "h_prot"), c)

\* \r, \n or the end of input in a line whose text does not matter.
LineEnd(s, c) ==
    CASE c = CR -> Shift(s, "h_cr")
      [] c = LF -> [Shift(s, "h_nl") EXCEPT !.nl = @ + 1]
      [] c = H_EOF -> [s EXCEPT !.nl = 99]
      [] OTHER -> s

h_prot_http_x_x(s, c) ==
    LET v == CASE s.httpv = <<0, 9>> -> 9
               [] s.httpv = <<1, 0>> -> 10
               [] s.httpv = <<1, 1>> -> 11
               [] OTHER -> s.rq.version
        t == [s EXCEPT !.rq.version = v]
    IN  CASE v = 0 -> Return(s, 505)
          [] c \in {CR, LF} -> LineEnd(t, c)
          [] OTHER -> BadRequest(t)

\* The digits of the major (i = 1) or minor version.
Version(s, i, c) == [s EXCEPT !.httpv[i] = (@ * 10 + c - 48) % Modulus]

h_prot_http_x_dot(s, c) ==
    IF c \in Digit THEN Version(s, 2, c)
    ELSE h_prot_http_x_x(Shift(s, "h_prot_http_x_x"), c)

h_prot_slash(s, c) ==
    CASE c \in Digit -> Version(s, 1, c)
      [] c = 46 -> Shift(s, "h_prot_http_x_dot")
      [] OTHER -> BadRequest(s)

h_cr(s, c) == IF c = LF THEN LineEnd(s, c) ELSE BadRequest(s)

h_skipline(s, c) == LineEnd(Release(Shift(s, "h_skipline")), c)

h_value(s, c) ==
    LET t == Release(Shift(s, "h_value"))
    IN  CASE c \in Blank -> [Shift(Put(t, SPACE, 413), "h_value_lead") EXCEPT !.est = "h_value"]
          [] c \in {CR, LF, H_EOF} -> Put(LineEnd(t, c), 0, 413)
          [] OTHER -> Put(t, c, 413)

h_head_content_length(s, c) ==
    CASE c \in Digit -> [s EXCEPT !.esc = (@ * 10 + c - 48) % Modulus]
      [] c = CR -> [Shift(s, "h_cr") EXCEPT !.rq.flags = @ \cup {"content_length"},
                                            !.rq.length = s.esc]
      [] c = LF -> h_cr(Shift(s, "h_cr"), c)
      [] OTHER -> BadRequest(s)

h_head_flag(s, c) ==
    LET w == walk_trie(s.flag, s, IF c \in {CR, LF} THEN 0 ELSE ToLower(c))
        t == Walked(s, w)
    IN  CASE w.hit = "word" -> h_skipline([t EXCEPT !.rq.flags = @ \cup {Code(w)}], c)
          [] w.hit = "more" -> t
          [] OTHER -> h_skipline(t, c)

\* h_head_connection, h_head_expect and h_head_transfer_encoding: which trie the
\* value is looked up in is a local variable of minute_http_read.
FlagOf == [h_head_connection |-> "connection", h_head_expect |-> "expect",
           h_head_transfer_encoding |-> "transfer"]

\* A mutant of Field: the flag states shift instead of resetting, and what comes
\* next finds the local variable unset.
FieldShifted(s, c) ==
    CASE s.est = "h_value" -> h_value(s, c)
      [] s.est = "h_skipline" -> h_skipline(s, c)
      [] s.est = "h_head_content_length" -> h_head_content_length(Shift(s, s.est), c)
      [] OTHER -> [Shift(s, "h_head_flag") EXCEPT !.flag = FlagOf[s.est]]

Field(s, c) ==
    CASE s.est = "h_value" -> h_value(s, c)
      [] s.est = "h_skipline" -> h_skipline(s, c)
      [] s.est = "h_head_content_length" -> h_head_content_length(Shift(s, s.est), c)
      [] OTHER -> h_head_flag([Shift(s, "h_head_flag") EXCEPT !.flag = FlagOf[s.est]], c)

h_value_lead(s, c) == IF c \in Blank THEN s ELSE Field(Release(s), c)

h_cont(s, c) ==
    IF s.collect
    THEN h_value_lead([Shift(s, "h_value_lead") EXCEPT
                          !.text = Text!ReplaceC(@, -1, SPACE)], c)
    ELSE h_skipline(s, c)

http_rq_connection        == 7
http_rq_content_length    == 10
http_rq_expect            == 16
http_rq_transfer_encoding == 32

InterpretedBy ==
    (http_rq_connection :> "h_head_connection" @@
     http_rq_content_length :> "h_head_content_length" @@
     http_rq_expect :> "h_head_expect" @@
     http_rq_transfer_encoding :> "h_head_transfer_encoding")

\* hmask is all ones, so a header is left out only where the shift by its number
\* is undefined and comes to nothing.
Collected(r, w) == r < MaskBits \/ w

\* The two integers of a header whose value is collected.
Collect(s, r) ==
    LET one == Text!PutI(s.text, r)
    IN  IF Text!HasRoomI(s.text) /\ Text!HasRoomI(one)
        THEN [Shift(s, "h_value_lead") EXCEPT
                 !.text = Text!PutI(one, Text!Low(s.text)),
                 !.collect = TRUE, !.est = "h_value"]
        ELSE Return(s, 413)

Header(s, r) ==
    CASE r = http_rq_content_length
           -> [Shift(s, "h_value_lead") EXCEPT !.est = InterpretedBy[r], !.esc = 0]
      [] r \in DOMAIN InterpretedBy
           -> [Shift(s, "h_value_lead") EXCEPT !.est = InterpretedBy[r]]
      [] r \notin DOMAIN InterpretedBy /\ Collected(r, wraps) -> Collect(s, r)
      [] OTHER -> [Shift(s, "h_skipline") EXCEPT !.est = "h_skipline", !.collect = FALSE]

\* (The bit of hmask for unknown headers is set, so b stays at the name.)
h_header(s, c) ==
    LET w == walk_trie("header", s, IF c = 58 THEN 0 ELSE ToLower(c))
        t == Walked(s, w)
    IN  CASE w.hit = "word" -> Header(NewWord(t), Code(w))
          [] w.hit = "more" -> t
          [] OTHER -> h_skipline(t, c)

h_nl(s, c) ==
    LET t == Release(s)
    IN  CASE c \in {CR, LF} -> LineEnd(t, c)
          [] c \in Blank -> [Shift(t, "h_cont") EXCEPT !.nl = 0]
          [] OTHER -> h_header([Shift(NewWord(t), "h_header") EXCEPT !.nl = 0], c)

Dispatch(s, c) ==
    CASE s.st = "h_initial"   -> h_initial(s, c)
      [] s.st = "h_method"    -> h_method(s, c)
      [] s.st = "h_method_sp" -> h_method_sp(s, c)
      [] s.st \in {"h_path", "h_query"} -> h_uri(s, c)
      [] s.st = "h_escaped_1" -> h_escaped_1(s, c)
      [] s.st = "h_escaped_2" -> h_escaped_2(s, c)
      [] s.st = "h_path_sp"   -> h_path_sp(s, c)
      [] s.st = "h_prot"      -> h_prot(s, c)
      [] s.st = "h_prot_slash" -> h_prot_slash(s, c)
      [] s.st = "h_prot_http_x_dot" -> h_prot_http_x_dot(s, c)
      [] s.st = "h_cr"        -> h_cr(s, c)
      [] s.st = "h_nl"        -> h_nl(s, c)
      [] s.st = "h_header"    -> h_header(s, c)
      [] s.st = "h_skipline"  -> h_skipline(s, c)
      [] s.st = "h_value"     -> h_value(s, c)
      [] s.st = "h_value_lead" -> h_value_lead(s, c)
      [] s.st = "h_cont"      -> h_cont(s, c)
      [] s.st = "h_head_content_length" -> h_head_content_length(s, c)
      [] s.st = "h_head_flag" -> h_head_flag(s, c)

Turn(s, c) ==
    IF s.ret # Again THEN s
    ELSE LET t == Dispatch(s, c)
         IN  IF t.ret # Again THEN t
             ELSE [t EXCEPT !.m = @ + 1, !.ret = IF t.nl > 1 THEN 0 ELSE Again]

\* (The sets have one member: this way TLC evaluates each state once.)
EachTurn(S, c) == {Turn(s, c) : s \in S}
Turns == INSTANCE SeqFold WITH Step <- EachTurn

\* All turns of one call, over what the ring holds from m on.
minute_http_read ==
    LET input == SubSeq(conn.wire, rqs.m + 1, write) \o (IF eof THEN <<H_EOF>> ELSE <<>>)
        start == [rqs EXCEPT !.b = read, !.flag = "NULL"]
    IN  CHOOSE s \in Turns!Fold({start}, input) : TRUE

---------------------------------------------------------------------------
(* minute_httpd_read_request                                               *)

NoRequest == [method |-> "", path |-> 0, query |-> 0, version |-> 0,
              flags |-> {}, length |-> 0]

\* minute_http_init and, before it, the clearing of the request and of the store.
minute_http_init(m) ==
    [st |-> "h_initial", est |-> "h_initial", pos |-> <<>>, slot |-> "", m |-> m,
     b |-> m, esc |-> 0, httpv |-> <<0, 0>>, nl |-> 0, collect |-> FALSE,
     flag |-> "NULL", ret |-> Again, rq |-> NoRequest, text |-> Text!PutC(Text!Clear, 0)]

\* With something in the ring the parser is called first.
Begin(r, w) == IF w > r THEN "parse" ELSE "readfd"

Fd == at = "readfd" /\ UNCHANGED <<conn, k, read, rqs, wraps>>

FdData(n) ==
    /\ Fd /\ ~eof /\ write + n <= Len(conn.wire) /\ write + n - read <= Size
    /\ write' = write + n
    /\ at' = "parse"
    /\ UNCHANGED <<eof, status, faults>>

\* The client closes, having sent all or not: no request.
FdEnd ==
    /\ Fd /\ write - read < Size
    /\ eof' = TRUE
    /\ at' = "closed"
    /\ UNCHANGED <<write, status, faults>>

\* A mutant of FdNone: what readv() returned is passed on.
FdNonePassed ==
    /\ Fd /\ status' = -1 /\ at' = "done"
    /\ UNCHANGED <<write, eof>>

\* minute_iobuf_readfd has returned a negative number.
FdNone ==
    /\ Fd /\ status' = 414 /\ at' = "done"
    /\ UNCHANGED <<write, eof>>

\* A mutant of FdFull: a full ring is not told from an interrupted call.
FdFullAgain == Fd /\ write - read = Size /\ UNCHANGED <<write, eof, status, at, faults>>

FdFull  == FdNone /\ write - read = Size /\ UNCHANGED faults
FdError == FdNone /\ write - read < Size /\ faults < MaxFaults /\ faults' = faults + 1

\* A mutant of ParseMore: the position in the trie is not saved.
ParseMoreLost(s) ==
    /\ s.ret = Again
    /\ rqs' = [s EXCEPT !.flag = "NULL", !.pos = rqs.pos, !.slot = rqs.slot]
    /\ read' = s.b /\ at' = "readfd"
    /\ UNCHANGED status

\* Out of input: what is needed to go on is saved.
ParseMore(s) ==
    /\ s.ret = Again
    /\ rqs' = [s EXCEPT !.flag = "NULL"]
    /\ read' = s.b /\ at' = "readfd"
    /\ UNCHANGED status

\* A mutant of ParseDone: the ring is released as when the parser stops half way.
ParseDoneShort(s) ==
    /\ s.ret = 0
    /\ rqs' = s /\ read' = s.b
    /\ status' = 0 /\ at' = "done"

ParseDone(s) ==
    /\ s.ret = 0
    /\ rqs' = s /\ read' = s.m
    /\ status' = 0 /\ at' = "done"

ParseError(s) ==
    /\ s.ret \notin {Again, 0}
    /\ rqs' = [rqs EXCEPT !.rq = s.rq, !.text = s.text]
    /\ status' = s.ret /\ at' = "done"
    /\ UNCHANGED read

Parse ==
    /\ at = "parse" /\ UNCHANGED <<conn, k, write, eof, wraps, faults>>
    /\ \E s \in {minute_http_read} : ParseMore(s) \/ ParseDone(s) \/ ParseError(s)

\* minute_httpd_handle once more, on a connection that is kept.  (A request that
\* was ended by the end of the stream leaves `read' beyond `write'; what follows is
\* not described.)
NextRequest ==
    /\ at = "done" /\ status = 0 /\ ~eof /\ k < Len(conn.asked)
    /\ k' = k + 1
    /\ rqs' = minute_http_init(read)
    /\ at' = Begin(read, write)
    /\ UNCHANGED <<conn, read, write, eof, status, wraps, faults>>

\* The ring may hold something already, and the end of the stream may have been
\* seen while the payload of an earlier request was read.
Init ==
    /\ conn \in Connections /\ k = 1
    /\ read = 0
    /\ write \in 0 .. (IF Size < Len(conn.wire) THEN Size ELSE Len(conn.wire))
    /\ eof \in BOOLEAN /\ (eof => write > 0)
    /\ rqs = minute_http_init(0)
    /\ at = Begin(read, write)
    /\ status = 0 /\ faults = 0
    /\ wraps \in BOOLEAN

Data   == \E n \in 1 .. Size : FdData(n)
Server == Parse \/ NextRequest \/ FdFull

Next == Data \/ FdEnd \/ FdError \/ Server

Spec == Init /\ [][Next]_vars

\* The process runs, and what the client sends arrives.
FairSpec == Spec /\ WF_vars(Server) /\ WF_vars(Data)

---------------------------------------------------------------------------
(* Properties                                                              *)

States == {"h_initial", "h_method", "h_method_sp", "h_path", "h_query", "h_path_sp",
           "h_prot", "h_prot_slash", "h_prot_http_x_dot", "h_cr",
           "h_nl", "h_skipline", "h_header", "h_escaped_1", "h_escaped_2",
           "h_value_lead", "h_cont", "h_value", "h_head_content_length", "h_head_flag"}

\* The state of a parser and of the ring it reads from.
TypeOK ==
    /\ conn \in Connections /\ k \in DOMAIN conn.asked
    /\ read \in Nat /\ write \in 0 .. Len(conn.wire) /\ eof \in BOOLEAN
    /\ rqs.st \in States /\ rqs.m \in Nat /\ rqs.b \in Nat /\ rqs.nl \in {0, 1, 2, 99}
    /\ rqs.text.ints \in Seq(Nat) /\ rqs.text.text \in Seq(Char)
    /\ at \in {"readfd", "parse", "done", "closed"} /\ status \in {0, 400, 413, 414, 505}
    /\ wraps \in BOOLEAN /\ faults \in 0 .. MaxFaults

Now == conn.asked[k]

\* What the parser has found, as an application reads it from the store.
String(o)  == IF o = 0 THEN <<>> ELSE Text!GetS(rqs.text, o)
Headers    == [i \in 1 .. Len(rqs.text.ints) \div 2
                |-> <<Text!GetI(rqs.text, 2 * i - 2), String(Text!GetI(rqs.text, 2 * i - 1))>>]
Found      == [method |-> rqs.rq.method, path |-> String(rqs.rq.path),
               query |-> String(rqs.rq.query), version |-> rqs.rq.version,
               flags |-> rqs.rq.flags, length |-> rqs.rq.length, headers |-> Headers]
Terminated(x) == IF x = <<>> THEN x ELSE Append(x, 0)
Kept(hs) == SelectSeq(hs, LAMBDA h : Collected(h[1], wraps))
Meant(m) ==
    [m EXCEPT !.path = Append(@, 0), !.query = Terminated(@),
              !.headers = [i \in DOMAIN Kept(@) |-> <<Kept(@)[i][1], Append(Kept(@)[i][2], 0)>>]]

\* A request with none but these forms comes to what it means: the same status, and
\* method, strings, flags and collected headers each complete and ended; a request
\* that is refused is refused for itself.
ParsedWith(forms) ==
    at = "done" /\ ~eof /\ faults = 0 /\ Now.forms \subseteq forms =>
        /\ status = Now.status
        /\ status = 0 => Found = Meant(Now.means)

\* Whatever the reads that brought it, a request that is not cut off by the end of
\* the stream or a failing readv() comes to what it means, if it has none of the forms
\* that FormsRead is about, and none that no text of the repository promises anything
\* of: a Content-Length of more than an unsigned ("wide length"), and
\* in a header that the parser interprets a blank after the value, a list of values or
\* a value on a continuation line ("blank after value", "list", "folded flag").
Parsed == ParsedWith({})

\* The code does not keep these: a Content-Length line counts however it ends (http.c
\* 559: "accept both CRLFs and lone LFs as newline"); an escape is the character of its
\* two hex digits, in either case, as in the appendix of RFC 2396 that http.c 248 names;
\* a continuation line belongs to the header before it, and goes with it when that is
\* none the server knows (README.md 29: "Unrecognized headers are currently ignored").
FormsRead == ParsedWith({"length LF", "upper-case escape", "stray continuation"})

\* Nothing of the next request is taken, and nothing that the parser still needs
\* is given back to the ring.
NextBegins ==
    ~eof => /\ read <= rqs.m /\ rqs.m <= write /\ rqs.m <= Now.end
            /\ at = "done" /\ status = 0 => read = Now.end

\* The value of a flag header is never resumed without a position in its trie: the
\* initial node is a local variable, null in the next call.
FlagResumed == rqs.st = "h_head_flag" => rqs.pos # <<>>

\* Text and integers of the store never meet, however much a client sends.
StoreApart == Text!Apart(rqs.text)

\* A request that has been sent is parsed or refused, also one that does not fit
\* in the ring or in the store.
Answered == [](at # "done" => <>(at \in {"done", "closed"}))
=============================================================================
