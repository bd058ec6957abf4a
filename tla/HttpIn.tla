------------------------------- MODULE HttpIn -------------------------------
(* The payload of one request (libhttpd/httpd.c): minute_httpd_in_read,     *)
(* called by the application and by minute_httpd_in_discard, over the input *)
(* ring of IoBuf, and minute_http_read (libhttp/http.c) on the trailers.    *)
(*                                                                          *)
(* A byte in the ring is its position in the stream that the client sends   *)
(* after the head of the request, so that what the application is given     *)
(* says where it came from.                                                 *)
EXTENDS Integers, Sequences, SequencesExt

CONSTANTS
    Size,       \* size of the input ring
    Modulus,    \* one more than the largest unsigned
    Radix,      \* of a chunk size; 16 in the code
    Requests,   \* what a client may send, records as in RequestType
    Starts,     \* where in the ring the head of the request may end
    Counts,     \* sizes of the application's buffer
    MaxCalls,   \* bound: reads the application makes
    MaxFaults   \* bound: calls of readv() that fail

HexDigits == 0 .. Radix - 1
CR    == -1
LF    == -2
Semi  == -3
Other == -4
Char == HexDigits \cup {CR, LF, Semi, Other}

\* `wire' goes on after the payload, which ends at `end'; `body' are the
\* positions of the payload's own bytes; a `sound' one is well formed, and one
\* that `fits' has no chunk line that is longer than the ring.
RequestType == [chunked : BOOLEAN, length : Nat, wire : Seq(Char),
                body : Seq(Nat), end : Nat, sound : BOOLEAN, fits : BOOLEAN]

---------------------------------------------------------------------------
(* What a request means: the stream read one character after the other,     *)
(* with no ring and no calls                                                *)

\* The states of a chunk line, and of the trailers and what follows.
LineMode == {"previous", "previous_cr", "size", "extension", "cr"}
TailMode == {"t_start", "t_line", "t_cr", "t_nl", "t_nlcr", "over", "t_bad"}

\* The grammar of a chunk line.
ChunkState(cs, c) ==
    CASE cs = "previous" /\ c = CR -> "previous_cr"
      [] cs \in {"previous", "previous_cr"} /\ c = LF -> "size"
      [] cs = "size" /\ c \in HexDigits -> "size"
      [] cs = "size" /\ c = Semi -> "extension"
      [] cs = "extension" /\ c \notin {CR, LF} -> "extension"
      [] cs \in {"size", "extension"} /\ c = CR -> "cr"
      [] cs \in {"size", "extension", "cr"} /\ c = LF -> "done"
      [] OTHER -> "error"

\* The trailers end with a line that is empty.
TailState(m, c) ==
    CASE m \in {"over", "t_bad"} -> m
      [] m \in {"t_line", "t_cr"} /\ c = LF -> "t_nl"
      [] m \in {"t_start", "t_nl", "t_nlcr"} /\ c = LF -> "over"
      [] m \in {"t_cr", "t_nlcr"} /\ c # LF -> "t_bad"
      [] m = "t_line" /\ c = CR -> "t_cr"
      [] m \in {"t_start", "t_nl"} /\ c = CR -> "t_nlcr"
      [] OTHER -> "t_line"

Digit(s, c) == IF s.mode = "size" /\ c \in HexDigits THEN s.val * Radix + c ELSE s.val

\* One more character: n have been read, `body' of them are the payload's own;
\* `left' of the chunk are to come, and after them there is another line, or
\* nothing.
Follow(s, c) ==
    CASE s.mode = "data" ->
            [s EXCEPT !.mode = IF s.left = 1 THEN s.after ELSE "data",
                      !.left = @ - 1, !.n = @ + 1, !.body = Append(@, s.n + 1)]
      [] s.mode \in LineMode /\ ChunkState(s.mode, c) = "done" ->
            [s EXCEPT !.mode = IF Digit(s, c) = 0 THEN "t_start" ELSE "data",
                      !.left = Digit(s, c), !.val = 0, !.n = @ + 1]
      [] s.mode \in LineMode /\ ChunkState(s.mode, c) = "error" -> [s EXCEPT !.mode = "bad"]
      [] s.mode \in LineMode /\ ChunkState(s.mode, c) \in LineMode ->
            [s EXCEPT !.mode = ChunkState(s.mode, c), !.val = Digit(s, c), !.n = @ + 1]
      [] s.mode \in TailMode \ {"over", "t_bad"} ->
            [s EXCEPT !.mode = TailState(s.mode, c), !.n = @ + 1]
      [] OTHER -> s

Stream == INSTANCE SeqFold WITH Step <- Follow

Begin(rq) ==
    [mode  |-> IF rq.chunked THEN "size" ELSE IF rq.length = 0 THEN "over" ELSE "data",
     after |-> IF rq.chunked THEN "previous" ELSE "over",
     left |-> rq.length, val |-> 0, n |-> 0, body |-> <<>>]

\* What the first i characters of the stream have come to.
After(rq, i) == Stream!Fold(Begin(rq), SubSeq(rq.wire, 1, i))

\* `body' and `end' are those of the stream, and every size in it is an int.
Laid(rq) ==
    LET all == After(rq, Len(rq.wire))
    IN  /\ IsPrefix(all.body, rq.body) /\ (all.mode \in TailMode => all.body = rq.body)
        /\ rq.sound => all.mode = "over" /\ all.n = rq.end
        /\ rq.length < Modulus \div 2
        /\ \A i \in 0 .. Len(rq.wire) :
              LET s == After(rq, i) IN s.val < Modulus \div 2 /\ s.left < Modulus \div 2

\* There is a trailer: the last chunk is not followed by the empty line.
Trailed(rq) ==
    \A i \in 1 .. Len(rq.wire) :
        After(rq, i - 1).mode = "t_start" => rq.wire[i] \notin {CR, LF}

ASSUME HttpInAssumption ==
    /\ Size \in Nat \ {0} /\ Radix \in Nat \ {0, 1}
    /\ Modulus \in Nat /\ Modulus % Size = 0 /\ 2 * Size < Modulus
    /\ Requests \subseteq RequestType /\ \A rq \in Requests : Laid(rq)
    /\ Starts \subseteq Nat /\ Counts \subseteq Nat \ {0}
    /\ \A rq \in Requests, s \in Starts : s + Len(rq.wire) < Modulus
    /\ MaxCalls \in Nat /\ MaxFaults \in Nat

VARIABLES
    req,          \* resp->rq, and what the client sends
    read, write, data, eof, out, broken,   \* state->in, as in IoBuf
    pending,      \* resp->in.pending
    rqs,          \* the parser of the trailers
    at,           \* where the code is
    buf,          \* size of the caller's buffer; 0: the NULL of the discard
    \* history and bounds
    start,        \* offset at which the payload begins
    arrived,      \* bytes of req.wire that have been put in the ring
    delivered,    \* what the application has been given
    ended,        \* a read of the application has returned 0
    failed,       \* minute_httpd_in_read has returned -1
    calls, faults
ring    == <<read, write, data, eof, out, broken>>
history == <<start, arrived, delivered, calls, faults>>
vars    == <<req, ring, pending, rqs, at, buf, history, ended, failed>>

Ring == INSTANCE IoBuf WITH Byte <- Nat, Strings <- {}, ReadSizes <- Counts

PENDING_INIT  == -1
PENDING_EOF   == -2
PENDING_ERROR == -3

\* An unsigned value assigned to an int.
AsInt(v) == IF v < Modulus \div 2 THEN v ELSE v - Modulus

Least(a, b) == IF a < b THEN a ELSE b

\* The bytes of the ring from offset o on, as the loops see them: there are none
\* unless the offsets compare as numbers.
CharAt(p)  == IF p \in DOMAIN req.wire THEN req.wire[p] ELSE Other
Unread(o)  == [i \in 1 .. IF o < write THEN write - o ELSE 0
                |-> CharAt(data[Ring!Index(o + i - 1)])]

---------------------------------------------------------------------------
(* One character of a chunk line, and of the trailers                      *)

ChunkChar(s, c) ==
    IF s.cs \in {"done", "error"} THEN s
    ELSE [cs  |-> ChunkState(s.cs, c), n |-> s.n + 1,
          val |-> IF s.cs = "size" /\ c \in HexDigits
                  THEN (s.val * Radix + c) % Modulus ELSE s.val]

\* The loop over characters.  (The sets have one member: this way TLC evaluates
\* each state once.)
EachChunkChar(S, c) == {ChunkChar(s, c) : s \in S}
Scan == INSTANCE SeqFold WITH Step <- EachChunkChar

\* The scan starts over from the first unread byte with every call.
ChunkLine ==
    LET first == [cs |-> IF pending = 0 THEN "previous" ELSE "size", val |-> 0, n |-> 0]
    IN  CHOOSE s \in Scan!Fold({first}, Unread(read)) : TRUE

\* A mutant of ParserDone: one more line end is waited for.
ParserDoneLate(s) == s.nl > 2

ParserDone(s) == s.nl > 1
ParserOver(s) == ParserDone(s) \/ s.st = "error"

\* minute_http_read on trailers.  `line' stands for the states in a header line,
\* where only its end matters here; m is the next offset to look at, b the one
\* up to which the ring is released.  The parser starts in a line, not at the
\* beginning of one.
TrailerChar(s, c) ==
    IF ParserOver(s) THEN s
    ELSE [st |-> CASE c = LF -> "nl"
                   [] s.st = "cr" /\ c # LF -> "error"
                   [] s.st # "cr" /\ c = CR -> "cr"
                   [] OTHER -> "line",
          nl |-> IF c = LF THEN s.nl + 1
                 ELSE IF s.st = "nl" /\ c # CR THEN 0 ELSE s.nl,
          m  |-> s.m + 1,
          b  |-> IF s.st = "cr" THEN s.b ELSE s.m]

EachTrailerChar(S, c) == {TrailerChar(s, c) : s \in S}
Parse == INSTANCE SeqFold WITH Step <- EachTrailerChar

Trailers == CHOOSE s \in Parse!Fold({rqs}, Unread(rqs.m)) : TRUE

---------------------------------------------------------------------------
(* The callers                                                             *)

Start ==
    /\ at = "app" /\ UNCHANGED <<req, ring, pending, rqs, ended, failed>>
    /\ at' = "read"

\* The application reads, from payload or response.
AppRead(count) ==
    /\ Start
    /\ calls < MaxCalls /\ calls' = calls + 1
    /\ buf' = count
    /\ UNCHANGED <<start, arrived, delivered, faults>>

\* It has had enough: minute_httpd_in_discard reads the rest.
AppDone ==
    /\ Start
    /\ buf' = 0
    /\ UNCHANGED history

\* minute_httpd_in_read returns r; the discard goes on while it is positive.
Return(r) ==
    /\ at' = IF buf > 0 THEN "app" ELSE IF r > 0 THEN "read" ELSE "done"
    /\ ended' = (ended \/ (buf > 0 /\ r = 0))
    /\ failed' = (failed \/ r < 0)

---------------------------------------------------------------------------
(* The loop of minute_httpd_in_read                                        *)

Reading == at = "read" /\ UNCHANGED <<req, buf, start, arrived, calls, faults>>
InLine  == pending \in {0, PENDING_INIT}

Over ==
    /\ Reading /\ pending <= PENDING_EOF
    /\ Return(0)
    /\ UNCHANGED <<ring, pending, rqs, delivered>>

\* What the buffer of the caller holds after minute_iobuf_read: where the copy
\* has left the ring, bytes that are no part of it (0).
Taken(o) == o.data \o [i \in 1 .. o.ret - Len(o.data) |-> 0]

\* A mutant of Copy: what has been read is not taken off `pending'.
CopyUncounted ==
    /\ Reading /\ pending > 0 /\ read < write /\ buf > 0
    /\ Ring!Read(Least(pending, buf))
    /\ UNCHANGED pending
    /\ delivered' = delivered \o Taken(out')
    /\ Return(out'.ret)
    /\ UNCHANGED rqs

Copy ==
    /\ Reading /\ pending > 0 /\ read < write /\ buf > 0
    /\ Ring!Read(Least(pending, buf))
    /\ pending' = pending - out'.ret
    /\ delivered' = delivered \o Taken(out')
    /\ Return(out'.ret)
    /\ UNCHANGED rqs

\* A mutant of Skip: all that is in the ring, also what follows the payload.
SkipAll ==
    /\ Reading /\ pending > 0 /\ read < write /\ buf = 0
    /\ LET r == write - read
       IN  read' = read + r /\ pending' = pending - r /\ Return(r)
    /\ UNCHANGED <<write, data, eof, out, broken, rqs, delivered>>

Skip ==
    /\ Reading /\ pending > 0 /\ read < write /\ buf = 0
    /\ LET r == Least(Least(pending, Size), write - read)
       IN  read' = read + r /\ pending' = pending - r /\ Return(r)
    /\ UNCHANGED <<write, data, eof, out, broken, rqs, delivered>>

\* The payload is not chunked and has come to its end, or there is none.
Plain ==
    /\ Reading /\ InLine /\ ~req.chunked
    /\ pending' = PENDING_EOF
    /\ Return(0)
    /\ UNCHANGED <<ring, rqs, delivered>>

BadLine ==
    /\ Reading /\ InLine /\ req.chunked /\ ChunkLine.cs = "error"
    /\ pending' = PENDING_ERROR
    /\ Return(-1)
    /\ UNCHANGED <<ring, rqs, delivered>>

Line ==
    /\ Reading /\ InLine /\ req.chunked /\ ChunkLine.cs = "done"
    /\ read' = Ring!Plus(read, ChunkLine.n)
    /\ UNCHANGED <<write, data, eof, out, broken, delivered, ended, failed>>

Chunk ==
    /\ Line /\ ChunkLine.val # 0
    /\ pending' = AsInt(ChunkLine.val)
    /\ UNCHANGED <<at, rqs>>

LastChunk ==
    /\ Line /\ ChunkLine.val = 0
    /\ pending' = PENDING_EOF
    /\ rqs' = [st |-> "line", nl |-> 0, m |-> read', b |-> read']
    /\ at' = IF write # read' THEN "trailer" ELSE "trailerfd"

\* The ring holds no byte of the chunk, or no whole chunk line.
More ==
    /\ Reading
    /\ \/ pending > 0 /\ ~ read < write
       \/ InLine /\ req.chunked /\ ChunkLine.cs \notin {"done", "error"}
    /\ at' = "readfd"
    /\ UNCHANGED <<ring, pending, rqs, delivered, ended, failed>>

---------------------------------------------------------------------------
(* minute_iobuf_readfd, in minute_httpd_in_read or, for the trailers, in    *)
(* minute_httpd_read_request                                                *)

Fd == at \in {"readfd", "trailerfd"} /\ UNCHANGED <<req, rqs, buf, start, delivered, calls>>

FdData(n) ==
    /\ Fd /\ ~eof /\ arrived + n <= Len(req.wire)
    /\ Ring!ReadFd([i \in 1 .. n |-> arrived + i])
    /\ arrived' = arrived + n
    /\ at' = IF at = "readfd" THEN "read" ELSE "trailer"
    /\ UNCHANGED <<pending, ended, failed, faults>>

\* A mutant of FdEnd: the end of the stream is not told from an error.
FdEndIgnored ==
    /\ Fd /\ Ring!ReadFdEnd
    /\ IF at = "readfd"
       THEN at' = "read" /\ UNCHANGED <<pending, ended, failed>>
       ELSE UNCHANGED pending /\ Return(-1)
    /\ UNCHANGED <<arrived, faults>>

\* The client closes, having sent all or not.
FdEnd ==
    /\ Fd /\ Ring!ReadFdEnd
    /\ IF at = "readfd" THEN pending' = PENDING_EOF /\ Return(0)
                        ELSE UNCHANGED pending /\ Return(-1)
    /\ UNCHANGED <<arrived, faults>>

\* A full ring or an error of readv: in_read goes round its loop, the parser of
\* the trailers is given up (status 414).
FdFail ==
    /\ Fd
    /\ \/ Ring!ReadFdFull /\ UNCHANGED faults
       \/ faults < MaxFaults /\ Ring!ReadFdError /\ faults' = faults + 1
    /\ IF at = "readfd" THEN at' = "read" /\ UNCHANGED <<ended, failed>>
                        ELSE Return(-1)
    /\ UNCHANGED <<pending, arrived>>

---------------------------------------------------------------------------
(* minute_http_read                                                        *)

Parsing == at = "trailer" /\ UNCHANGED <<req, write, data, eof, out, broken, pending, buf, history>>

TrailersMore ==
    /\ Parsing /\ ~ParserOver(Trailers)
    /\ rqs' = Trailers /\ read' = Trailers.b
    /\ at' = "trailerfd"
    /\ UNCHANGED <<ended, failed>>

TrailersDone ==
    /\ Parsing /\ ParserDone(Trailers)
    /\ rqs' = Trailers /\ read' = Trailers.m
    /\ Return(0)

TrailersBad ==
    /\ Parsing /\ Trailers.st = "error"
    /\ Return(-1)
    /\ UNCHANGED <<rqs, read>>

---------------------------------------------------------------------------
\* The head has been parsed, and minute_httpd_start has set `pending'; the ring
\* may hold what follows it already.
Init ==
    /\ req \in Requests
    /\ start \in Starts
    /\ arrived \in 0 .. Least(Size, Len(req.wire))
    /\ read = start /\ write = start + arrived
    /\ data = [i \in 0 .. Size - 1 |->
                 IF (i - start) % Size < arrived THEN ((i - start) % Size) + 1 ELSE 0]
    /\ eof = FALSE /\ broken = FALSE /\ out = Ring!Result(0, <<>>)
    /\ pending = IF req.chunked THEN PENDING_INIT ELSE AsInt(req.length)
    /\ rqs = [st |-> "line", nl |-> 0, m |-> 0, b |-> 0]
    /\ at = "app" /\ buf = 0
    /\ delivered = <<>> /\ ended = FALSE /\ failed = FALSE
    /\ calls = 0 /\ faults = 0

App     == (\E count \in Counts : AppRead(count)) \/ AppDone
InRead  == Over \/ Copy \/ Skip \/ Plain \/ BadLine \/ Chunk \/ LastChunk \/ More
Trailer == TrailersMore \/ TrailersDone \/ TrailersBad
Data    == \E n \in 1 .. Size : FdData(n)

\* What follows a call that breaks the ring is not described.
Next ==
    /\ ~broken
    /\ App \/ InRead \/ Trailer \/ Data \/ FdEnd \/ FdFail

Spec == Init /\ [][Next]_vars

\* The process runs, and what the client sends arrives; nobody has to close.
FairSpec == Spec /\ WF_vars(App \/ InRead \/ Trailer) /\ WF_vars(Data)

---------------------------------------------------------------------------
(* Properties                                                              *)

\* The state of a request: the ring is IoBuf's, the parser counts line ends up
\* to two, `pending' is an int.
TypeOK ==
    /\ Ring!TypeOK
    /\ req \in Requests /\ start \in Starts /\ arrived \in 0 .. Len(req.wire)
    /\ pending \in -Modulus .. Modulus
    /\ rqs \in [st : {"line", "cr", "nl", "error"}, nl : 0 .. 2,
                m : 0 .. Modulus - 1, b : 0 .. Modulus - 1]
    /\ at \in {"app", "read", "readfd", "trailer", "trailerfd", "done"}
    /\ buf \in Counts \cup {0}
    /\ delivered \in Seq(Nat) /\ ended \in BOOLEAN /\ failed \in BOOLEAN
    /\ calls \in 0 .. MaxCalls /\ faults \in 0 .. MaxFaults

InOrder == IsPrefix(delivered, req.body)

\* The application is given the bytes of the payload, each once and in order,
\* and the end when it has had them all or the client has closed, however the
\* stream is split and whatever its buffer: where the calls on the ring are
\* those the ring can serve (broken).
Delivered ==
    ~broken => InOrder /\ (ended => delivered = req.body \/ eof \/ failed)

\* httpd.h 60-63: a read gives the application the payload of the request.  The
\* code does not keep this when the ring is full and the buffer takes all of it.
DeliveredAlways == InOrder

\* A request that is read and discarded leaves the ring at the byte where the
\* next one begins, never beyond it, and is refused only if it is malformed
\* (httpd.h 10-11: "all requests (including pipelined ones) on a single connection").
NextBegins ==
    ~broken /\ req.sound =>
        /\ read <= start + req.end
        /\ failed => eof
        /\ at = "done" /\ ~eof => read = start + req.end

\* Every request whose chunk lines fit in the ring is finished once the client
\* has sent it, whatever the application reads of it.
Finishes == req.fits ~> (at = "done" \/ broken)
====
