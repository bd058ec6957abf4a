------------------------------- MODULE Httpd -------------------------------
(* One connection served by minute_httpd_handle (libhttpd/httpd.c), called  *)
(* over and over by minuted_tap_handle (minuted/tap.c): what is asked of    *)
(* the application, and what goes out on the socket, piece by piece.        *)
(*                                                                          *)
(* Output is a sequence of tokens: a status line, a header line, the blank  *)
(* line, a piece of body, and the lines of the chunked framing.  The output *)
(* ring holds OutCap of them.  Every write may fail for good, and a writev  *)
(* may take only a part of what it is given.                                *)
EXTENDS Integers, Sequences

CONSTANTS
    Requests,     \* requests a client can make, records as in RequestType
    OutCap,       \* tokens that fit in the output ring
    Partial,      \* whether writev() may write less than asked (a signal)
    MaxRequests,  \* bound: requests on the connection
    MaxHeaders,   \* bound: headers the application adds to one response
    MaxWrites     \* bound: calls of output->write and flush by one response

RequestType == [method : {"get", "head"}, version : {10, 11},
                connection : {"none", "keep", "close"}, expect : BOOLEAN]

ASSUME HttpdAssumption ==
    /\ Requests \subseteq RequestType
    /\ OutCap \in Nat \ {0} /\ Partial \in BOOLEAN
    /\ MaxRequests \in Nat /\ MaxHeaders \in Nat /\ MaxWrites \in Nat

VARIABLES
    phase,    \* where minute_httpd_handle is
    asked,    \* the requests read so far; the last one is resp.rq
    status,   \* the variable status
    keep,     \* httpd_connection_keep, which includes httpd_te_chunked
    out,      \* state->out
    job,      \* the arguments of the minute_httpd_chunk call being executed
    after,    \* the phase that follows it
    outfd,    \* FALSE once state->outfd is closed
    \* history and bounds
    wire,     \* every token that reached the socket
    wrote,    \* pieces of body the application has written for this request
    headers,  \* headers it has added
    calls,    \* calls of output->write and output->flush it has made
    torn      \* requests for which a chunk was written in part
vars == <<phase, asked, status, keep, out, job, after, outfd,
          wire, wrote, headers, calls, torn>>

n  == Len(asked)
rq == asked[n]
request == <<asked, status, keep>>
history == <<wrote, headers, calls, torn>>

Phase == {"idle", "header", "payload", "status", "connection", "encoding",
          "blank", "response", "flush", "end", "discard", "closed", "ended",
          "errstatus", "errhead", "errblank", "errbody", "errflush", "writev"}

\* 204, 205 and 304 have no body.
Bodiless == {204, 205, 304}
NoJob == [chunked |-> FALSE, extra |-> <<>>]

\* History: a token knows the request it answers, and its method.
Token(kind, value) == [kind |-> kind, value |-> value, rq |-> n, method |-> rq.method]
Tokens(kind, lo, hi) == [i \in 1 .. hi - lo + 1 |-> Token(kind, lo + i - 1)]

---------------------------------------------------------------------------
(* Output: write() and minute_httpd_chunk                                  *)

\* write(state->outfd, ..) of one line; a failure closes the descriptor, and
\* on a closed one nothing can be written.
WriteLine(token) ==
    \/ outfd /\ wire' = Append(wire, token) /\ UNCHANGED outfd
    \/ outfd' = FALSE /\ UNCHANGED wire

\* minute_httpd_chunk(extra, Len(extra), chunked), and then phase `next'.
Chunk(extra, chunked, next) ==
    IF out \o extra = <<>>
    THEN phase' = next /\ UNCHANGED <<job, after>>
    ELSE /\ phase' = "writev"
         /\ job' = [chunked |-> chunked, extra |-> extra]
         /\ after' = next

\* A mutant of Output: the test for room forgets what is to be added.
OutputUnbounded(tokens, chunked, next) ==
    IF Len(out) > OutCap
    THEN Chunk(tokens, chunked, next) /\ UNCHANGED out
    ELSE out' = out \o tokens /\ phase' = next /\ UNCHANGED <<job, after>>

\* minute_httpd_output: into the ring if it fits, else out with the ring.
Output(tokens, chunked, next) ==
    IF Len(out) + Len(tokens) > OutCap
    THEN Chunk(tokens, chunked, next) /\ UNCHANGED out
    ELSE out' = out \o tokens /\ phase' = next /\ UNCHANGED <<job, after>>

\* The five pieces given to writev().
Body  == out \o job.extra
Total == Len(Body)
Lines == IF job.chunked
         THEN <<Token("size", Total)>> \o Body \o <<Token("nl", 0)>>
         ELSE Body
Prefix == IF job.chunked THEN 1 ELSE 0
AtLeastZero(i) == IF i < 0 THEN 0 ELSE i

\* A mutant of Writev: the retry starts the caller's pieces over again.
WritevRepeats(r, noticed) ==
    /\ phase = "writev" /\ outfd
    /\ r \in 1 .. Len(Lines)
    /\ r < Len(Lines) => Partial
    /\ IF r >= Prefix + Total THEN ~noticed ELSE job.chunked \/ noticed
    /\ wire' = wire \o SubSeq(Lines, 1, r)
    /\ out' = SubSeq(out, r - Prefix + 1, Len(out))
    /\ IF noticed
       THEN job' = [chunked |-> FALSE, extra |-> job.extra] /\ UNCHANGED phase
       ELSE job' = NoJob /\ phase' = after
    /\ torn' = IF job.chunked /\ r < Len(Lines) THEN torn \cup {n} ELSE torn
    /\ UNCHANGED <<request, after, outfd, wrote, headers, calls>>

\* writev() takes r of the lines.  What is left is retried, without framing, if
\* the code notices: it compares the bytes written, framing included, with the
\* bytes of the body.  When all the body is out, or when the size line makes up
\* for what is missing, it does not.
Writev(r, noticed) ==
    /\ phase = "writev" /\ outfd
    /\ r \in 1 .. Len(Lines)
    /\ r < Len(Lines) => Partial
    /\ IF r >= Prefix + Total THEN ~noticed ELSE job.chunked \/ noticed
    /\ wire' = wire \o SubSeq(Lines, 1, r)
    /\ LET ringLeft == SubSeq(out, r - Prefix + 1, Len(out))
           extraLeft == SubSeq(job.extra, AtLeastZero(r - Prefix - Len(out)) + 1,
                               Len(job.extra))
       IN  /\ out' = ringLeft
           /\ IF noticed
              THEN job' = [chunked |-> FALSE, extra |-> extraLeft] /\ UNCHANGED phase
              ELSE job' = NoJob /\ phase' = after
    /\ torn' = IF job.chunked /\ r < Len(Lines) THEN torn \cup {n} ELSE torn
    /\ UNCHANGED <<request, after, outfd, wrote, headers, calls>>

\* Not even the size line is out whole: minute_httpd_chunk gives up, the ring
\* keeps what it has and the rest is dropped.
WritevPrefix ==
    /\ phase = "writev" /\ outfd /\ job.chunked /\ Partial
    /\ wire' = Append(wire, Token("fragment", 0))
    /\ torn' = torn \cup {n}
    /\ phase' = after /\ job' = NoJob
    /\ UNCHANGED <<request, out, after, outfd, wrote, headers, calls>>

\* writev() fails: the descriptor is closed, the ring keeps what it has.
WritevError ==
    /\ phase = "writev"
    /\ outfd' = FALSE
    /\ phase' = after /\ job' = NoJob
    /\ UNCHANGED <<request, out, after, wire, history>>

---------------------------------------------------------------------------
(* Reading a request                                                       *)

\* minute_httpd_start: the connection stays open by default in 1.1, on demand
\* before.
KeepAlive(r) == IF r.version >= 11 THEN r.connection # "close" ELSE r.connection = "keep"

\* Bound: nothing more is asked on a stream that has been torn.
NextRequest(r) ==
    /\ phase = "idle" /\ n < MaxRequests /\ torn = {}
    /\ asked' = Append(asked, r)
    /\ wrote' = 0 /\ headers' = 0 /\ calls' = 0

\* A request is parsed; Server and Date go to the cleared ring.
ReadRequest(r) ==
    /\ NextRequest(r)
    /\ keep' = KeepAlive(r)
    /\ status' = 0
    /\ out' = <<[kind |-> "header", value |-> 0, rq |-> n + 1, method |-> r.method]>>
    /\ phase' = "header"
    /\ UNCHANGED <<job, after, outfd, wire, torn>>

\* The request is malformed or too long, or the descriptor cannot be read.
ReadBad(r) ==
    /\ NextRequest(r)
    /\ keep' = FALSE
    /\ status' = 400
    /\ out' = <<>>
    /\ phase' = "errstatus"
    /\ UNCHANGED <<job, after, outfd, wire, torn>>

\* The client has closed the connection: httpd_client_no_request.
ReadEnd ==
    /\ phase = "idle"
    /\ out' = <<>>
    /\ phase' = "ended"
    /\ UNCHANGED <<request, job, after, outfd, wire, history>>

---------------------------------------------------------------------------
(* The callbacks of the application                                        *)

\* head->string: in `header' and `payload'.
AppHeader ==
    /\ phase \in {"header", "payload"} /\ headers < MaxHeaders
    /\ headers' = headers + 1
    /\ Output(<<Token("header", headers + 1)>>, FALSE, phase)
    /\ UNCHANGED <<request, outfd, wire, wrote, calls, torn>>

\* app->header returns the final status, or 100 to have the payload read.
AppHeaderDone(s) ==
    /\ phase = "header"
    /\ status' = s
    /\ phase' = IF s = 100 THEN "payload" ELSE "status"
    /\ IF s = 100 /\ rq.expect
       THEN WriteLine(Token("continue", 0))
       ELSE UNCHANGED <<outfd, wire>>
    /\ UNCHANGED <<asked, keep, out, job, after, history>>

AppPayloadDone(s) ==
    /\ phase = "payload"
    /\ status' = s
    /\ phase' = "status"
    /\ UNCHANGED <<asked, keep, out, job, after, outfd, wire, history>>

\* output->write of k pieces.
AppWrite(k) ==
    /\ phase = "response" /\ calls < MaxWrites
    /\ calls' = calls + 1
    /\ wrote' = wrote + k
    /\ Output(Tokens("data", wrote + 1, wrote + k), keep, "response")
    /\ UNCHANGED <<request, outfd, wire, headers, torn>>

\* output->flush
AppFlush ==
    /\ phase = "response" /\ calls < MaxWrites
    /\ calls' = calls + 1
    /\ Chunk(<<>>, keep, "response")
    /\ UNCHANGED <<request, out, outfd, wire, wrote, headers, torn>>

\* app->response returns.  The mark that tells whether it has written anything
\* is taken after the call, so any failure gets the standard body, if that
\* fits in the ring.
AppResponseDone(failed) ==
    /\ phase = "response"
    /\ out' = IF failed /\ Len(out) < OutCap
              THEN Append(out, Token("standard", 0)) ELSE out
    /\ phase' = "flush"
    /\ UNCHANGED <<request, job, after, outfd, wire, wrote, headers, calls, torn>>

---------------------------------------------------------------------------
(* The rest of minute_httpd_handle                                         *)

WriteStatus ==
    /\ phase = "status"
    /\ WriteLine(Token("status", status))
    /\ phase' = "connection"
    /\ UNCHANGED <<request, out, job, after, history>>

\* A mutant of AddConnection: an older client is not told that the connection
\* stays open.
AddConnectionClose ==
    /\ phase = "connection"
    /\ IF ~keep /\ rq.version >= 11
       THEN Output(<<Token("connection", 0)>>, FALSE, "encoding")
       ELSE phase' = "encoding" /\ UNCHANGED <<out, job, after>>
    /\ UNCHANGED <<request, outfd, wire, history>>

\* Connection: keep-alive before 1.1, close in 1.1, or not needed.
AddConnection ==
    /\ phase = "connection"
    /\ IF keep # (rq.version >= 11)
       THEN Output(<<Token("connection", 0)>>, FALSE, "encoding")
       ELSE phase' = "encoding" /\ UNCHANGED <<out, job, after>>
    /\ UNCHANGED <<request, outfd, wire, history>>

\* Transfer-Encoding: chunked
AddEncoding ==
    /\ phase = "encoding"
    /\ IF keep
       THEN Output(<<Token("chunked", 0)>>, FALSE, "blank")
       ELSE phase' = "blank" /\ UNCHANGED <<out, job, after>>
    /\ UNCHANGED <<request, outfd, wire, history>>

\* The headers go out; the application is not asked for a body that is not to
\* be sent.
EndHeaders ==
    /\ phase = "blank"
    /\ LET silent == rq.method = "head" \/ status \in Bodiless
       IN  Chunk(<<Token("blank", 0)>>, FALSE, IF silent THEN "flush" ELSE "response")
    /\ UNCHANGED <<request, out, outfd, wire, wrote, headers, calls, torn>>

\* A mutant of Flush: what is left of the body goes out unframed.
FlushPlain ==
    /\ phase = "flush"
    /\ Chunk(<<>>, FALSE, "end")
    /\ UNCHANGED <<request, out, outfd, wire, history>>

Flush ==
    /\ phase = "flush"
    /\ Chunk(<<>>, keep, "end")
    /\ UNCHANGED <<request, out, outfd, wire, history>>

\* minute_httpd_chunk_end: the last chunk.
EndBody ==
    /\ phase = "end"
    /\ IF keep THEN WriteLine(Token("last", 0)) ELSE UNCHANGED <<outfd, wire>>
    /\ phase' = "discard"
    /\ UNCHANGED <<request, out, job, after, history>>

\* The rest of the payload is thrown away; httpd_client_ok_open makes
\* minuted_tap_handle ask for another request.
Return ==
    /\ phase = "discard"
    /\ phase' = IF keep THEN "idle" ELSE "closed"
    /\ UNCHANGED <<request, out, job, after, outfd, wire, history>>

(* The path of a request that could not be read                            *)

ErrorStatus ==
    /\ phase = "errstatus"
    /\ WriteLine(Token("status", status))
    /\ phase' = "errhead"
    /\ UNCHANGED <<request, out, job, after, history>>

\* Server, Date, and Connection: close in 1.1.
ErrorHeaders ==
    /\ phase = "errhead"
    /\ Output(<<Token(IF rq.version = 11 THEN "connection" ELSE "header", 0)>>,
              FALSE, "errblank")
    /\ UNCHANGED <<request, outfd, wire, history>>

ErrorEndHeaders ==
    /\ phase = "errblank"
    /\ Chunk(<<Token("blank", 0)>>, FALSE, "errbody")
    /\ UNCHANGED <<request, out, outfd, wire, history>>

\* The standard body, if it fits.
ErrorBody ==
    /\ phase = "errbody"
    /\ out' = IF Len(out) < OutCap THEN Append(out, Token("standard", 0)) ELSE out
    /\ phase' = "errflush"
    /\ UNCHANGED <<request, job, after, outfd, wire, wrote, headers, calls, torn>>

\* Flushed, and the connection is closed after app->error.
ErrorFlush ==
    /\ phase = "errflush"
    /\ Chunk(<<>>, FALSE, "closed")
    /\ UNCHANGED <<request, out, outfd, wire, history>>

---------------------------------------------------------------------------
Init ==
    /\ phase = "idle" /\ asked = <<>> /\ status = 0 /\ keep = FALSE
    /\ out = <<>> /\ job = NoJob /\ after = "idle" /\ outfd = TRUE
    /\ wire = <<>> /\ wrote = 0 /\ headers = 0 /\ calls = 0
    /\ torn = {}

\* The steps of minute_httpd_handle and of the callbacks it is waiting for.
Handle ==
    \/ AppHeader \/ AppFlush
    \/ \E s \in {100, 200, 204} : AppHeaderDone(s)
    \/ \E s \in {200, 204} : AppPayloadDone(s)
    \/ \E k \in 1 .. 2 : AppWrite(k)
    \/ \E failed \in BOOLEAN : AppResponseDone(failed)
    \/ WriteStatus \/ AddConnection \/ AddEncoding \/ EndHeaders
    \/ Flush \/ EndBody \/ Return
    \/ ErrorStatus \/ ErrorHeaders \/ ErrorEndHeaders \/ ErrorBody \/ ErrorFlush
    \/ \E r \in 1 .. OutCap + 4, noticed \in BOOLEAN : Writev(r, noticed)
    \/ WritevPrefix \/ WritevError

Next ==
    \/ Handle
    \/ \E r \in Requests : ReadRequest(r)
    \/ \E r \in Requests : ReadBad(r)
    \/ ReadEnd

Spec == Init /\ [][Next]_vars

---------------------------------------------------------------------------
(* What the client makes of the stream                                     *)

\* The response t is the first token of has no body.  That to a malformed
\* request has one: what its method was need not be known.
Silent(t) == t.value # 400 /\ (t.value \in Bodiless \/ t.method = "head")

\* A client reading the stream: the response it is in, where in it, what is
\* left of the current chunk, how the body is delimited.  It puts up with two
\* things: an interim status that no blank line ends, and a last chunk after a
\* response that has no body.
ClientStart == [rq |-> 0, at |-> "over", left |-> 0, chunked |-> FALSE, silent |-> FALSE]
Lost        == [rq |-> 0, at |-> "bad", left |-> 0, chunked |-> FALSE, silent |-> FALSE]

NewResponse(t) ==
    [rq |-> t.rq, at |-> IF t.kind = "continue" THEN "interim" ELSE "head", left |-> 0,
     chunked |-> FALSE, silent |-> Silent(t)]

Begins(c, t) ==
    \/ c.at = "over" /\ t.rq = c.rq + 1 /\ t.kind \in {"continue", "status"}
    \/ c.at = "interim" /\ t.rq = c.rq /\ t.kind = "status"

BodyKinds == {"data", "standard"}

\* The tokens there may be in each place of a response.
Expected(c) ==
    ({"head"} \X {"header", "connection", "chunked", "blank"})
    \cup ({"chunks"} \X {"size", "last"})
    \cup ({"chunk"} \X IF c.left > 0 THEN BodyKinds ELSE {"nl"})
    \cup ({"stream"} \X BodyKinds)
    \cup ({"over"} \X IF c.silent THEN {"last"} ELSE {})

\* The place a line leads to.
PlaceAfter(c, kind) ==
    IF kind = "size" THEN "chunk"
    ELSE IF kind = "nl" \/ (kind = "blank" /\ ~c.silent /\ c.chunked) THEN "chunks"
    ELSE IF kind = "last" \/ (kind = "blank" /\ c.silent) THEN "over"
    ELSE IF kind = "blank" THEN "stream" ELSE c.at

Client(c, t) ==
    IF Begins(c, t) THEN NewResponse(t)
    ELSE IF c.rq = t.rq /\ <<c.at, t.kind>> \in Expected(c)
    THEN [rq |-> c.rq, at |-> PlaceAfter(c, t.kind),
          left |-> IF t.kind = "size" THEN t.value
                   ELSE IF c.at = "chunk" /\ c.left > 0 THEN c.left - 1 ELSE c.left,
          chunked |-> c.chunked \/ t.kind = "chunked", silent |-> c.silent]
    ELSE Lost

Reading == INSTANCE SeqFold WITH Step <- Client

Seen == Reading!Fold(ClientStart, wire)

---------------------------------------------------------------------------
(* Properties                                                              *)

\* Every variable keeps its type: the output ring never holds more than it
\* has room for, and chunks are torn only in requests that were read.
TypeOK ==
    /\ phase \in Phase /\ after \in Phase
    /\ n \in 0 .. MaxRequests /\ \A i \in 1 .. n : asked[i] \in Requests
    /\ status \in 0 .. 599 /\ keep \in BOOLEAN /\ outfd \in BOOLEAN
    /\ Len(out) <= OutCap
    /\ job.chunked \in BOOLEAN
    /\ wrote \in 0 .. 2 * MaxWrites
    /\ headers \in 0 .. MaxHeaders /\ calls \in 0 .. MaxWrites
    /\ torn \subseteq 1 .. n

\* Whatever the application writes and flushes, however the ring overflows,
\* and wherever the descriptor fails: the stream is a prefix of one well
\* framed response per request, in order, and when the server waits for the
\* next request the client knows that the response is over.  Not once a chunk
\* has been written in part, which minute_httpd_chunk does not mend.
Framed ==
    torn = {} =>
        /\ Seen.at # "bad"
        /\ phase = "idle" /\ outfd => Seen.at = "over" /\ Seen.rq = n
        /\ phase = "closed" /\ outfd =>
              Seen.at \in {"stream", "over"} /\ Seen.rq = n /\ ~Seen.chunked

\* The pieces the application has written to output->write are, in order and
\* once each, those on the wire, in the ring, and in the write being made; and
\* none is left behind when the handler returns.
Pieces(s, k) == {i \in 1 .. Len(s) : s[i].rq = k /\ s[i].kind = "data"}

Carries(s, k, count) ==
    /\ {s[i].value : i \in Pieces(s, k)} = 1 .. count
    /\ \A i, j \in Pieces(s, k) : i < j => s[i].value < s[j].value

NoLoss ==
    torn = {} /\ outfd /\ n > 0 =>
        /\ Carries(wire \o Body, n, wrote)
        /\ phase \in {"end", "discard", "idle", "closed"} => Body = <<>>

\* The client and the server agree on whether the connection is kept: the
\* server goes on reading exactly when the response it has sent says so, by
\* the version of the request and the presence of a Connection header.
Announced ==
    (rq.version = 11) # (\E i \in DOMAIN wire : wire[i].rq = n /\ wire[i].kind = "connection")

ClientAgrees ==
    n > 0 /\ outfd =>
        /\ phase = "idle" => Announced
        /\ phase = "closed" => ~Announced
=============================================================================
