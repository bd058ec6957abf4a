-------------------------------- MODULE Tap --------------------------------
(* A child of the server that serves connections with Tcl applications      *)
(* (minuted/tap.c, called back by minute_httpd_handle), from the sockets and *)
(* virtual hosts that Serve has set up.  One connection at a time is what a  *)
(* child serves; fork() has given it its own copy of everything, so it is    *)
(* enough to look at one child, within one round of the server.              *)
(* What parsing, framing and payload do is the subject of other modules.     *)
EXTENDS Serve, Headers

CONSTANTS
    Requests,     \* requests that are parsed, records as in RequestType
    Results,      \* first elements of what a proc returns; NotInteger, NoElement
    Asked, Added, \* names an application gives to get-header, to add-header
    Decimal,      \* the numbers that clients write: text -> Nat
    Modulus,      \* one more than the largest unsigned
    MaxRequests   \* bound: requests on a connection

NotInteger == -1
NoElement  == -2   \* the empty list

\* A header line is its name, its value and how it ends.
LineType    == STRING \X STRING \X {"CRLF", "LF"}
RequestType == [method : STRING, path : STRING, lines : Seq(LineType), keep : BOOLEAN]

\* The lines of a request with this name.
Lines(q, name) == {j \in DOMAIN q.lines : q.lines[j][1] = name}

\* A request that could not be parsed.
Bad == [method |-> "???", path |-> "<none>", lines |-> <<>>, keep |-> FALSE]

ASSUME TapAssumption ==
    /\ Requests \subseteq RequestType \ {Bad} /\ \A q \in Requests : q.path # None
    /\ Decimal \in [DOMAIN Decimal -> Nat] /\ Modulus \in Nat \ {0}
    \* (A Content-Length that is no number is refused by the parser.)
    /\ \A q \in Requests : \A j \in Lines(q, "Content-Length") : q.lines[j][2] \in DOMAIN Decimal
    /\ Results \subseteq Nat \cup {NotInteger, NoElement}
    /\ Asked \cup Added \subseteq ToSet(Alphabet) /\ MaxRequests \in Nat
    /\ {None, "default", "???", "<none>", "headers", "payload", "response"} \subseteq STRING

VARIABLES
    at,         \* where the child is
    listenId,   \* the socket of its connection
    parsed,     \* minute_httpd_response.rq: what the parser makes of some headers
    rqd,        \* tap_rq_data
    status,     \* the local variable of minute_httpd_handle
    \* history: of the connection, of the request
    asked, answered, log,
    called,     \* the last call of a proc
    result,     \* and what the last one to return has returned
    meta        \* the last use of the meta object
tapvars == <<at, listenId, parsed, rqd, status, asked, answered, log, called, result, meta>>
vars == <<servevars, tapvars>>

rq == Last(asked)

NoResult == [rq |-> 0, proc |-> None, code |-> 0]
NoCall   == [app |-> None, proc |-> None, path |-> None]
NoMeta   == [cmd |-> None, name |-> None, ok |-> TRUE, value |-> None, number |-> {}]

---------------------------------------------------------------------------
(* What the parser leaves of the header lines: flags and a number, and the *)
(* lines of the other headers it knows.  (See HttpParser; of a request that *)
(* cannot be parsed nobody is told.)                                       *)

NoRequest == [flags |-> {}, length |-> 0]

\* A mutant of Cleared: the record of the request before is taken over.
ClearedNot == parsed

\* The memset() of minute_httpd_handle.
Cleared == NoRequest

Interpreted == {"Connection", "Content-Length", "Expect", "Transfer-Encoding"}

\* The places of those with this number.  (The numbers above 31 are collected if the
\* build's shift goes round, see `wraps' in HttpParser.)
text(q, h) == {j \in DOMAIN q.lines :
                  /\ q.lines[j][1] \in Known(http_request_header_names) \ Interpreted
                  /\ HeaderNumber(q.lines[j][1]) = h}

\* What the first or the last of some lines says.
FirstOf(q, J) == q.lines[CHOOSE j \in J : \A k \in J : j <= k][2]
LastOf(q, J)  == q.lines[CHOOSE j \in J : \A k \in J : j >= k][2]

\* A length counts only if its line ends with \r\n, the last one overwrites the others.
lengthLines(q)  == {j \in Lines(q, "Content-Length") : q.lines[j][3] = "CRLF"}
chunkedLines(q) == {j \in Lines(q, "Transfer-Encoding") : q.lines[j][2] = "chunked"}

Interpret(was, q) ==
    [flags  |-> was.flags \cup (IF lengthLines(q) # {} THEN {"content_length"} ELSE {})
                        \cup (IF chunkedLines(q) # {} THEN {"chunked"} ELSE {}),
     length |-> IF lengthLines(q) # {} THEN Decimal[LastOf(q, lengthLines(q))] % Modulus
                ELSE was.length]

\* The value of the first line with this name.
Value(q, name) == IF Lines(q, name) = {} THEN None ELSE FirstOf(q, Lines(q, name))

---------------------------------------------------------------------------
(* minuted_tap_handle                                                      *)

rqd_init == [vhost |-> 0, host |-> None, path |-> None, method |-> "???",
             status |-> NoResult, code |-> 0]

\* Mutants of minuted_tap_reset: a field is forgotten.
minuted_tap_reset_status == [rqd_init EXCEPT !.status = rqd.status]
minuted_tap_reset_host   == [rqd_init EXCEPT !.host = rqd.host]

minuted_tap_reset == rqd_init

InChild == UNCHANGED servevars

\* A mutant of Accept: the loop variable of minuted_serve_processor after the loop.
AcceptLate ==
    /\ at = "idle" /\ mpc = "prefork"
    /\ listenId' \in {j + 1 : j \in DOMAIN ssocks}
    /\ at' = "read"
    /\ InChild /\ UNCHANGED <<parsed, rqd, status, asked, answered, log, called, result, meta>>

Accept ==
    /\ at = "idle" /\ mpc = "prefork"
    /\ listenId' \in DOMAIN ssocks
    /\ at' = "read"
    /\ InChild /\ UNCHANGED <<parsed, rqd, status, asked, answered, log, called, result, meta>>

Reading == at = "read" /\ InChild /\ UNCHANGED listenId
Fresh   == called' = NoCall /\ result' = NoResult /\ meta' = NoMeta

\* The client has closed: httpd_client_no_request, and no line in the log.
ReadNone ==
    /\ Reading /\ at' = "close" /\ rqd' = minuted_tap_reset /\ parsed' = Cleared
    /\ UNCHANGED <<status, asked, answered, log, called, result, meta>>

Read ==
    /\ Reading /\ Len(asked) < MaxRequests
    /\ \E q \in Requests :
          asked' = Append(asked, q) /\ parsed' = Interpret(Cleared, q)
    /\ at' = "head" /\ status' = 0 /\ Fresh
    /\ UNCHANGED <<rqd, answered, log>>

\* Answered by minute_httpd_handle itself, which returns the negated status.
ReadBad ==
    /\ Reading /\ Len(asked) < MaxRequests
    /\ asked' = Append(asked, Bad) /\ answered' = Append(answered, 400)
    /\ rqd' = [rqd EXCEPT !.code = 400] /\ parsed' = Cleared
    /\ at' = "end" /\ status' = 400 /\ Fresh
    /\ UNCHANGED log

\* minuted_tap_access.
Access ==
    [host   |-> IF rqd.host = None THEN "unknown" ELSE rqd.host,
     method |-> rqd.method,
     path   |-> IF rqd.path = None THEN "<none>" ELSE rqd.path,
     code   |-> rqd.code]

\* A request is over: its line is written, and then the next one or the end.
End ==
    /\ at = "end" /\ InChild
    /\ log' = Append(log, Access)
    /\ rqd' = minuted_tap_reset
    /\ at' = IF rq.keep THEN "read" ELSE "close"
    /\ UNCHANGED <<listenId, parsed, status, asked, answered, called, result, meta>>

Forget ==
    /\ at' = "idle" /\ listenId' = 1 /\ rqd' = rqd_init /\ status' = 0 /\ parsed' = NoRequest
    /\ asked' = <<>> /\ answered' = <<>> /\ log' = <<>> /\ Fresh
    /\ InChild

\* minuted_serve_processor closes the connection.
Close == at = "close" /\ Forget

---------------------------------------------------------------------------
(* The callbacks, at the places where minute_httpd_handle makes them       *)

InRequest == InChild /\ UNCHANGED <<listenId, parsed, asked, log>>

\* A proc of the virtual host is called; it has not used the meta object yet.
Call(v, proc, path) ==
    /\ called' = [app |-> vs[v].app, proc |-> proc, path |-> path]
    /\ meta' = NoMeta

hostLines(q) == text(q, http_rq_host)
vhosts  == vhostListen[listenId]
acthost ==
    LET lines == hostLines(rq)
    IN  IF lines # {} /\ LastOf(rq, lines) \in Keys(vhosts) THEN LastOf(rq, lines) ELSE "default"

\* minuted_tap_head, up to the proc it calls.
HeadersCall ==
    /\ at = "head" /\ InRequest
    /\ acthost \in Keys(vhosts) /\ acthost \in Keys(vhostMap)
    /\ rqd' = [rqd EXCEPT !.host = acthost, !.path = rq.path,
                          !.vhost = Lookup(vhostMap, acthost)]
    /\ Call(rqd'.vhost, "headers", rq.path)
    /\ at' = "headers"
    /\ UNCHANGED <<status, answered, result>>

\* There is no such virtual host, nor a default one; or it has no number.
HeadRefused ==
    /\ at = "head" /\ InRequest
    /\ ~ (acthost \in Keys(vhosts) /\ acthost \in Keys(vhostMap))
    /\ status' = IF acthost \in Keys(vhosts) THEN 500 ELSE 410
    /\ rqd' = [rqd EXCEPT !.host = acthost, !.path = rq.path,
                          !.method = rq.method, !.code = status']
    /\ at' = "line"
    /\ UNCHANGED <<answered, called, result, meta>>

Integer(c) == IF c = NotInteger THEN 500 ELSE c

Returned(c) == [rq |-> Len(asked), proc |-> called.proc, code |-> c]

\* minuted_tap_status takes what the proc has returned for the status; an empty list
\* has no element to take.
HeadersReturn ==
    /\ at = "headers" /\ InRequest
    /\ \E c \in Results \ {NoElement} :
          /\ result' = Returned(c) /\ status' = Integer(c)
          /\ rqd' = [rqd EXCEPT !.status = result', !.method = rq.method, !.code = status']
          /\ at' = IF status' = 100 THEN "payloadcall" ELSE "line"
    /\ UNCHANGED <<answered, called, meta>>

HeadersFail ==
    /\ at = "headers" /\ InRequest
    /\ result' = NoResult /\ status' = 500
    /\ rqd' = [rqd EXCEPT !.method = rq.method, !.code = 500]
    /\ at' = "line"
    /\ UNCHANGED <<answered, called, meta>>

\* minuted_tap_payload of an application without such a proc.
PayloadNone ==
    /\ at = "payloadcall" /\ InRequest
    /\ vs[rqd.vhost].nopayload
    /\ status' = 500 /\ rqd' = [rqd EXCEPT !.code = 500]
    /\ at' = "line"
    /\ UNCHANGED <<answered, called, result, meta>>

PayloadCall ==
    /\ at = "payloadcall" /\ InRequest
    /\ ~ vs[rqd.vhost].nopayload
    /\ Call(rqd.vhost, "payload", rqd.path)
    /\ at' = "payload"
    /\ UNCHANGED <<rqd, status, answered, result>>

PayloadReturn ==
    /\ at = "payload" /\ InRequest
    /\ \E c \in Results \ {NoElement} :
          /\ result' = Returned(c) /\ status' = Integer(c)
          /\ rqd' = [rqd EXCEPT !.status = result', !.code = status']
    /\ at' = "line"
    /\ UNCHANGED <<answered, called, meta>>

\* The status the headers proc has returned stays.
PayloadFail ==
    /\ at = "payload" /\ InRequest
    /\ status' = 500 /\ rqd' = [rqd EXCEPT !.code = 500]
    /\ at' = "line"
    /\ UNCHANGED <<answered, called, result, meta>>

\* Tcl_GetIntFromObj() of no object ends the child.
ReturnNothing ==
    /\ at \in {"headers", "payload"} /\ InRequest
    /\ NoElement \in Results /\ result' = Returned(NoElement)
    /\ at' = "crashed"
    /\ UNCHANGED <<rqd, status, answered, called, meta>>

Bodiless == rq.method = "HEAD" \/ status \in {204, 205, 304}

\* The status line goes out.  Without a virtual host minuted_tap_response does
\* nothing more.
Answer ==
    /\ at = "line" /\ InRequest
    /\ answered' = Append(answered, status)
    /\ at' = IF Bodiless \/ rqd.vhost = 0 THEN "end" ELSE "responsecall"
    /\ UNCHANGED <<rqd, status, called, result, meta>>

\* minuted_tap_response.  There is no object to count a reference to when the
\* headers proc has failed.
ResponseCrash ==
    /\ at = "responsecall" /\ InRequest
    /\ rqd.status = NoResult
    /\ at' = "crashed"
    /\ UNCHANGED <<rqd, status, answered, called, result, meta>>

ResponseCall ==
    /\ at = "responsecall" /\ InRequest
    /\ rqd.status # NoResult
    /\ Call(rqd.vhost, "response", rqd.path)
    /\ at' = "response"
    /\ UNCHANGED <<rqd, status, answered, result>>

\* It may fail; that makes a difference for the body only.
ResponseReturn ==
    /\ at = "response" /\ InRequest
    /\ at' = "end"
    /\ UNCHANGED <<rqd, status, answered, called, result, meta>>

---------------------------------------------------------------------------
(* The meta object                                                         *)

InProc == InRequest /\ UNCHANGED <<at, rqd, status, answered, called, result>>

\* An unsigned as an int.
AsInt(n) == IF n < Modulus \div 2 THEN n ELSE n - Modulus

\* The number and the text that an application is given.
HeaderLength(h) ==
    IF h = http_rq_content_length /\ "content_length" \in parsed.flags
    THEN {AsInt(parsed.length)} ELSE {}
HeaderText(h) ==
    CASE h = http_rq_transfer_encoding -> IF "chunked" \in parsed.flags THEN "chunked" ELSE None
      [] h # http_rq_transfer_encoding /\ text(rq, h) # {} -> FirstOf(rq, text(rq, h))
      [] OTHER -> None

tap_tcl_get_header(name) ==
    LET h == minuted_tap_request_header(name)
    IN  [cmd |-> "get-header", name |-> name, ok |-> h # 0,
         value |-> HeaderText(h), number |-> HeaderLength(h)]

GetHeader ==
    /\ at \in {"headers", "payload", "response"} /\ InProc
    /\ \E name \in Asked : meta' = tap_tcl_get_header(name)

\* What is written to the response is the name in the table.
tap_tcl_add_header(name) ==
    LET h == minuted_tap_response_header(name)
    IN  [cmd |-> "add-header", name |-> name, ok |-> h # 0,
         value |-> IF h = 0 THEN None ELSE http_response_header_names[h + 1], number |-> {}]

AddHeader ==
    /\ at \in {"headers", "payload"} /\ InProc
    /\ \E name \in Added : meta' = tap_tcl_add_header(name)

---------------------------------------------------------------------------
(* The server around it                                                    *)

\* The master replaces a child that crashed (see Prefork).
Restart == at = "crashed" /\ Forget

TapInit ==
    /\ at = "idle" /\ listenId = 1
    /\ rqd = rqd_init /\ status = 0 /\ parsed = NoRequest
    /\ asked = <<>> /\ answered = <<>> /\ log = <<>>
    /\ called = NoCall /\ result = NoResult /\ meta = NoMeta

Init == ServeInit /\ TapInit

Child ==
    \/ Accept \/ ReadNone \/ Read \/ ReadBad \/ End \/ Close
    \/ HeadersCall \/ HeadRefused \/ HeadersReturn \/ HeadersFail
    \/ PayloadNone \/ PayloadCall \/ PayloadReturn \/ PayloadFail \/ ReturnNothing
    \/ Answer \/ ResponseCrash \/ ResponseCall \/ ResponseReturn
    \/ GetHeader \/ AddHeader \/ Restart

\* minuted_serve_prefork returns when its children are done.
Server == (ServeNext \/ (at = "idle" /\ PreforkReturns)) /\ UNCHANGED tapvars

Next == Child \/ Server

Spec == Init /\ [][Next]_vars

---------------------------------------------------------------------------
(* Properties                                                              *)

ResultType == [rq : Nat, proc : STRING, code : Results \cup {0}]

\* The state of the server and of the child; a connection has a socket, and what is
\* called has a virtual host.
TypeOK ==
    /\ ServeTypeOK
    /\ at \in {"idle", "read", "head", "headers", "payloadcall", "payload", "line",
               "responsecall", "response", "end", "close", "crashed"}
    /\ at # "idle" => listenId \in DOMAIN vhostListen
    /\ rqd.vhost \in 0 .. Len(vs) /\ rqd.host \in STRING /\ rqd.path \in STRING
    /\ parsed.flags \subseteq {"content_length", "chunked"} /\ parsed.length \in 0 .. Modulus - 1
    /\ rqd.method \in STRING /\ rqd.status \in ResultType /\ rqd.code \in Nat
    /\ status \in Nat /\ result \in ResultType
    /\ asked \in Seq(Requests \cup {Bad}) /\ answered \in Seq(Nat)

Socket == ssocks[listenId]

HostOf(q) == IF Value(q, "Host") = None THEN "default" ELSE Value(q, "Host")

\* A request has one Host line or none, or they say the same; and it is not empty.
OneHost(q) ==
    \A j, k \in Lines(q, "Host") : q.lines[j][2] = q.lines[k][2] /\ q.lines[j][2] # None

\* A request reaches the application that the configuration declares for the address
\* it came in on and for its Host header, whichever round of the server this is, and
\* is refused when it declares none; every proc is given the path of this request.
Reaches ==
    /\ at \in {"headers", "payload", "response"} =>
          called = [app  |-> Declared(loaded, Socket, HostOf(rq)),
                    proc |-> at,
                    path |-> rq.path]
    /\ at \in {"line", "end"} /\ rq # Bad =>
          (rqd.vhost = 0) = (Declared(loaded, Socket, HostOf(rq)) = None)

\* The line for a request that was answered with this code.
LineFor(q, code) ==
    [host   |-> IF q = Bad THEN "unknown" ELSE HostFor(loaded, Socket, HostOf(q)),
     method |-> q.method, path |-> q.path, code |-> code]

\* Between two requests and after the last the log of the connection has a line for each of them, with
\* its own host, method and path and the code that was sent.
LogTrue ==
    at \in {"read", "close"} =>
        /\ Len(answered) = Len(asked)
        /\ log = [j \in DOMAIN asked |-> LineFor(asked[j], answered[j])]

\* The status argument of a proc is what the proc before it has returned in this
\* request.  When there is nothing to pass on the child does not get so far.
ResultPassed ==
    /\ at \in {"payload", "response"} => rqd.status = result /\ result.rq = Len(asked)
    /\ at = "crashed" => result = NoResult \/ result.code = NoElement

\* Every Content-Length line of a request ends with \r\n (see LengthRead of HttpParser)
\* and fits an int (one that does not comes out as another number).
Legible(q) ==
    \A j \in Lines(q, "Content-Length") :
        q.lines[j][3] = "CRLF" /\ Decimal[q.lines[j][2]] < Modulus \div 2

\* get-header gives what this request says, whatever its other headers, the requests
\* before it and wherever the value is kept, and fails for unknown names only: the first
\* value sent under that name, "chunked" if a Transfer-Encoding says so, and as a number
\* what a Content-Length says.
HeaderGot ==
    meta.cmd = "get-header" =>
        /\ meta.ok = (meta.name \in Known(http_request_header_names))
        /\ meta.value =
              CASE meta.ok /\ meta.name \notin Interpreted -> Value(rq, meta.name)
                [] meta.name = "Transfer-Encoding" /\ chunkedLines(rq) # {} -> "chunked"
                [] OTHER -> None
        /\ meta.name = "Content-Length" /\ Legible(rq) /\ Lines(rq, meta.name) # {} =>
              \E j \in Lines(rq, meta.name) : meta.number = {Decimal[rq.lines[j][2]]}
        /\ meta.name # "Content-Length" \/ Lines(rq, meta.name) = {} => meta.number = {}

\* add-header writes the header it is told to, and fails for unknown names only.
HeaderAdded ==
    meta.cmd = "add-header" =>
        /\ meta.ok = (meta.name \in Known(http_response_header_names))
        /\ meta.ok => meta.value = meta.name
=============================================================================
