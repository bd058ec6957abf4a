# A verification development for minute-http

minute-http is a small HTTP server in C: two libraries (`libhttp`, `libhttpd`) and the
daemon `minuted`, which serves Tcl applications from a set of forked processes. This
directory models it in TLA+, checks the models with TLC and proves the main results
about the process management, the ring buffer, the response side, the request payload, the
request parser, the configuration and the adapter with TLAPS.

## The system

| Component | State | Operations | Talks to |
|---|---|---|---|
| prefork process management (`minuted/minuted.c`) | process table, `serving`, signal flags; a POSIX semaphore and message queue; one program counter per child | fork, sem_wait / poll / accept / sem_post, serve, messages `a` and `c`, SIGHUP, SIGTERM, SIGCHLD, waitpid, drain | kernel, children, clients |
| i/o ring buffer (`libhttp/iobuf.c`, `libhttpd/iobuf-util.c`) | two absolute offsets that wrap, the bytes, an EOF flag | clear, put, replace, write, read, readfd, gather, flushfd, printf | descriptors |
| response side (`libhttpd/httpd.c`) | status, connection flags, output ring, output descriptor | `minute_httpd_handle` and its callbacks; `minute_httpd_chunk`, `_output`, `_flush`, `_header`, `_chunk_end`, `_standard_body` | application, output ring, socket |
| request payload (`libhttpd/httpd.c`) | `pending`, chunk state, input ring | `minute_httpd_in_read`, `_in_discard`, `_read_request` | parser, input ring, application |
| request parser (`libhttp/http.c`) | `minute_http_rqs`: state, flags, trie position, back-tracking offset | `minute_http_init`, `_init_trailers`, `_read` | input ring, text store |
| text and integer store (`libhttp/textint.c`) | text grows up, integers grow down | putc, puti, geti, gets, replace | parser, application |
| Tcl adapter (`minuted/tap.c`) | request data, virtual hosts, the result of the last proc | head, payload, response, error callbacks, `get-header`, `add-header`, access log, `minuted_tap_handle` | Tcl, `libhttpd`, header tables |
| header tables (`libhttp/http-headers.c`) | constants | binary search by the adapter | adapter, parser |
| configuration (`minuted/config.c`) | dictionaries of listeners and hosts | `application`, `vhost`, `listen` | Tcl |
| entry, logging, reload (`minuted/main.c`) | log queue descriptor, `daemonize` | `logva`, `main` | the master's queue, `minuted_serve` |
| start-up (`minuted_serve*`) | sockets, interpreters, the map of virtual hosts | listen, load, clean up; single-process mode | all |

What is hard here: many processes and one semaphore, with signals that interrupt any
blocking call (no handler uses `SA_RESTART`); counters kept from messages that lag
behind; a shutdown that mixes a timeout, signals and `waitpid`; offsets that wrap;
partial writes; and a byte stream on which one wrong byte spoils every later request.
What makes each component correct:

* *process management*: one child in its turn at a time, a table that is exactly the
  children, no process left behind, connections accepted, a shutdown that ends;
* *ring*: a first-in first-out queue, whatever the offsets;
* *response side*: one well framed response per request, in order, nothing lost or
  repeated, and both ends agree on whether the connection stays;
* *payload and parser*: the payload handed over is the one sent, the next request
  begins where this one ended, and neither depends on how the bytes were split;
* *text store*: text and integers never meet;
* *adapter*: the application chosen is the one configured for listener and host, nothing
  of a request reaches the next, the log tells what was answered;
* *start-up and reload*: a reload leaves a server that listens on what the file says, and
  only an improper file or SIGTERM ends it.

## Modules

| Module | What it is |
|---|---|
| `Prefork` | the master and its children (`minuted.c` 228-646) |
| `MCPrefork` | model values and symmetry for it |
| `Prefork_proofs` | theorems about `Prefork`: the semaphore, the table, the counter of connections, the spare children |
| `ByteFifo` | what `iobuf.h` promises: a bounded queue of bytes |
| `IoBuf`, `MCIoBuf` | the ring as coded; refines `ByteFifo` |
| `Httpd`, `MCHttpd` | one connection: `minute_httpd_handle` and the output path |
| `Httpd_proofs` | client and server agree on whether the connection is kept; the stream is well framed and loses nothing the application writes |
| `IoBuf_proofs` | the ring implements the queue, for every size and modulus |
| `HttpIn`, `MCHttpIn` | the payload of one request: `minute_httpd_in_read`, the discard, the trailers, on the ring of `IoBuf` |
| `HttpIn_proofs` | what the application is given of the payload, and where the next request begins |
| `TextInt` | the text and integer store, as operators |
| `HttpParser`, `MCHttpParser` | the head of every request of a connection: `minute_http_read` within `minute_httpd_read_request`, on `TextInt` |
| `HttpParser_proofs` | the parser between any two calls: its store, its place in the tries, its window on the ring |
| `SeqFold` | a loop over a sequence, for any step |
| `SeqFold_proofs` | the laws of such a loop |
| `Config` | the configuration file: what its commands leave in the two dictionaries |
| `Serve` | the server process around `Prefork`: `main`, `minuted_serve` and the reload; extends `Config` |
| `Serve_proofs` | what any configuration file makes, and what a round keeps open |
| `Headers` | the two header tables and the search in them |
| `Tap`, `MCTap` | a child's connections: `minuted_tap_handle`, the callbacks, the procs; extends `Serve` and `Headers` |
| `Tap_proofs` | what a request reaches, what the log says, what a proc is told, what the header look-up finds, types, and that the server goes on |

Definitions named as a mutant in their comment (`SemTake`, `ReadSwapped`, ...) are
plausible wrong versions of the definition that follows them. They belong to no
specification; substituted for it, they show that a property notices.

### Prefork

One action is one system call with the code up to the next one. `pc[p]` is where a
process is in `minuted_serve_processor`:

| `pc` | code |
|---|---|
| `loop` | `while(!sighup_flag)`, 228 |
| `wait` | `sem_wait`, 233 |
| `poll` | `poll`, 239 |
| `accept` | the `for` loop at a ready listener, 250-252 |
| `post` | `sem_post`, 255 |
| `sendA` | `mq_send` of `a`, 256 |
| `serve` | `minuted_tap_handle`, 263 |
| `sendC` | `mq_send` of `c`, 265 |
| `exit0`, `exit4`, `signaled` | a zombie with that wait status |

`mpc` is where the master is: `boot` (542), `top` (564), `wait` (`minuted_wait`),
`recv` (`mq_receive`), `drain`, `drainwait` (630-635), `waitpid` (643), `done`. `kill()`
posts a signal in `pend`; `HandleHup` and `HandleTerm` are the handlers, and `Interrupt`
says what the call does that the process may be blocked in: it goes on undisturbed (the
signal came before the call blocked) or returns EINTR, with the branch the code takes.
`Sigchld` is the same for the master. Children forked before the handlers for SIGTERM
are installed die of it, later ones inherit the handler and ignore it (`late`).

Two assumptions about time are stated where they are used. When the drain times out,
five seconds after the SIGHUPs, every SIGHUP has been handled and no child has left an
open semaphore untaken for that long (`DrainTimeout`); and a child that then still waits
for the semaphore is blocked there, so SIGTERM interrupts it (`HandleTerm`). A SIGTERM
during the boot kills the master and is not modelled. The contents of log lines are left
out, and log lines outside the serving of a request, which exist only after a fault or
with debugging on. `mq_send` and `mq_receive` fail only with EINTR, `sem_wait` too.

### IoBuf

The state of `iobuf`, with offsets that wrap at `Modulus`, which stands for 2^32. Copies
are made as `memcpy` makes them, in one or two pieces. Four calls leave what the ring can
do: `put` on a full ring after only one offset has wrapped, a write of no bytes when the
copy does not wrap, a read of the whole of a full ring that does not start at index zero,
and `readfd` when `readv` fails. They set the history variable `broken`, and the
specification says nothing about what follows. Strings shorter than the address space are
written.

### Httpd

Output is a sequence of tokens (status line, header line, blank line, piece of body, and
the lines of the chunked framing). `phase` is where `minute_httpd_handle` is; `writev` is
a call of `minute_httpd_chunk` in progress, with its arguments in `job` and the phase that
follows it in `after`. The application is any: it may set headers, answer with a status
or ask for the payload first, write pieces, flush, and succeed or fail. The `Server` and
`Date` headers are one token, the statuses are representatives (400 stands for every
status of a request that could not be read), the pieces of one line are not split except
for the size line of a chunk, and reading the payload is left out (it does not change the
output). A write may fail at any point; `writev` may be cut short, and since token counts
do not tell bytes apart, whether the code notices (it compares `r`, framing included, with
the bare total) is a choice, where both outcomes exist.

The properties are about what a client makes of the stream: `Client` is an automaton that
reads the tokens as an HTTP client reads bytes (`Reading` folds it over the stream), and `Framed` says that it never gets stuck
and that it knows the response to be over when the server waits for the next request. The
client puts up with the interim status without a blank line (565-571) and with the last
chunk after a response without body (see below).

### HttpIn

`HttpIn` composes `minute_httpd_in_read` with the ring: its calls of `minute_iobuf_read`
and `readfd` are the actions of an instance of `IoBuf`. `at` is where the code is: with the
application (`app`), at the head of the loop (`read`), blocked in `readfd` for payload or
for trailers (`readfd`, `trailerfd`), about to parse (`trailer`), `done`. A byte in the ring
is its position in the stream of the client, so what is delivered shows where it came from;
what the byte is (`CharAt`) matters only to the two scanners. `ChunkChar` is a turn of the
loop over a chunk line, `TrailerChar` one of `minute_http_read` within trailers. Chunk sizes
are computed modulo `Modulus`, which stands for 2^32, and assigned to an `int` (`AsInt`).

What a stream means is `After(rq, i)`: what its first `i` characters come to for somebody who
reads them one after the other, with no ring, no calls and numbers of any size. `Laid`, which
`HttpInAssumption` has of every request, says that `body` and `end` of a request are those of
this reading, and that no size in it exceeds an `int` (one that does wraps in the code). TLC
evaluates it on every request of the runs. This reading shares the grammar of a chunk line
with the model of the scanner (`ChunkState`, which is also what the code accepts: a line
may end in a lone line feed, an extension may be anything); all else, the sizes,
the counting and the trailers, is stated apart. `Trailed(rq)` says that the last chunk is not followed by the empty line at once,
the case that the code gets wrong (`httpin_trailer`).

The head has been parsed, may have ended anywhere in the ring (`Starts`) and may have left
any number of further bytes in it. The application reads as often as it likes with any
buffer, then the rest is discarded. The client may close whenever the server reads. Requests
that are not `sound` are malformed; one that does not fit (`fits`) has a chunk line longer
than the ring, which the code waits for forever, though a comment (`httpd.c` 224) means to
refuse it. Nothing is said after a call that breaks the ring.

Left out of the trailers: their names and values, and with them the refusals for a text
store that is full and for a bad number. A descriptor closed by a failed write (the output
side may close the socket that the payload comes from) waits for the composition with
`Httpd`. `Init` follows `minute_httpd_start`; the parser of the head is `HttpParser`.

### HttpParser and TextInt

`rqs` is `minute_http_rqs` with the request and the text store: `st` is the state function
(`h_initial`, `h_method`, ..., named as in `http.c`), `nl` the count of line ends, `m` and
`b` the offsets up to which the parser has read and to which it may have to go back, `slot`
and `pos` the place in a trie. `minute_http_read` is a loop (`SeqFold`) of turns over what
is in the ring, so one action `Parse` is one call; `at` is where
`minute_httpd_read_request` is (`parse`, blocked in `readfd`, `done`, `closed`). `NextRequest`
is the next turn of `minute_httpd_handle` on a connection that is kept; the payload between two
requests is the subject of `HttpIn`. The input ring is a window on what the client sends; how the bytes lie in it is
the business of `IoBuf`.

The compiled tries are the sets of words they accept. `walk_trie` keeps the code's two
peculiarities: a null byte ends a word, and at a node that is no word but where words
branch it is taken and changes nothing. Words are shorter than the code's, and share a
prefix where those do. A shift of `1u` by the header number is undefined from 32 on (the
last headers of the table have such numbers): `wraps` is the build's choice. `Content-Length` is
taken modulo `Modulus`. A header value that is collected goes to `TextInt`, where text
grows up and integers grow down in one block of `TextSize` bytes. `GetS` of a string that
lacks its null gives bytes that do not end in one, which no property mistakes for the value.

`MCHttpParser` puts requests together from pieces and knows of each what it means, without
the parser, and which forms it has that the code does not read as they are meant (`forms`).
`ParsedWith(forms)` compares, for requests with no other form than these; `Parsed` is
`ParsedWith({})`, and so says nothing of requests with one of these:

| Form | The code |
|---|---|
| length LF | drops the length (`http.c` 656) |
| upper-case escape | decodes another character (261) |
| stray continuation | appends a line that continues an unknown header to the header kept last (689) |
| wide length | takes it modulo 2^32 (651) |
| blank after value, list | takes the value of an interpreted header for unknown |
| folded flag | does not look for the value of an interpreted header on a continuation line |

Of the first three the repository says otherwise: `FormsRead` is `ParsedWith` of them, and the
run `parser_forms` shows one request in which all three go wrong. No text promises anything of
the last three rows, so they have no run. All six are among the requests of `parser_request`,
whose other properties hold of them too. In no request is there a null byte, which ends a word, or the byte 255 in a value or a line that is
skipped, which looks like the end of the stream. The states after a stream has ended in the middle of a
request (the parser takes the end for a line end, and leaves `read` beyond `write`) are
reached, but nothing is said of them.

### Config and Serve

A configuration file is a sequence of commands: `vhost` with its applications, `listen` with
its hosts, and whatever else ends the script. `minuted_configure` folds the commands (`SeqFold`) over
the two dictionaries, with the partial effects of a command that fails; a Tcl dictionary is
a sequence of pairs in the order of insertion. `Declared` is what `README.md` of the
repository says a file means, without regard to the order of its commands.

`Serve` has one action per turn of the loops of `minuted_serve_listen` and
`minuted_serve_load` and per call around them; `mpc` is the function `main` is in. Serving
itself is one state, `prefork`, which lasts until `minuted_serve_prefork` returns (that is
`Prefork`). `open` are the addresses of the sockets this process holds, `held` those of a
child that outlived its round because the last `waitpid` was interrupted: `bind` then fails.
A file may be edited at any moment, a system call may fail (`Fault`). Applications are
names with what sourcing them gives: an error, or a set of procs. Option parsing, the pid
file and what is written to the log are left out.

### Tap and Headers

`at` is where a child is in `minuted_tap_handle`: between connections (`idle`), reading
(`read`), in the head callback (`head`), inside a proc of the application (`headers`,
`payload`, `response`), before one (`payloadcall`, `responsecall`), writing the status line
(`line`), writing the log (`end`). `parsed` is the part of the parser's record that `get-header`
looks at, the flags and the length, cleared before each request (`httpd.c` 510); `rqd` is `tap_rq_data`, with the Tcl object that the
last proc has returned as `status`; `asked`, `answered` and `log` are histories of the
connection. A child is one copy of everything `Serve` has set up, so `Tap` extends `Serve`
and looks at one child within one round; a crashed child is replaced.

A proc may return any of `Results` (an integer, a list that does not begin with one, an
empty list) or fail, and may call `get-header` and `add-header` with any of the names.
A request is its method, path, header lines and whether the connection is kept; parsing and
framing are elsewhere. `Headers` holds the tables and searches them as the adapter does,
by halves; names are members of an ordered list, since only their order matters.

A header line is a name, a value and a line end. `Interpret` says what the parser leaves of
the lines it interprets: a `Content-Length` line counts if it ends with `\r\n` (see
`parser_forms`), the last of them gives the length, modulo `Modulus`; `chunked` is a flag.
`get-header` then gives an integer, the length as an `int` (`AsInt`: one of more than 2^31 - 1
comes out negative), or the constant `chunked`, or the first line of a header of which the
text is kept. `Connection` and `Expect` are flags that `get-header` does not look at, so it
gives nothing for them, as `src/README.md` (26-28) lets expect. `HeaderGot` compares with the
lines of the request; of a length it speaks when each `Content-Length` line of the request
ends with `\r\n` and fits an `int` (`Legible`). Trailers, which add to the text once
the payload is over, are left out. Headers with numbers above 31 are kept here, as they are
where the shift of the header mask goes round (both cases are in `HttpParser`). The files of `MCTap` never say `+` for an address
that is also given hosts, nor give an address an empty list: there the code and the
repository's README part ways (see below).

## Runs

| Run | Bounds | Shows |
|---|---|---|
| `prefork_table` | 3 process ids, 1 listener, queue of 2, 2 connections, 1 fault, log lines, surplus children | `TypeOK`, `OnePoller`, `TableIsChildren`, `Ledger`, `SparesKept`, `NoForkInShutdown` |
| `prefork_live` | 2 ids, 2 listeners, queue of 4, 2 connections, 1 fault | `AcceptedEventually`, `ShutdownCompletes` |
| `prefork_sem_leak` | 2 ids, a surplus child | `SemaphoreKept` violated |
| `iobuf_fifo` | ring of 4, offsets modulo 12, 2 byte values, strings of up to 5 | `TypeOK`, `WithinSize`, `IsFifo` (refinement) |
| `httpd_response` | 2 requests of 5 kinds, ring of 2 tokens, 1 header, 2 calls of write or flush | `TypeOK`, `Framed`, `NoLoss`, `ClientAgrees` |
| `httpin_payload` | ring of 8, sizes of radix 4, 8 requests of up to 26 bytes, buffers of 1, 3 and 8, 6 reads, 1 failing `readv` | `TypeOK`, `Delivered`, `NextBegins`, `Finishes` |
| `httpin_full_read` | payload of 10 in a ring of 8, a buffer of 8 | `DeliveredAlways` violated |
| `httpin_trailer` | 1 chunk, no trailers, a pipelined request | `NextBegins` violated |
| `parser_request` | ring of 8, store of 18 bytes with integers of 2, numbers modulo 100, mask of 32 bits, 39 connections of one or two requests, 1 failing `readv` | `TypeOK`, `Parsed`, `NextBegins`, `FlagResumed`, `StoreApart`, `Answered` |
| `parser_forms` | as above, without faults; one request with three of the forms | `FormsRead` violated |
| `tap_requests` | 9 configuration files, 1 edit, 1 fault, 3 addresses and hosts, 3 requests, 2 per connection, 5 results, numbers modulo 200 | `TypeOK`, `Survives`, `Reaches`, `LogTrue`, `ResultPassed`, `HeaderGot`, `HeaderAdded` |
| `tap_add_header` | 1 file, 1 request, all headers of the response table | `HeaderAdded` violated |

Deadlock is not checked: a finished shutdown, a closed connection and a ring whose
contract was broken are ends, and the bounds on clients and faults stop the rest. Why the
bounds are enough: three children are one in its turn, one that waits and one that is
served, exits or is replaced, and process ids are used again; a queue of two fills up. Two
connections with one that crashes reach every branch on `serving`. A ring of four has every
relation of the two indices, and a modulus of twelve makes each offset wrap before and
after the other. A ring of two tokens overflows within headers and within the body; two
requests are what it takes for one response to spoil the next. The headers of the run fit
in the ring before the status line is out, because the code says itself (`httpd.c` 370)
that it cannot deal with the other case. No further request is made on a stream with a
torn chunk. In `httpin_payload` a ring of eight holds the longest fitting chunk line with the
line end before it, the longer requests do not fit in the ring at once, data bytes look
like digits and line ends, and pieces of every size meet every state of both scanners.
In `parser_request` every well-formed request is longer than the ring, so the parser is
called again in every state; requests end with either line end, headers are known, unknown,
folded, empty, flags and almost flags, or of the forms that `Parsed` leaves out; a store of eighteen bytes is filled exactly, by one
byte too many, and by one integer too many; malformed requests reach every error return.
In `tap_requests` three of the files are improper at each stage (commands, sources, procs)
and two are proper with different hosts, orders and applications; one edit is what it takes
to reload from one into another; two requests are what it takes for one to leave something
for the next. Their lengths are repeated, with leading zeros, beyond an `int`, and ended by a
lone line feed. A crash, a fault and an edit meet at every point of the start-up.

`SparesKept` is stated up to the first time that a child is found surplus (the history variable
`surplus`): a child that was told to go counts as active until it is reaped, so several `c` in
a row tell too many to go. In `prefork_table` two connections make the master fork a third
child before that.

### Fairness

`FairSpec` of `Prefork` has weak fairness for the master, for each child's own steps and for its signal
handlers: processes that can run are scheduled, a posted signal is handled, and a request that
is served ends (`Served` is one of the child's steps). The last is an assumption about the
client that is served and about the application, since the code has no timeout for either
(`httpd.c` 107 has a TODO): a client that neither sends nor closes keeps its child. Of clients
that have not connected, of faults and of the administrator nothing is assumed. It says
nothing of which child the semaphore lets in. `AcceptedEventually` needs no more,
because a child in its turn either accepts or goes back. Clients are finitely many
(`MaxConns`), and that matters: a child takes the lowest listener that is ready and leaves the
`for` loop after one connection (250-268), so an endless stream of clients on one listener
would starve those on the next. In `prefork_live` no child is
ever surplus; `prefork_sem_leak` shows that otherwise the property is lost. Its queue holds
every message the clients can cause: with a queue that fills up after the master has left
for `waitpid`, a child that serves past SIGTERM can block for good.

`FairSpec` of `HttpIn` has weak fairness for the process, which includes an application that
comes to an end of its reads, and for the arrival of what the client sends. A client need
not close, so a server that waits for more than the request is not helped out.

`FairSpec` of `HttpParser` has weak fairness for the process (a call of the parser comes to
its end, and so does the loop around it) and for the arrival of what the client sends. Under
it every request is answered: also one that fits neither in the ring nor in the store,
which is what `Answered` is about.

### What disagrees with the code's own words

Each violation run shows one disagreement; `PROJECT.json` quotes the lines.

* EINTR in `poll` loses the semaphore (`prefork_sem_leak`).
* A full ring that does not begin at index zero is read past its end, which a payload larger
  than the ring makes happen (`httpin_full_read`).
* A payload without trailers is not over for the server until a further line end comes
  (`httpin_trailer`).
* The response header table is searched by halves and is not sorted: an application cannot
  add `Content-Disposition`, `Content-Location` or `Content-MD5` (`tap_add_header`).
* The length of a `Content-Length` line that ends in a lone line feed is dropped, though lines
  may end so; an escape with an upper-case digit decodes to another character; the
  continuation of a header that is ignored is appended to the header kept last (`parser_forms`).

Met on the way, in the models but without a run of their own. Process management: with two
listeners, an `accept` that fails leaves a child polling outside its turn; the last
`waitpid` is not repeated after EINTR, so the shutdown may be reported complete with a
child left (and the next round may not get its addresses); a child that dies just before
the master blocks in `mq_receive` is replaced only after the next message (with `InitForks = 1`
TLC finds `AcceptedEventually` violated by this, since nobody is left to send one); an improper file
at a reload ends the server.

Responses and payload: of a chunk cut short by `writev` the last line end is not written
(hence `torn` in the properties of `Httpd`); the last chunk is sent after responses without
a body; the generic body of an error is appended to what the application has written
(`httpd.c` 623); a chunk line that does not fit in the ring is waited for forever; a `readv`
that fails takes a byte off the ring (`ReadFdError`).

Parser: the byte 255 looks like the end of the stream; `Content-Length` wraps; a null byte
ends a word; an interpreted header with a blank after its value, with a list of values, or with
its value on a continuation line counts for nothing.

Adapter and configuration: a proc `headers` that fails, or a proc that returns an empty list,
takes the child down; an application without `payload` has the result of `headers` passed to
`response`; `get-header` of a length beyond an `int` gives another number; `+` for an address that
has hosts already adds none, and an address with an empty list of hosts gets all; the
loader asks for `response` where the documentation asks for `payload`.

## Proofs

### Process management

`Prefork_proofs` proves, for every set of processes and listeners and all bounds, from
`PreforkAssumption` (the constants are numbers, `InitForks <= MaxForks`):

* `TypeCorrect`: `Spec => []TypeOK`. `TypeOK` is inductive; a lemma for each helper that
  several actions share (`Replace`, `Fork`, `Exit`, `Interrupt`, `Kill`, `Receive`), one for
  each group of actions.
* `OnePollerHolds`: `Spec => []OnePoller`, from the additional hypothesis `SingleTry` (one
  listener, or no faults), without which it is false: with two listeners and one failing
  `accept` TLC finds two pollers. (The run has one listener; any number of them without
  faults is the theorem's alone.) `OnePoller` is not inductive: a child that comes back to
  `accept` after `sem_post` would break it, so the invariant adds `NoRetry` (nobody who has
  given the semaphore back has another listener to try), and `BootClosed` (until `BootDone`
  nobody has had a turn).
* `TableHolds`: `Spec => []TableIsChildren`. The invariant adds that the table is finite,
  which its cardinality needs, and uses `FiniteSetTheorems` for its bound.
* `NoForkInShutdownHolds`: the action property, from the types alone.
* `LedgerHolds`: `Spec => []Ledger`. The invariant adds `TableInv`,
  from which the busy children are finitely many, and `NoTermYet`: nobody is sent SIGTERM
  before the drain is over, or a child could be killed with a connection that no drift
  accounts for. Lemmas count the messages of a type by their places in the queue (`Append`
  adds a place, `Tail` moves them all by one) and the busy children by cardinality (a step
  of a child takes one connection, lets one go, or does neither).
* `SparesKeptHolds`: `Spec => []SparesKept`, if `MinSpares <= InitForks`. The shipped numbers are
  3 spare children, 6 at the start, 6 spare at most and a table of 32 (`minuted.c` 486-488), so
  with them children may be found surplus, from when on the property says nothing. The
  invariant adds that until then nobody has been told to go or has exited (`Undisturbed`), and
  that the counter has no drift.

### The ring

`IoBuf_proofs` proves, from `IoBufAssumption` (the ring is shorter than the address space,
its size divides the modulus, no string fills the address space), for every such size and
modulus and all strings:

* `TypeCorrect`: `Spec => []TypeOK`, and `WithinSizeHolds`: `Spec => []WithinSize`. The two
  together (`Sound`) are inductive.
* `Implements`: `Spec => IsFifo`. Every call on a sound ring is a call of `ByteFifo` on its
  `Contents`, or breaks the ring.

The argument has four layers. *Remainders*: division with remainder is unique, and an index
may be taken before or after an offset wraps (`IndexWraps`, where the size has to divide the
modulus). *Offsets*: bytes that are added or taken count once in `Used`, whichever offsets
have wrapped (`UsedGrows`, `UsedShrinks`), and the contents lie in `Used` slots from `bi` on
(`Position`). *Slots*: `Held(d, b, u)` is the contents without offsets; bytes written behind it
are appended (`HeldGrows`), bytes passed over are its head (`HeldShrinks`). *Copies*: a copy in
one piece and one in two both write, or take, consecutive slots (`CopiedOnce`, `CopiedSplit`,
`TakenOnce`, `TakenSplit`). Each call then chooses the right copy: that is a lemma for each
action, by arithmetic on `bi`, `ei` and `Used`, and it is where the proof for `Read` needs the
branch that breaks the ring: nothing else tells a full ring from a piece that does not wrap.

### The response side

`Httpd_proofs` proves, from `HttpdAssumption` (the constants are numbers and requests, the
ring is not empty), for every size of the ring and any number of requests, headers and calls:

* `TypeCorrect`: `Spec => []TypeOK`, as part of the inductive `Types`, which adds what the
  ring, the call in progress and the stream may hold.
* `ClientAgreesHolds`: `Spec => []ClientAgrees`. The property compares the server's flag
  with what the client has read, and between the two lie the ring and a `writev` that may be
  cut short. The invariant `Agree` follows the `Connection` header on that way: before the
  headers none has been written, afterwards one has been written exactly if it is due, and
  none still waits in the ring once the body begins, since `minute_httpd_chunk` drops what
  it cannot write. The lemmas say that a partial `writev` loses nothing that is no chunk
  (`Parts`), how the headers told move from ring to stream (`ConnConcat`, `OutputMoves`,
  `WriteKeeps`), and reduce each action to one of two general steps (`Spoken`, `Moved`).

From there it goes on, with the same assumption:

* `NoLossHolds`: `Spec => []NoLoss`. What the application has written is, in order, on the
  wire, in the ring, or in the call of `writev` under way. The invariant says so of each of
  the three places, and each action moves pieces from one to the next.
* `FramedHolds`: `Spec => []Framed`, for `MaxHeaders < OutCap`: the headers fit in the ring
  before the status line is out, which is the case that `httpd.c` 370 says the code cannot
  deal with otherwise. The invariant `Framing` says where the client is once it has read
  the wire, the ring and the rest of the call: between responses, in the headers, in a body,
  or in a chunk, by the phase of the server. It rests on `Agree` (a client that believes the
  connection closed reads on to the end) and on the law that a client goes on from where it
  was (`FoldConcat`), which turns a property of the whole stream into one of what an action
  adds to it.

### The payload

`HttpIn_proofs` proves, from `HttpInAssumption` (the ring is shorter than half the address
space, no offset wraps within one request, every request is `Laid`), for every ring, radix,
set of streams, buffers, ends of the head, cuts of what arrives and failing `readv`:

* `TypeCorrect`: `Spec => []TypeOK`, also after a call that breaks the ring.
* `DeliveredHolds`: `Spec => []Delivered`.
* `NextBeginsHolds`: `Spec => []NextBegins`, with the hypothesis `Granted`: the sound requests
  have a trailer, which excludes the disagreement of `httpin_trailer` and nothing else, and the
  ring has more than two bytes. With fewer, a trailer whose line end the parser holds back (two
  bytes, `Parser`) fills the ring, and the request is refused.

The invariant compares the code with the reading `After` of the stream at the first unread
byte (`Here`). `Delivered` alone is not inductive: that the next piece continues the payload
depends on `pending`, and that on the line before. So `Window` says that the ring is a window on the
stream, `Inside` what `pending` says of `Here` (as many bytes of this chunk are to come, or a
line is due, or the payload is over), `Given` that what the application has is what the
stream has come to, and `Where` which of this holds where the code blocks. The four, while
the ring is not broken, with `TypeOK`, are `IInv`. `Placed`, for `NextBegins`, adds of a sound
request that the trailers are parsed in step with the stream (`Synced`), and that nothing has
been refused.

The argument has five layers. *Stream*: a lemma for each way `Follow` goes on (`FollowData`,
..., `FollowOver`), what is known of `After` at any place (`AfterKnown`), that it only grows
(`AfterLater`), and that `k` of the bytes of a chunk are the next `k` of the body (`AfterData`).
*Ring*: `IoBuf_proofs` applied to this ring gives what `minute_iobuf_read` and `readfd` do to
the queue (`RingRead`, `RingReadFd`). *Chunk lines*: the scan starts over with every call, so
its state is that of the stream at as many characters, however the line was cut
(`ChunkLineReads`), and sizes below 2^31 are not changed by `unsigned` and `int`. *Trailers*: the
parser goes on where it was, and each turn keeps it in step (`TrailersRead`). *Actions*: one lemma
each (`AppKeeps`, ..., `TrailersBadKeeps`).

### Loops

A loop over a sequence is `Fold` of `SeqFold`, the `FoldLeft` of the community modules with
its step as a constant: an instance for the client of `Httpd`, the `listen` and the commands
of `Config`, the turns of `HttpParser`, and in `HttpIn` for the chunk line, the trailers and the
reading of the stream that both are compared with. `SeqFold_proofs` proves its laws for any step: what
it comes to after no element, one more, and a further sequence (`FoldEmpty`, `FoldAppend`,
`FoldConcat`), and that an invariant of the step is one of the loop (`FoldInvariant`). These
need induction. The library's theorem takes a predicate, which the provers cannot
instantiate, so `Inductive` states it of a set: one that has 0, and the successor of each of
its members, has every natural number. It follows from the well-foundedness of `<`
(`NatLessThanWellFounded`, `WFMin`).

### The parser

`HttpParser_proofs` proves, from `HttpParserAssumption` (the store holds whole integers, the
words of the header trie are numbers, connections are streams of chars that ask for
something), for any tries, sizes, streams and cuts of them:

* `StoreApartHolds`: `Spec => []StoreApart`. The invariant of the store, `Stored`, adds that
  there is some text: with an empty store the unsigned subtraction of `minute_textint_puti`
  would wrap, and what excludes this is the null byte of `minute_http_init`, the alignment
  of the integers (`TextSize % IntSize = 0`, `StoredHigh`) and the comparison being strict.
* `FlagResumedHolds`: `Spec => []FlagResumed`. A position is empty only in a state that has
  not yet looked at a character of the value (`Placed`), since the state is entered by
  `reset`, not `shift`; and a character that goes on leaves a position (`Walks`).
* `WindowHolds` (`Window`, the part of `NextBegins` without `end`): the parser gives back only bytes it has
  looked at, and looks only at bytes that have been read.
* `TypeCorrect`: `Spec => []TypeOK`.

The three need one invariant, `Base`, which every operator of the machine keeps: a lemma for
each state (`MethodDone`, ..., `NlDone`), one for the turn (`TurnReads`), and `LoopReads` for
the call. What it has to add is what a state takes for granted of the ones before: an escape
returns to the path or the query, a position in a header name is one of the header trie (or a
found word would have no number), no turn ends in `h_prot_http_x_x` unless with an error.

### Configuration and start-up

`Serve_proofs` proves `ConfigureReads`: whatever a file says, if it is accepted there is a
dictionary with each of its virtual hosts once and the last application given for it, and one
with each of its addresses once and the hosts of all the `listen` commands for it. It is the
invariant of the fold over the commands, on top of the dictionary lemmas (`LookupIs`,
`PutLooks`). From it follow the two invariants of the start-up that the adapter needs:
`SurvivesInv` (the sockets noted are the sockets open, and each address is noted once) and
`SetUpInv` (what is opened and mapped so far is what the file says for that many turns).

### The adapter

`Tap_proofs` proves:

* `TypeCorrect`: `Spec => []TypeOK`, without hypotheses. What could be wrong is an index: the
  socket of a connection and the number of a virtual host are used with the arrays of this
  round. The invariant `Typed` ties a connection to its round, and `HostNumbered` finds the number
  within the array by way of `SetUpInv`.
* `HeaderGotHolds`: `Spec => []HeaderGot`, without hypotheses. The invariant `Parsing` says
  that within a request the record holds the flags and the length of this one; it rests
  on the clearing of the record, without which a length of the request before would stay. The
  limits are those of the property (`Legible`) and of the model: names are those of the two
  tables and one that is in neither, and trailers are left out.
* `HeaderAddedHolds`: `Spec => []HeaderAdded`, if every name of `Added` is where the table of the
  response would have it in order (`InPlace`; all but three are, see `tap_add_header`). It and
  `HeaderGotHolds` rest on `Finds`: for
  a name that is in place, or not in the table at all, `minuted_tap_binary_search` gives its
  position, or the first or none. The search is a recursive function, so the proof first shows
  that a function with its turns exists (`SearchExists`, by induction over the width of the
  window), then that the window keeps the name (`Finds`).
* `SurvivesHolds`: `Spec => []Survives`, without hypotheses: over any number of reloads and
  edits no address is bound twice, and every socket of a round is closed before the next.
* `ReachesHolds`: `Spec => []Reaches`. The number that the child finds a virtual host by
  goes through two dictionaries and two arrays; the invariant `Reached` says, at each place
  of the child, which application it has, and rests on `SetUpInv` for the arrays.
* `LogTrueHolds`: `Spec => []LogTrue`, by an invariant of the three histories of a
  connection (`Logged`).
* `ResultPassedHolds`: `Spec => []ResultPassed`, without hypotheses. The
  invariant `Passing` says, for each place of a child, whether `rqd.status` is clean or the
  result of this request's last proc. It has to follow the record from reset to reset: that
  the property holds in one request depends on what was left by the one before.

`ReachesHolds` and `LogTrueHolds` have two hypotheses. `OneHost(q)` for every request `q`: its
`Host` lines, if it has any, say the same and are not empty (of several the adapter takes the
last; an empty one it takes for a name). `Plain(s)` for every file `s`: an address is never given `+`
together with hosts, nor an empty list, where the code and the documentation part ways (see
above). `MCTap` asserts both of its constants, so TLC has evaluated them on every file and
request of `tap_requests`.

The proofs take two facts from assumptions that have no parameters, so that TLC decides them:
`HeadersAssumption`, that the names of the request table are in the order of `Alphabet`, and
the last conjunct of `TapAssumption`, that the string literals of the model are strings, which
the provers do not know.

### Only model-checked

* Liveness under fairness: `AcceptedEventually`, `ShutdownCompletes`, `Finishes`, `Answered`.
* `Parsed` and `NextBegins` of `HttpParser`, for want of a grammar that says what a request
  means: the run has it from how its requests were put together.
* `HeaderAdded` of `Tap` for the names that are out of order: it does not hold (`tap_add_header`).

## Not modelled

* Option parsing, the pid file, what a log line says (one longer than the buffer is cut,
  `main.c` 73), debug output.
* The contents of constant tables other than the headers: reason phrases, methods.
* `minute_textint_replacei` and the comment commands of the configuration: nothing calls the
  first, the others change nothing.
* The trie generator, which prints the tables that `http.c` includes; the single-process
  build, which no build file selects; the unit tests; packaging.
* The composition of `HttpIn` with `Httpd`: a failed write closes the descriptor the payload
  is read from, and nothing keeps the number from being used again.
* A queue that fills up during the last `waitpid`: the run's queue is large enough. With
  `MaxMsg = 2` in `prefork_live` TLC finds `ShutdownCompletes` violated: a child that ignores
  SIGTERM blocks in `mq_send`, and the master in `waitpid`, each for the other.

## What could follow

1. The composition of `HttpIn` with `Httpd` over one descriptor.
2. A run for the queue that fills during the last `waitpid`.
3. A reading of a request head, as `After` is one of a payload, to prove `Parsed` of
   `HttpParser` against.
