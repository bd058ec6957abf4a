---------------------------- MODULE Httpd_proofs ----------------------------
(* Client and server agree on whether the connection is kept (ClientAgrees  *)
(* of Httpd), no piece the application writes is lost or repeated (NoLoss), *)
(* and the stream is well framed (Framed), for every set of requests, size  *)
(* of the output ring, and number of requests, headers and writes.          *)
EXTENDS Httpd, SequenceTheorems, TLAPS

---------------------------------------------------------------------------
(* Types                                                                   *)

\* Tokens of the first k requests.
Kinds == {"continue", "status", "header", "connection", "chunked", "blank", "data", "standard",
          "size", "nl", "last", "fragment"}
Stamped(k) == [kind : Kinds, value : Int, rq : 0 .. k, method : {"get", "head"}]
Job(k)     == [chunked : BOOLEAN, extra : Seq(Stamped(k))]

\* What TypeOK leaves out: what the ring, the job and the wire hold, and that
\* a call of output->write adds no more than two pieces.
Types ==
    /\ phase \in Phase /\ after \in Phase
    /\ asked \in Seq(Requests) /\ n <= MaxRequests
    /\ status \in 0 .. 599 /\ keep \in BOOLEAN /\ outfd \in BOOLEAN
    /\ out \in Seq(Stamped(n)) /\ Len(out) <= OutCap
    /\ job \in Job(n)
    /\ wire \in Seq(Stamped(n))
    /\ calls \in 0 .. MaxWrites /\ headers \in 0 .. MaxHeaders
    /\ wrote \in 0 .. 2 * calls
    /\ torn \subseteq 1 .. n

---------------------------------------------------------------------------
(* The Connection header of a request in a sequence of tokens              *)

IsConn(t, k)  == t.rq = k /\ t.kind = "connection"
HasConn(s, k) == \E i \in 1 .. Len(s) : IsConn(s[i], k)

\* In two sequences.
LEMMA ConnConcat ==
    ASSUME NEW S, NEW s \in Seq(S), NEW t \in Seq(S), NEW k
    PROVE  /\ s \o t \in Seq(S)
           /\ HasConn(s \o t, k) <=> HasConn(s, k) \/ HasConn(t, k)
<1>1. /\ s \o t \in Seq(S) /\ Len(s \o t) = Len(s) + Len(t)
      /\ \A i \in 1 .. Len(s) : (s \o t)[i] = s[i]
      /\ \A i \in 1 .. Len(t) : (s \o t)[Len(s) + i] = t[i]
  BY ConcatProperties
<1>2. \A i \in 1 .. Len(s \o t) :
          i \in 1 .. Len(s) \/ (i - Len(s) \in 1 .. Len(t) /\ i = Len(s) + (i - Len(s)))
  BY <1>1
<1>3. ASSUME HasConn(s \o t, k) PROVE HasConn(s, k) \/ HasConn(t, k)
  <2>1. PICK i \in 1 .. Len(s \o t) : IsConn((s \o t)[i], k)
    BY <1>3 DEF HasConn
  <2>2. CASE i \in 1 .. Len(s)
    BY <1>1, <2>1, <2>2 DEF HasConn
  <2>3. CASE i - Len(s) \in 1 .. Len(t) /\ i = Len(s) + (i - Len(s))
    BY <1>1, <2>1, <2>3 DEF HasConn
  <2>4. QED BY <1>2, <2>2, <2>3
<1>4. ASSUME HasConn(s, k) PROVE HasConn(s \o t, k)
  <2>1. PICK i \in 1 .. Len(s) : IsConn(s[i], k)
    BY <1>4 DEF HasConn
  <2>2. i \in 1 .. Len(s \o t)
    BY <1>1
  <2>3. QED BY <1>1, <2>1, <2>2 DEF HasConn
<1>5. ASSUME HasConn(t, k) PROVE HasConn(s \o t, k)
  <2>1. PICK i \in 1 .. Len(t) : IsConn(t[i], k)
    BY <1>5 DEF HasConn
  <2>2. Len(s) + i \in 1 .. Len(s \o t)
    BY <1>1
  <2>3. QED BY <1>1, <2>1, <2>2 DEF HasConn
<1>6. QED BY <1>1, <1>3, <1>4, <1>5

\* In none, and in one token.
LEMMA ConnOne ==
    ASSUME NEW k
    PROVE  /\ ~HasConn(<<>>, k)
           /\ \A t : HasConn(<<t>>, k) <=> IsConn(t, k)
BY DEF HasConn

\* In what a token is appended to.
LEMMA ConnAppend ==
    ASSUME NEW S, NEW s \in Seq(S), NEW t \in S, NEW k
    PROVE  /\ Append(s, t) \in Seq(S)
           /\ HasConn(Append(s, t), k) <=> HasConn(s, k) \/ IsConn(t, k)
<1>1. <<t>> \in Seq(S) /\ Append(s, t) = s \o <<t>>
  BY AppendIsConcat
<1>2. s \o <<t>> \in Seq(S) /\ (HasConn(s \o <<t>>, k) <=> HasConn(s, k) \/ HasConn(<<t>>, k))
  BY <1>1, ConnConcat
<1>3. HasConn(<<t>>, k) <=> IsConn(t, k)
  BY ConnOne
<1>4. QED BY <1>1, <1>2, <1>3

\* In a part of a sequence.
LEMMA ConnSub ==
    ASSUME NEW S, NEW s \in Seq(S), NEW a \in Nat \ {0}, NEW b \in 0 .. Len(s), NEW k
    PROVE  /\ SubSeq(s, a, b) \in Seq(S) /\ Len(SubSeq(s, a, b)) <= Len(s)
           /\ HasConn(SubSeq(s, a, b), k) <=> \E i \in a .. b : IsConn(s[i], k)
<1> DEFINE u == SubSeq(s, a, b)
<1>1. \A i \in a .. b : s[i] \in S
  OBVIOUS
<1>2. /\ u \in Seq(S) /\ Len(u) = (IF a <= b THEN b - a + 1 ELSE 0)
      /\ \A i \in 1 .. b - a + 1 : u[i] = s[a + i - 1]
  BY <1>1, SubSeqProperties
<1> HIDE DEF u
<1>3. ASSUME HasConn(u, k) PROVE \E i \in a .. b : IsConn(s[i], k)
  <2>1. PICK i \in 1 .. Len(u) : IsConn(u[i], k)
    BY <1>3 DEF HasConn
  <2>2. i \in 1 .. b - a + 1 /\ a + i - 1 \in a .. b
    BY <1>2
  <2>3. QED BY <1>2, <2>1, <2>2
<1>4. ASSUME NEW i \in a .. b, IsConn(s[i], k) PROVE HasConn(u, k)
  <2>1. i - a + 1 \in 1 .. Len(u) /\ i - a + 1 \in 1 .. b - a + 1 /\ a + (i - a + 1) - 1 = i
    BY <1>2
  <2>2. u[i - a + 1] = s[i]
    BY <1>2, <2>1
  <2>3. QED BY <1>4, <2>1, <2>2 DEF HasConn
<1>5. Len(u) <= Len(s)
  BY <1>2
<1>6. QED BY <1>2, <1>3, <1>4, <1>5 DEF u

\* No token has the stamp of a later request.
LEMMA ConnLater ==
    ASSUME NEW k \in Nat, NEW s \in Seq(Stamped(k))
    PROVE  ~HasConn(s, k + 1) /\ s \in Seq(Stamped(k + 1))
<1>1. \A i \in 1 .. Len(s) : s[i] \in Stamped(k)
  OBVIOUS
<1>2. \A t \in Stamped(k) : t.rq # k + 1
  BY DEF Stamped
<1>3. Stamped(k) \subseteq Stamped(k + 1)
  <2>1. 0 .. k \subseteq 0 .. k + 1
    OBVIOUS
  <2>2. QED BY <2>1 DEF Stamped
<1>4. s \in Seq(Stamped(k + 1))
  BY <1>3
<1>5. QED BY <1>1, <1>2, <1>4 DEF HasConn, IsConn

---------------------------------------------------------------------------
(* The invariant                                                           *)

\* Where minute_httpd_handle is, or will be when the write is over.
Place == IF phase = "writev" THEN after ELSE phase

Early   == {"header", "payload", "status", "connection", "errstatus", "errhead"}
Middle  == {"encoding", "blank", "errblank"}
Late    == {"response", "flush", "end", "discard", "idle", "closed", "errbody", "errflush"}
Failing == {"errstatus", "errhead", "errblank", "errbody", "errflush", "closed"}

\* A Connection header has to tell the client what is not the default.
Due == \/ keep = TRUE /\ rq.version # 11
       \/ keep = FALSE /\ rq.version = 11

Waits(k) == HasConn(out, k) \/ HasConn(job.extra, k)
Told(k)  == HasConn(wire, k) \/ Waits(k)

\* The header is added at its place and nowhere else, and has left the ring
\* when the body begins: of a chunk the code may drop what it cannot write.
Agree ==
    /\ phase \notin {"idle", "ended"} => n > 0
    /\ phase # "writev" => job = NoJob
    /\ Place \in Failing => keep = FALSE
    /\ Place = "idle" /\ n > 0 => keep = TRUE
    /\ outfd /\ n > 0 =>
          /\ Place \in Early => ~Told(n)
          /\ Place \in Middle => (Due <=> Told(n)) /\ ~job.chunked
          /\ Place \in Late => (Due <=> Told(n))
          /\ Place \in Late /\ (phase # "writev" \/ job.chunked) => ~Waits(n)

Inv == Types /\ Agree

\* What a call of minute_httpd_output or minute_httpd_chunk leaves.
LEMMA OutputMoves ==
    ASSUME Types, phase # "writev", job = NoJob,
           NEW tokens \in Seq(Stamped(n)), NEW chunked \in BOOLEAN,
           NEW next \in Phase \ {"writev"},
           \/ Output(tokens, chunked, next)
           \/ Chunk(tokens, chunked, next) /\ UNCHANGED out
    PROVE  /\ phase' \in Phase /\ after' \in Phase
           /\ out' \in Seq(Stamped(n)) /\ Len(out') <= OutCap /\ job' \in Job(n)
           /\ Place' = next
           /\ phase' # "writev" => job' = NoJob
           /\ job'.chunked => chunked
           /\ \A k : Waits(k)' <=> HasConn(out, k) \/ HasConn(tokens, k)
           /\ Chunk(tokens, chunked, next) => phase' = "writev" \/ \A k : ~Waits(k)'
<1> DEFINE J == [chunked |-> chunked, extra |-> tokens]
<1>1. NoJob \in Job(n) /\ J \in Job(n) /\ NoJob.chunked = FALSE /\ NoJob.extra = <<>>
      /\ J.chunked = chunked /\ J.extra = tokens
  BY DEF NoJob, Job
<1>2. "writev" \in Phase
  BY DEF Phase
<1> HIDE DEF J
<1>3. Chunk(tokens, chunked, next) => phase' = "writev" \/ (out = <<>> /\ tokens = <<>>)
  <2>1. out \o tokens = <<>> => out = <<>> /\ tokens = <<>>
    BY DEF Types
  <2>2. QED BY <2>1 DEF Chunk
<1>4. \A k : ~HasConn(<<>>, k)
  BY ConnOne
<1>5. CASE /\ Len(out) + Len(tokens) <= OutCap /\ out' = out \o tokens
           /\ phase' = next /\ UNCHANGED <<job, after>>
  <2>1. out' \in Seq(Stamped(n)) /\ Len(out') <= OutCap
    BY <1>5 DEF Types
  <2>2. \A k : HasConn(out', k) <=> HasConn(out, k) \/ HasConn(tokens, k)
    BY <1>5, ConnConcat DEF Types
  <2>3. \A k : ~HasConn(job'.extra, k)
    BY <1>1, <1>5, ConnOne
  <2>4. \A k : Waits(k)' <=> HasConn(out, k) \/ HasConn(tokens, k)
    BY <2>2, <2>3 DEF Waits
  <2>5. QED BY <1>1, <1>5, <1>3, <1>4, <2>1, <2>4 DEF Types, Place
<1>6. CASE UNCHANGED out /\ Chunk(tokens, chunked, next)
  <2>1. CASE out \o tokens = <<>> /\ phase' = next /\ UNCHANGED <<job, after>>
    <3>1. out = <<>> /\ tokens = <<>>
      BY <2>1 DEF Types
    <3>2. \A k : Waits(k)' <=> HasConn(out, k) \/ HasConn(tokens, k)
      BY <1>1, <1>6, <2>1, <3>1, ConnOne DEF Waits
    <3>3. QED BY <1>1, <1>6, <1>4, <2>1, <3>1, <3>2 DEF Types, Place
  <2>2. CASE phase' = "writev" /\ job' = J /\ after' = next
    <3>1. \A k : Waits(k)' <=> HasConn(out, k) \/ HasConn(tokens, k)
      BY <1>1, <1>6, <2>2 DEF Waits
    <3>2. QED BY <1>1, <1>2, <1>6, <2>2, <3>1 DEF Types, Place
  <2>3. QED BY <1>6, <2>1, <2>2 DEF Chunk, J
<1>7. Len(out) \in Nat /\ Len(tokens) \in Nat /\ OutCap \in Nat
  BY HttpdAssumption DEF Types
<1>8. \/ UNCHANGED out /\ Chunk(tokens, chunked, next)
      \/ /\ Len(out) + Len(tokens) <= OutCap /\ out' = out \o tokens
         /\ phase' = next /\ UNCHANGED <<job, after>>
  BY <1>7 DEF Output
<1>9. QED BY <1>5, <1>6, <1>8

\* What a write() of one line leaves.
LEMMA LineMoves ==
    ASSUME Types, NEW t \in Stamped(n), WriteLine(t)
    PROVE  /\ outfd' \in BOOLEAN /\ wire' \in Seq(Stamped(n))
           /\ outfd' => outfd
           /\ outfd' => \A k : HasConn(wire', k) <=> HasConn(wire, k) \/ IsConn(t, k)
<1>1. CASE outfd /\ wire' = Append(wire, t) /\ UNCHANGED outfd
  <2>1. wire' \in Seq(Stamped(n))
        /\ \A k : HasConn(wire', k) <=> HasConn(wire, k) \/ IsConn(t, k)
    BY <1>1, ConnAppend DEF Types
  <2>2. QED BY <1>1, <2>1 DEF Types
<1>2. CASE outfd' = FALSE /\ UNCHANGED wire
  BY <1>2 DEF Types
<1>3. QED BY <1>1, <1>2 DEF WriteLine

\* Places on the same side of the header, and of the begin of the body.
Follows(p, q) ==
    \/ p \in Early /\ q \in Early
    \/ p \in Middle /\ q \in Middle
    \/ p \in Late /\ q \in Late

\* A step that puts tokens in the ring or in a write that is to be made.
LEMMA Spoken ==
    ASSUME Inv, phase # "writev", n > 0,
           NEW tokens \in Seq(Stamped(n)), NEW chunked \in BOOLEAN,
           NEW next \in Phase \ {"writev", "idle"},
           \/ Output(tokens, chunked, next)
           \/ Chunk(tokens, chunked, next) /\ UNCHANGED out,
           UNCHANGED <<request, outfd, wire, torn>>,
           calls' \in 0 .. MaxWrites, headers' \in 0 .. MaxHeaders, wrote' \in 0 .. 2 * calls',
           next \in Failing => keep = FALSE,
           outfd /\ n > 0 =>
             \/ Follows(phase, next) /\ ~HasConn(tokens, n) /\ (next \in Late \/ ~chunked)
             \/ /\ phase \in Early /\ next \in Middle /\ ~chunked
                /\ Due <=> HasConn(tokens, n)
             \/ /\ phase \in Middle /\ next \in Late /\ ~chunked
                /\ ~HasConn(tokens, n) /\ Chunk(tokens, chunked, next)
    PROVE  Inv'
<1>1. Types /\ job = NoJob
  BY DEF Inv, Agree
<1>2. /\ phase' \in Phase /\ after' \in Phase
      /\ out' \in Seq(Stamped(n)) /\ Len(out') <= OutCap /\ job' \in Job(n)
      /\ Place' = next
      /\ phase' # "writev" => job' = NoJob
      /\ job'.chunked => chunked
      /\ \A k : Waits(k)' <=> HasConn(out, k) \/ HasConn(tokens, k)
      /\ Chunk(tokens, chunked, next) => phase' = "writev" \/ \A k : ~Waits(k)'
  BY <1>1, OutputMoves
<1>3. n' = n /\ rq' = rq /\ (Due' <=> Due) /\ n \in Nat
  BY <1>1 DEF n, rq, request, Due, Types
<1>4. Types'
  BY <1>1, <1>2, <1>3 DEF Types, request
<1>5. Place = phase /\ ~HasConn(job.extra, n) /\ job.chunked = FALSE
  BY <1>1, ConnOne DEF Place, NoJob
<1>6. /\ Told(n)' <=> HasConn(wire, n) \/ Waits(n)'
      /\ Told(n) <=> HasConn(wire, n) \/ HasConn(out, n)
      /\ Waits(n)' <=> HasConn(out, n) \/ HasConn(tokens, n)
      /\ Waits(n) <=> HasConn(out, n)
  BY <1>2, <1>3, <1>5 DEF Told, Waits
<1>7. ASSUME outfd, n > 0
      PROVE  /\ next \in Early => ~Told(n)'
             /\ next \in Middle => (Due' <=> Told(n)') /\ ~job'.chunked
             /\ next \in Late => (Due' <=> Told(n)')
             /\ next \in Late /\ (phase' # "writev" \/ job'.chunked) => ~Waits(n)'
  <2>1. /\ phase \in Early => ~Told(n)
        /\ phase \in Middle => (Due <=> Told(n))
        /\ phase \in Late => (Due <=> Told(n)) /\ ~Waits(n)
    BY <1>5, <1>7 DEF Inv, Agree
  <2>2. Early \cap Middle = {} /\ Early \cap Late = {} /\ Middle \cap Late = {}
    BY DEF Early, Middle, Late
  <2>3. CASE Follows(phase, next) /\ ~HasConn(tokens, n) /\ (next \in Late \/ ~chunked)
    BY <1>2, <1>3, <1>6, <2>1, <2>2, <2>3 DEF Follows
  <2>4. CASE phase \in Early /\ next \in Middle /\ ~chunked /\ (Due <=> HasConn(tokens, n))
    BY <1>2, <1>3, <1>6, <2>1, <2>2, <2>4
  <2>5. CASE /\ phase \in Middle /\ next \in Late /\ ~chunked
             /\ ~HasConn(tokens, n) /\ Chunk(tokens, chunked, next)
    BY <1>2, <1>3, <1>6, <2>1, <2>2, <2>5
  <2>6. QED BY <1>7, <2>3, <2>4, <2>5
<1>8. Agree'
  <2>1. (outfd' <=> outfd) /\ (keep' = keep)
    BY DEF request
  <2>2. QED BY <1>2, <1>3, <1>7, <2>1 DEF Agree
<1>9. QED BY <1>4, <1>8 DEF Inv

\* A step that goes on without a write, but for a line of another kind.
LEMMA Moved ==
    ASSUME Inv, phase # "writev", n > 0, Types', phase' # "writev",
           UNCHANGED <<asked, keep, job>>,
           outfd' => /\ outfd
                     /\ HasConn(wire', n) <=> HasConn(wire, n)
                     /\ HasConn(out', n) <=> HasConn(out, n),
           phase' \in Failing => keep = FALSE,
           phase' = "idle" => keep = TRUE,
           outfd /\ n > 0 => \/ Follows(phase, phase')
                             \/ phase \in Early /\ phase' \in Middle /\ ~Due
    PROVE  Inv'
<1>1. job = NoJob /\ job' = NoJob /\ Place = phase /\ Place' = phase'
  BY DEF Inv, Agree, Place
<1>2. n' = n /\ rq' = rq /\ (Due' <=> Due)
  BY DEF n, rq, Due
<1>3. ASSUME outfd', n > 0
      PROVE  /\ phase' \in Early => ~Told(n)'
             /\ phase' \in Middle => (Due' <=> Told(n)') /\ ~job'.chunked
             /\ phase' \in Late => (Due' <=> Told(n)') /\ ~Waits(n)'
  <2>1. outfd /\ (Told(n)' <=> Told(n)) /\ (Waits(n)' <=> Waits(n))
    BY <1>1, <1>2, <1>3 DEF Told, Waits
  <2>2. /\ phase \in Early => ~Told(n)
        /\ phase \in Middle => (Due <=> Told(n))
        /\ phase \in Late => (Due <=> Told(n)) /\ ~Waits(n)
    BY <1>1, <1>3, <2>1 DEF Inv, Agree
  <2>3. Early \cap Middle = {} /\ Early \cap Late = {} /\ Middle \cap Late = {}
    BY DEF Early, Middle, Late
  <2>4. job'.chunked = FALSE
    BY <1>1 DEF NoJob
  <2>5. CASE Follows(phase, phase')
    BY <1>2, <2>1, <2>2, <2>3, <2>4, <2>5 DEF Follows
  <2>6. CASE phase \in Early /\ phase' \in Middle /\ ~Due
    BY <1>2, <2>1, <2>2, <2>3, <2>4, <2>6
  <2>7. QED BY <1>3, <2>1, <2>5, <2>6
<1>4. Agree'
  BY <1>1, <1>2, <1>3 DEF Agree
<1>5. QED BY <1>4 DEF Inv

---------------------------------------------------------------------------
(* The steps                                                               *)

\* A token is stamped with the request that is being answered.
LEMMA TokenIs ==
    ASSUME Types, n > 0, NEW kind \in Kinds, NEW value \in Int
    PROVE  /\ Token(kind, value) \in Stamped(n)
           /\ <<Token(kind, value)>> \in Seq(Stamped(n))
           /\ IsConn(Token(kind, value), n) <=> kind = "connection"
           /\ HasConn(<<Token(kind, value)>>, n) <=> kind = "connection"
<1>1. n \in Nat /\ rq.method \in {"get", "head"}
  BY HttpdAssumption DEF Types, n, rq, RequestType
<1>2. Token(kind, value) \in Stamped(n)
  BY <1>1 DEF Token, Stamped
<1>3. IsConn(Token(kind, value), n) <=> kind = "connection"
  BY DEF Token, IsConn
<1>4. HasConn(<<Token(kind, value)>>, n) <=> kind = "connection"
  BY <1>3, ConnOne
<1>5. QED BY <1>2, <1>3, <1>4

\* The pieces of a call of output->write.
LEMMA TokensAre ==
    ASSUME Types, n > 0, NEW lo \in Nat, NEW hi \in Nat
    PROVE  /\ Tokens("data", lo, hi) \in Seq(Stamped(n))
           /\ ~HasConn(Tokens("data", lo, hi), n)
<1> DEFINE s == Tokens("data", lo, hi)
           m == IF hi - lo + 1 < 0 THEN 0 ELSE hi - lo + 1
<1>1. s = [i \in 1 .. m |-> Token("data", lo + i - 1)] /\ m \in Nat
  BY DEF Tokens
<1> HIDE DEF s, m
<1>2. ASSUME NEW i \in 1 .. m
      PROVE  Token("data", lo + i - 1) \in Stamped(n) /\ ~IsConn(Token("data", lo + i - 1), n)
  <2>1. lo + i - 1 \in Int /\ "data" \in Kinds
    BY <1>1 DEF Kinds
  <2>2. QED BY <2>1, TokenIs
<1>3. \A i \in 1 .. m : s[i] \in Stamped(n) /\ ~IsConn(s[i], n)
  BY <1>1, <1>2
<1>4. s \in Seq(Stamped(n)) /\ Len(s) = m
  <2>1. s \in [1 .. m -> Stamped(n)]
    BY <1>1, <1>3
  <2>2. s \in Seq(Stamped(n))
    <3>1. m \in Nat
      BY <1>1
    <3>2. QED BY <2>1, <3>1, SeqDef
  <2>3. 1 .. Len(s) = 1 .. m /\ Len(s) \in Nat
    BY <2>1, <2>2, LenProperties
  <2>4. QED BY <1>1, <2>2, <2>3
<1>5. ~HasConn(s, n)
  BY <1>3, <1>4 DEF HasConn
<1>6. QED BY <1>4, <1>5 DEF s

\* When the version of a request is one of two, Due is what the code asks.
LEMMA DueIs ==
    ASSUME Types, n > 0
    PROVE  Due <=> (keep # (rq.version >= 11))
<1>1. rq.version \in {10, 11}
  BY HttpdAssumption DEF Types, n, rq, RequestType
<1>2. CASE rq.version = 10
  BY <1>2 DEF Due, Types
<1>3. CASE rq.version = 11
  BY <1>3 DEF Due, Types
<1>4. QED BY <1>1, <1>2, <1>3

\* Calls of the application and the headers of the server.
LEMMA SpokenSteps ==
    ASSUME Inv,
           \/ AppHeader \/ AppFlush \/ AddConnection \/ AddEncoding \/ EndHeaders \/ Flush
           \/ ErrorHeaders \/ ErrorEndHeaders \/ ErrorFlush
           \/ \E k \in 1 .. 2 : AppWrite(k)
    PROVE  Inv'
<1> DEFINE Goes(next) == /\ next \in Phase \ {"writev", "idle"} /\ phase # "writev" /\ n > 0
                         /\ next \in Failing => keep = FALSE
           Within(next) == Follows(phase, next) /\ Goes(next)
           Counted == /\ calls' \in 0 .. MaxWrites /\ headers' \in 0 .. MaxHeaders
                      /\ wrote' \in 0 .. 2 * calls'
           Kept == UNCHANGED <<request, outfd, wire, torn>>
<1>1. Types /\ Agree
  BY DEF Inv
<1>2. calls \in 0 .. MaxWrites /\ headers \in 0 .. MaxHeaders /\ wrote \in 0 .. 2 * calls
      /\ keep \in BOOLEAN /\ FALSE \in BOOLEAN
      /\ MaxWrites \in Nat /\ MaxHeaders \in Nat
  BY <1>1, HttpdAssumption DEF Types
<1>3. <<>> \in Seq(Stamped(n)) /\ ~HasConn(<<>>, n)
  BY ConnOne
<1>4. UNCHANGED history => Counted
  BY <1>2 DEF history
<1>5. UNCHANGED <<request, outfd, wire, history>> => Kept
  BY DEF history
<1>0. n > 0
  BY <1>1 DEF Agree, AppHeader, AppFlush, AddConnection, AddEncoding, EndHeaders, Flush,
              ErrorHeaders, ErrorEndHeaders, ErrorFlush, AppWrite
<1> USE DEF Early, Middle, Late, Failing, Follows, Phase
<1>6. CASE AppHeader
  <2> DEFINE t == Token("header", headers + 1)
  <2>1. <<t>> \in Seq(Stamped(n)) /\ ~HasConn(<<t>>, n)
    BY <1>0, <1>1, <1>2, TokenIs DEF Kinds
  <2>2. Output(<<t>>, FALSE, phase) /\ Kept /\ Counted
    <3>1. headers < MaxHeaders /\ headers' = headers + 1 /\ UNCHANGED <<calls, wrote>>
      BY <1>6 DEF AppHeader
    <3>2. Counted
      BY <1>2, <3>1
    <3>3. QED BY <1>6, <3>2 DEF AppHeader
  <2>3. Within(phase)
    BY <1>0, <1>6 DEF AppHeader
  <2> HIDE DEF t, Early, Middle, Late, Failing, Follows, Phase
  <2>4. QED BY <1>2, <2>1, <2>2, <2>3, Spoken
<1>7. CASE AppFlush
  <2>1. Chunk(<<>>, keep, "response") /\ UNCHANGED out /\ Kept /\ Counted
    BY <1>2, <1>7 DEF AppFlush
  <2>2. Within("response") /\ "response" \in Late
    BY <1>0, <1>7 DEF AppFlush
  <2> HIDE DEF Early, Middle, Late, Failing, Follows, Phase
  <2>3. QED BY <1>2, <1>3, <2>1, <2>2, Spoken
<1>8. ASSUME NEW k \in 1 .. 2, AppWrite(k) PROVE Inv'
  <2> DEFINE ts == Tokens("data", wrote + 1, wrote + k)
  <2>1. ts \in Seq(Stamped(n)) /\ ~HasConn(ts, n)
    <3>1. wrote + 1 \in Nat /\ wrote + k \in Nat
      BY <1>2
    <3>2. QED BY <1>0, <1>1, <3>1, TokensAre
  <2>2. Output(ts, keep, "response") /\ Kept /\ Counted
    BY <1>2, <1>8 DEF AppWrite
  <2>3. Within("response") /\ "response" \in Late
    BY <1>0, <1>8 DEF AppWrite
  <2> HIDE DEF ts, Early, Middle, Late, Failing, Follows, Phase
  <2>4. QED BY <1>2, <2>1, <2>2, <2>3, Spoken
<1>9. CASE AddConnection
  <2>1. UNCHANGED <<request, outfd, wire, history>> /\ Kept /\ Counted
    BY <1>4, <1>5, <1>9 DEF AddConnection
  <2>2. n > 0 => (Due <=> keep # (rq.version >= 11))
    BY <1>1, DueIs
  <2>3. phase \in Early /\ "encoding" \in Middle /\ Goes("encoding")
    BY <1>0, <1>9 DEF AddConnection
  <2>4. CASE keep # (rq.version >= 11)
    <3> DEFINE t == Token("connection", 0)
    <3>1. <<t>> \in Seq(Stamped(n)) /\ HasConn(<<t>>, n)
      BY <1>0, <1>1, TokenIs DEF Kinds
    <3>2. Output(<<t>>, FALSE, "encoding") /\ (n > 0 => Due)
      BY <1>9, <2>2, <2>4 DEF AddConnection
    <3> HIDE DEF t, Early, Middle, Late, Failing, Follows, Phase
    <3>3. QED BY <1>2, <2>1, <2>3, <3>1, <3>2, Spoken
  <2>5. CASE ~(keep # (rq.version >= 11))
    <3>1. phase' = "encoding" /\ UNCHANGED <<out, job, after>> /\ (n > 0 => ~Due)
      BY <1>9, <2>2, <2>5 DEF AddConnection
    <3>2. Types' /\ UNCHANGED <<asked, keep>>
      BY <1>1, <2>1, <3>1 DEF Types, n, request, history
    <3>3. phase' # "writev" /\ phase' # "idle" /\ UNCHANGED <<wire, out, outfd, job>>
          /\ phase' \notin Failing /\ phase # "writev"
      BY <2>3, <2>1, <3>1
    <3> HIDE DEF Early, Middle, Late, Failing, Follows, Phase
    <3>4. QED BY <2>3, <3>1, <3>2, <3>3, Moved
  <2>6. QED BY <2>4, <2>5
<1>10. CASE AddEncoding
  <2>1. UNCHANGED <<request, outfd, wire, history>> /\ Kept /\ Counted
    BY <1>4, <1>5, <1>10 DEF AddEncoding
  <2>2. Within("blank")
    BY <1>0, <1>10 DEF AddEncoding
  <2>3. CASE keep
    <3> DEFINE t == Token("chunked", 0)
    <3>1. <<t>> \in Seq(Stamped(n)) /\ ~HasConn(<<t>>, n)
      BY <1>0, <1>1, TokenIs DEF Kinds
    <3>2. Output(<<t>>, FALSE, "blank")
      BY <1>10, <2>3 DEF AddEncoding
    <3> HIDE DEF t, Early, Middle, Late, Failing, Follows, Phase
    <3>3. QED BY <1>2, <2>1, <2>2, <3>1, <3>2, Spoken
  <2>4. CASE ~keep
    <3>1. phase' = "blank" /\ UNCHANGED <<out, job, after>>
      BY <1>10, <2>4 DEF AddEncoding
    <3>2. Types' /\ UNCHANGED <<asked, keep>>
      BY <1>1, <2>1, <3>1 DEF Types, n, request, history
    <3>3. phase' # "writev" /\ phase' # "idle" /\ UNCHANGED <<wire, out, outfd, job>>
          /\ phase' \notin Failing /\ phase # "writev"
      BY <2>2, <2>1, <3>1
    <3> HIDE DEF Early, Middle, Late, Failing, Follows, Phase
    <3>4. QED BY <2>2, <3>1, <3>2, <3>3, Moved
  <2>5. QED BY <2>3, <2>4
<1>11. CASE EndHeaders \/ ErrorEndHeaders
  <2> DEFINE t == Token("blank", 0)
  <2>1. <<t>> \in Seq(Stamped(n)) /\ ~HasConn(<<t>>, n)
    BY <1>0, <1>1, TokenIs DEF Kinds
  <2>2. phase = "errblank" => keep = FALSE
    BY <1>1 DEF Agree, Place
  <2>3. PICK next \in {"flush", "response", "errbody"} :
            /\ Chunk(<<t>>, FALSE, next)
            /\ next = "errbody" => phase = "errblank"
    BY <1>11 DEF EndHeaders, ErrorEndHeaders
  <2>4. phase \in {"blank", "errblank"} /\ UNCHANGED out /\ Kept /\ Counted
    BY <1>4, <1>5, <1>11 DEF EndHeaders, ErrorEndHeaders, history
  <2>5. phase \in Middle /\ next \in Late /\ Goes(next)
    BY <1>0, <2>2, <2>3, <2>4
  <2> HIDE DEF t, Early, Middle, Late, Failing, Follows, Phase
  <2>6. QED BY <1>2, <2>1, <2>3, <2>4, <2>5, Spoken
<1>12. CASE Flush \/ ErrorFlush
  <2>1. phase = "errflush" => keep = FALSE
    BY <1>1 DEF Agree, Place
  <2>2. PICK next \in {"end", "closed"}, c \in BOOLEAN :
            Chunk(<<>>, c, next) /\ (next = "closed" => phase = "errflush")
    BY <1>2, <1>12 DEF Flush, ErrorFlush
  <2>3. phase \in {"flush", "errflush"} /\ UNCHANGED out /\ Kept /\ Counted
    BY <1>4, <1>5, <1>12 DEF Flush, ErrorFlush
  <2>4. Within(next) /\ next \in Late
    BY <1>0, <2>1, <2>2, <2>3
  <2> HIDE DEF Early, Middle, Late, Failing, Follows, Phase
  <2>5. QED BY <1>3, <2>2, <2>3, <2>4, Spoken
<1>13. CASE ErrorHeaders
  <2> DEFINE t == Token(IF rq.version = 11 THEN "connection" ELSE "header", 0)
  <2>1. phase = "errhead" /\ Output(<<t>>, FALSE, "errblank") /\ Kept /\ Counted
    BY <1>4, <1>5, <1>13 DEF ErrorHeaders
  <2>2. keep = FALSE /\ (Due <=> rq.version = 11)
    BY <1>1, <2>1 DEF Agree, Place, Due
  <2>3. <<t>> \in Seq(Stamped(n)) /\ (HasConn(<<t>>, n) <=> rq.version = 11)
    BY <1>0, <1>1, TokenIs DEF Kinds
  <2>4. phase \in Early /\ "errblank" \in Middle /\ Goes("errblank")
    BY <1>0, <2>1, <2>2
  <2> HIDE DEF t, Early, Middle, Late, Failing, Follows, Phase
  <2>5. QED BY <1>2, <2>1, <2>2, <2>3, <2>4, Spoken
<1>14. QED BY <1>6, <1>7, <1>8, <1>9, <1>10, <1>11, <1>12, <1>13

\* A line that is no Connection header.
LEMMA LineIs ==
    ASSUME Types, n > 0, NEW kind \in Kinds \ {"connection"}, NEW value \in Int,
           WriteLine(Token(kind, value))
    PROVE  /\ outfd' \in BOOLEAN /\ wire' \in Seq(Stamped(n))
           /\ outfd' => outfd /\ (HasConn(wire', n) <=> HasConn(wire, n))
<1> DEFINE t == Token(kind, value)
<1>1. t \in Stamped(n) /\ ~IsConn(t, n) /\ WriteLine(t)
  BY TokenIs
<1> HIDE DEF t
<1>2. QED BY <1>1, LineMoves

\* The standard body.
LEMMA StandardIs ==
    ASSUME Types, n > 0, NEW t, t = Token("standard", 0),
           (out' = Append(out, t) /\ Len(out) < OutCap) \/ out' = out
    PROVE  /\ out' \in Seq(Stamped(n)) /\ Len(out') <= OutCap
           /\ HasConn(out', n) <=> HasConn(out, n)
<1>1. t \in Stamped(n) /\ ~IsConn(t, n)
  <2>1. "standard" \in Kinds /\ "standard" # "connection" /\ 0 \in Int
    BY DEF Kinds
  <2>2. QED BY <2>1, TokenIs
<1>2. CASE out' = out
  BY <1>2 DEF Types
<1>3. CASE out' = Append(out, t) /\ Len(out) < OutCap
  <2>1. out' \in Seq(Stamped(n)) /\ (HasConn(out', n) <=> HasConn(out, n))
    BY <1>1, <1>3, ConnAppend DEF Types
  <2>2. Len(out') = Len(out) + 1 /\ Len(out) \in Nat /\ OutCap \in Nat
    BY <1>1, <1>3, HttpdAssumption DEF Types
  <2>3. QED BY <1>3, <2>1, <2>2
<1>4. QED BY <1>2, <1>3

\* The steps that add no header and write no chunk.
LEMMA MovedSteps ==
    ASSUME Inv,
           \/ WriteStatus \/ EndBody \/ Return \/ ErrorStatus \/ ErrorBody
           \/ \E s \in {100, 200, 204} : AppHeaderDone(s)
           \/ \E s \in {200, 204} : AppPayloadDone(s)
           \/ \E failed \in BOOLEAN : AppResponseDone(failed)
    PROVE  Inv'
<1> DEFINE Steps == /\ Follows(phase, phase') /\ phase' \in Phase
                    /\ phase # "writev" /\ phase' # "writev"
           Keeps == UNCHANGED <<asked, keep, job, after, wrote, headers, calls, torn>>
           Wires == /\ outfd' \in BOOLEAN /\ wire' \in Seq(Stamped(n))
                    /\ outfd' => outfd /\ (HasConn(wire', n) <=> HasConn(wire, n))
           Holds == /\ out' \in Seq(Stamped(n)) /\ Len(out') <= OutCap
                    /\ HasConn(out', n) <=> HasConn(out, n)
           Closes == (phase' \in Failing => keep = FALSE) /\ (phase' = "idle" => keep = TRUE)
<1>1. Types /\ Agree
  BY DEF Inv
<1>2. n > 0
  BY <1>1 DEF Agree, WriteStatus, EndBody, Return, ErrorStatus, ErrorBody, AppHeaderDone,
              AppPayloadDone, AppResponseDone
<1>3. UNCHANGED <<outfd, wire>> => Wires
  BY <1>1 DEF Types
<1>4. UNCHANGED out => Holds
  BY <1>1 DEF Types
<1>5. \A kind \in Kinds \ {"connection"}, value \in Int : WriteLine(Token(kind, value)) => Wires
  BY <1>1, <1>2, LineIs
<1>6. ASSUME Steps, Keeps, Wires, Holds, Closes, status' \in 0 .. 599
      PROVE  Inv'
  <2>1. Types'
    BY <1>1, <1>6 DEF Types, n
  <2>2. QED BY <1>2, <1>6, <2>1, Moved
<1> HIDE DEF Wires, Holds
<1> USE DEF Early, Middle, Late, Failing, Follows, Phase, request, history
<1>7. CASE WriteStatus \/ ErrorStatus
  <2>1. WriteLine(Token("status", status)) /\ status \in Int /\ status' \in 0 .. 599
    <3>1. status \in 0 .. 599
      BY <1>1 DEF Types
    <3>2. WriteLine(Token("status", status)) /\ status' = status
      BY <1>7 DEF WriteStatus, ErrorStatus
    <3>3. QED BY <3>1, <3>2
  <2>2. Wires /\ Holds
    BY <1>4, <1>5, <1>7, <2>1 DEF Kinds, WriteStatus, ErrorStatus
  <2>3. phase = "errstatus" => keep = FALSE
    BY <1>1 DEF Agree, Place
  <2>4. Steps /\ Keeps /\ Closes
    BY <1>7, <2>3 DEF WriteStatus, ErrorStatus
  <2>5. QED BY <1>6, <2>1, <2>2, <2>4
<1>8. CASE EndBody
  <2>1. Wires /\ Holds
    BY <1>3, <1>4, <1>5, <1>8 DEF Kinds, EndBody
  <2>2. Steps /\ Keeps /\ Closes /\ status' \in 0 .. 599
    BY <1>1, <1>8 DEF EndBody, Types
  <2>3. QED BY <1>6, <2>1, <2>2
<1>9. CASE Return
  <2>1. Wires /\ Holds
    BY <1>3, <1>4, <1>9 DEF Return
  <2>2. Steps /\ Keeps /\ Closes /\ status' \in 0 .. 599
    BY <1>1, <1>9 DEF Return, Types
  <2>3. QED BY <1>6, <2>1, <2>2
<1>10. ASSUME NEW s \in {100, 200, 204}, AppHeaderDone(s) PROVE Inv'
  <2>1. Wires /\ Holds
    BY <1>3, <1>4, <1>5, <1>10 DEF Kinds, AppHeaderDone
  <2>2. Steps /\ Keeps /\ Closes /\ status' \in 0 .. 599
    BY <1>10 DEF AppHeaderDone
  <2>3. QED BY <1>6, <2>1, <2>2
<1>11. ASSUME NEW s \in {200, 204}, AppPayloadDone(s) PROVE Inv'
  <2>1. Wires /\ Holds
    BY <1>3, <1>4, <1>11 DEF AppPayloadDone
  <2>2. Steps /\ Keeps /\ Closes /\ status' \in 0 .. 599
    BY <1>11 DEF AppPayloadDone
  <2>3. QED BY <1>6, <2>1, <2>2
<1>12. CASE ErrorBody \/ \E failed \in BOOLEAN : AppResponseDone(failed)
  <2>1. Holds
    BY <1>1, <1>2, <1>12, StandardIs DEF Holds, ErrorBody, AppResponseDone
  <2>2. Wires
    BY <1>3, <1>12 DEF ErrorBody, AppResponseDone
  <2>3. phase = "errbody" => keep = FALSE
    BY <1>1 DEF Agree, Place
  <2>4. Steps /\ Keeps /\ Closes
    BY <1>12, <2>3 DEF ErrorBody, AppResponseDone
  <2>5. status' \in 0 .. 599
    <3>1. status' = status
      BY <1>12 DEF ErrorBody, AppResponseDone
    <3>2. QED BY <1>1, <3>1 DEF Types
  <2>6. QED BY <1>6, <2>1, <2>2, <2>4, <2>5
<1>13. QED BY <1>7, <1>8, <1>9, <1>10, <1>11, <1>12

\* A request begins, or none.
LEMMA ReadSteps ==
    ASSUME Inv, ReadEnd \/ \E r \in Requests : ReadRequest(r) \/ ReadBad(r)
    PROVE  Inv'
<1>1. Types /\ Agree /\ phase = "idle" /\ job = NoJob
  BY DEF Inv, Agree, ReadEnd, ReadRequest, ReadBad, NextRequest
<1>2. NoJob.extra = <<>> /\ NoJob.chunked = FALSE /\ \A k : NoJob \in Job(k)
  BY EmptySeq DEF NoJob, Job
<1>3. \A k : ~HasConn(<<>>, k)
  BY ConnOne
<1>4. OutCap \in Nat \ {0} /\ MaxWrites \in Nat /\ MaxHeaders \in Nat
  BY HttpdAssumption
<1>5. CASE ReadEnd
  <2>1. phase' = "ended" /\ out' = <<>>
        /\ UNCHANGED <<asked, status, keep, job, after, outfd, wire, wrote, headers, calls, torn>>
    BY <1>5 DEF ReadEnd, request, history
  <2>2. Types'
    BY <1>1, <1>4, <2>1 DEF Types, n, Phase
  <2>3. Agree'
    BY <1>1, <2>1 DEF Agree, Place, Early, Middle, Late, Failing
  <2>4. QED BY <2>2, <2>3 DEF Inv
<1>6. ASSUME NEW r \in Requests, ReadRequest(r) \/ ReadBad(r)
      PROVE  Inv'
  <2> DEFINE t == [kind |-> "header", value |-> 0, rq |-> n + 1, method |-> r.method]
  <2>1. /\ asked' = Append(asked, r) /\ n < MaxRequests
        /\ wrote' = 0 /\ headers' = 0 /\ calls' = 0
        /\ UNCHANGED <<job, after, outfd, wire, torn>>
    BY <1>6 DEF ReadRequest, ReadBad, NextRequest
  <2>2. n \in Nat /\ n' = n + 1 /\ n' <= MaxRequests /\ asked' \in Seq(Requests)
    BY <1>1, <2>1, HttpdAssumption DEF Types, n
  <2>3. wire' \in Seq(Stamped(n')) /\ ~HasConn(wire', n')
    BY <1>1, <2>1, <2>2, ConnLater DEF Types
  <2>4. t \in Stamped(n') /\ ~IsConn(t, n')
    BY <2>2, HttpdAssumption DEF Stamped, Kinds, IsConn, RequestType
  <2>5. \/ out' = <<t>> /\ phase' = "header" /\ status' = 0
        \/ out' = <<>> /\ phase' = "errstatus" /\ status' = 400
    BY <1>6 DEF ReadRequest, ReadBad
  <2>6. keep' \in BOOLEAN /\ (phase' = "errstatus" => keep' = FALSE)
    <3>1. CASE ReadRequest(r)
      BY <3>1 DEF ReadRequest, KeepAlive
    <3>2. CASE ReadBad(r)
      BY <3>2 DEF ReadBad
    <3>3. QED BY <1>6, <3>1, <3>2
  <2> HIDE DEF t
  <2>7. out' \in Seq(Stamped(n')) /\ Len(out') <= OutCap /\ ~HasConn(out', n')
    <3>1. CASE out' = <<>>
      BY <1>3, <1>4, <3>1, EmptySeq
    <3>2. CASE out' = <<t>>
      <4>1. <<t>> \in Seq(Stamped(n')) /\ Len(<<t>>) = 1 /\ ~HasConn(<<t>>, n')
        BY <2>4, ConnOne
      <4>2. QED BY <1>4, <3>2, <4>1
    <3>3. QED BY <2>5, <3>1, <3>2
  <2>8. Types'
    <3>1. phase' \in Phase /\ status' \in 0 .. 599 /\ keep' \in BOOLEAN
      BY <2>5, <2>6 DEF Phase
    <3>2. torn' \subseteq 1 .. n' /\ job' \in Job(n') /\ after' \in Phase /\ outfd' \in BOOLEAN
      BY <1>1, <1>2, <2>1, <2>2 DEF Types
    <3>3. calls' \in 0 .. MaxWrites /\ headers' \in 0 .. MaxHeaders /\ wrote' \in 0 .. 2 * calls'
      BY <1>4, <2>1
    <3>4. QED BY <2>2, <2>3, <2>7, <3>1, <3>2, <3>3 DEF Types
  <2>9. Agree'
    <3>1. Place' = phase' /\ phase' \in {"header", "errstatus"}
          /\ (phase' = "errstatus" => keep' = FALSE)
      BY <2>5, <2>6 DEF Place
    <3>2. ~Told(n)'
      BY <1>1, <1>2, <1>3, <2>1, <2>3, <2>7 DEF Told, Waits
    <3>3. n' > 0
      BY <2>2
    <3>4. QED BY <1>1, <2>1, <3>1, <3>2, <3>3 DEF Agree, Early, Middle, Late, Failing
  <2>10. QED BY <2>8, <2>9 DEF Inv
<1>7. QED BY <1>5, <1>6

\* The end of a write, or of a part of it: what is told or waits stays so.
LEMMA WriteKeeps ==
    ASSUME Inv, phase = "writev", Types',
           UNCHANGED <<asked, keep, after>>, phase' \in {"writev", after},
           phase' # "writev" => job' = NoJob, job'.chunked = FALSE,
           outfd' => outfd,
           outfd' /\ (~job.chunked \/ ~Waits(n)) =>
               (Told(n)' <=> Told(n)) /\ (phase' # "writev" => ~Waits(n)')
    PROVE  Inv'
<1>1. Agree /\ n > 0 /\ Place = after
  BY DEF Inv, Agree, Place
<1>2. n' = n /\ rq' = rq /\ (Due' <=> Due) /\ Place' = after
  BY DEF n, rq, Due, Place
<1>3. ASSUME outfd'
      PROVE  /\ after \in Early => ~Told(n)'
             /\ after \in Middle => (Due' <=> Told(n)') /\ ~job'.chunked
             /\ after \in Late => (Due' <=> Told(n)')
             /\ after \in Late /\ (phase' # "writev" \/ job'.chunked) => ~Waits(n)'
  <2>1. /\ after \in Early => ~Told(n)
        /\ after \in Middle => (Due <=> Told(n)) /\ ~job.chunked
        /\ after \in Late => (Due <=> Told(n)) /\ (job.chunked => ~Waits(n))
    BY <1>1, <1>3 DEF Agree
  <2>2. ~Told(n) => ~Waits(n)
    BY DEF Told
  <2>3. QED BY <1>2, <1>3, <2>1, <2>2
<1>4. Agree'
  BY <1>1, <1>2, <1>3 DEF Agree
<1>5. QED BY <1>4 DEF Inv

\* writev() of the ring a and the pieces b that follow it: what has been written
\* and what is left of both is what there was.
LEMMA Parts ==
    ASSUME NEW S, NEW a \in Seq(S), NEW b \in Seq(S), NEW r \in 1 .. Len(a \o b), NEW k
    PROVE  LET h == SubSeq(a \o b, 1, r)
               c == SubSeq(a, r + 1, Len(a))
               d == SubSeq(b, AtLeastZero(r - Len(a)) + 1, Len(b))
           IN  /\ HasConn(h, k) \/ HasConn(c, k) \/ HasConn(d, k) <=> HasConn(a, k) \/ HasConn(b, k)
               /\ r >= Len(a \o b) => ~HasConn(c, k) /\ ~HasConn(d, k)
<1> DEFINE ab == a \o b
           z == AtLeastZero(r - Len(a))
           h == SubSeq(ab, 1, r)
           c == SubSeq(a, r + 1, Len(a))
           d == SubSeq(b, z + 1, Len(b))
<1>1. /\ ab \in Seq(S) /\ Len(ab) = Len(a) + Len(b) /\ Len(a) \in Nat /\ Len(b) \in Nat
      /\ \A i \in 1 .. Len(a) : ab[i] = a[i]
      /\ \A i \in 1 .. Len(b) : ab[Len(a) + i] = b[i]
  BY ConcatProperties
<1>2. z \in Nat /\ (r <= Len(a) => z = 0) /\ (r > Len(a) => z = r - Len(a))
  BY <1>1 DEF AtLeastZero
<1> HIDE DEF ab, z
<1>3. r \in 1 .. Len(ab)
  BY DEF ab
<1>4. HasConn(h, k) <=> \E i \in 1 .. r : IsConn(ab[i], k)
  <2>1. 1 \in Nat \ {0} /\ r \in 0 .. Len(ab)
    BY <1>1, <1>3
  <2>2. QED BY <1>1, <2>1, ConnSub
<1>5. HasConn(c, k) <=> \E i \in r + 1 .. Len(a) : IsConn(a[i], k)
  <2>1. r + 1 \in Nat \ {0} /\ Len(a) \in 0 .. Len(a)
    BY <1>1, <1>3
  <2>2. QED BY <2>1, ConnSub
<1>6. HasConn(d, k) <=> \E i \in z + 1 .. Len(b) : IsConn(b[i], k)
  <2>1. z + 1 \in Nat \ {0} /\ Len(b) \in 0 .. Len(b)
    BY <1>1, <1>2
  <2>2. QED BY <2>1, ConnSub
<1> HIDE DEF h, c, d
<1>7. HasConn(h, k) => HasConn(a, k) \/ HasConn(b, k)
  <2> SUFFICES ASSUME NEW i \in 1 .. r, IsConn(ab[i], k)
               PROVE  HasConn(a, k) \/ HasConn(b, k)
    BY <1>4
  <2>1. CASE i <= Len(a)
    BY <1>1, <2>1 DEF HasConn
  <2>2. CASE i > Len(a)
    <3>1. i - Len(a) \in 1 .. Len(b) /\ Len(a) + (i - Len(a)) = i
      BY <1>1, <1>3, <2>2
    <3>2. b[i - Len(a)] = ab[i]
      BY <1>1, <3>1
    <3>3. QED BY <3>1, <3>2 DEF HasConn
  <2>3. QED BY <1>1, <2>1, <2>2
<1>8. (HasConn(c, k) => HasConn(a, k)) /\ (HasConn(d, k) => HasConn(b, k))
  <2>1. r + 1 .. Len(a) \subseteq 1 .. Len(a) /\ z + 1 .. Len(b) \subseteq 1 .. Len(b)
    BY <1>1, <1>2, <1>3
  <2>2. QED BY <1>5, <1>6, <2>1 DEF HasConn
<1>9. HasConn(a, k) => HasConn(h, k) \/ HasConn(c, k)
  <2> SUFFICES ASSUME NEW i \in 1 .. Len(a), IsConn(a[i], k)
               PROVE  HasConn(h, k) \/ HasConn(c, k)
    BY DEF HasConn
  <2>1. CASE i <= r BY <1>1, <1>4, <2>1
  <2>2. CASE i > r BY <1>1, <1>5, <2>2
  <2>3. QED BY <2>1, <2>2
<1>10. HasConn(b, k) => HasConn(h, k) \/ HasConn(d, k)
  <2> SUFFICES ASSUME NEW i \in 1 .. Len(b), IsConn(b[i], k)
               PROVE  HasConn(h, k) \/ HasConn(d, k)
    BY DEF HasConn
  <2>1. CASE Len(a) + i <= r
    <3>1. Len(a) + i \in 1 .. r /\ ab[Len(a) + i] = b[i]
      BY <1>1, <2>1
    <3>2. QED BY <1>4, <3>1
  <2>2. CASE Len(a) + i > r
    <3>1. i \in z + 1 .. Len(b)
      BY <1>1, <1>2, <2>2
    <3>2. QED BY <1>6, <3>1
  <2>3. QED BY <1>1, <2>1, <2>2
<1>11. r >= Len(ab) => ~HasConn(c, k) /\ ~HasConn(d, k)
  BY <1>1, <1>2, <1>3, <1>5, <1>6
<1>12. /\ HasConn(h, k) \/ HasConn(c, k) \/ HasConn(d, k) <=> HasConn(a, k) \/ HasConn(b, k)
       /\ r >= Len(ab) => ~HasConn(c, k) /\ ~HasConn(d, k)
  BY <1>7, <1>8, <1>9, <1>10, <1>11
<1>13. QED BY <1>12 DEF ab, z, h, c, d

\* writev(): of a chunk in the making neither the size line nor the line end is
\* a Connection header, and of what is not a chunk nothing is dropped.
LEMMA WritevStep ==
    ASSUME Inv, NEW r \in Int, NEW noticed \in BOOLEAN, Writev(r, noticed)
    PROVE  Inv'
<1> DEFINE T == Stamped(n)
           extra == job.extra
           left == SubSeq(extra, AtLeastZero(r - Prefix - Len(out)) + 1, Len(extra))
           sent == SubSeq(Lines, 1, r)
<1>1. /\ Types /\ n > 0 /\ n \in Nat /\ Len(out) <= OutCap
      /\ out \in Seq(T) /\ extra \in Seq(T) /\ wire \in Seq(T) /\ job.chunked \in BOOLEAN
  BY DEF Inv, Agree, Types, Job, Writev, n
<1>2. /\ phase = "writev" /\ r \in 1 .. Len(Lines)
      /\ wire' = wire \o sent /\ out' = SubSeq(out, r - Prefix + 1, Len(out))
      /\ IF r >= Prefix + Total THEN ~noticed ELSE job.chunked \/ noticed
      /\ UNCHANGED <<asked, status, keep, after, outfd, wrote, headers, calls>>
      /\ torn' = torn \/ torn' = torn \cup {n}
  BY DEF Writev, request
<1>3. \/ noticed /\ job' = [chunked |-> FALSE, extra |-> left] /\ phase' = phase
      \/ ~noticed /\ job' = NoJob /\ phase' = after
  BY DEF Writev
<1>4. Body \in Seq(T) /\ Len(Body) \in Nat
      /\ (HasConn(Body, n) <=> Waits(n))
  BY <1>1, ConnConcat DEF Body, Waits
<1>5. Prefix \in 0 .. 1 /\ (Prefix = 1 <=> job.chunked)
  BY <1>1 DEF Prefix
<1>6. Lines \in Seq(T) /\ (HasConn(Lines, n) <=> Waits(n))
  <2>1. CASE job.chunked
    <3> DEFINE s == Token("size", Total)
               e == Token("nl", 0)
    <3>1. <<s>> \in Seq(T) /\ ~HasConn(<<s>>, n)
      <4>1. "size" \in Kinds /\ "size" # "connection" /\ Total \in Int
        BY <1>4 DEF Kinds, Total
      <4>2. QED BY <1>1, <4>1, TokenIs
    <3>2. <<e>> \in Seq(T) /\ ~HasConn(<<e>>, n)
      <4>1. "nl" \in Kinds /\ "nl" # "connection" /\ 0 \in Int
        BY DEF Kinds
      <4>2. QED BY <1>1, <4>1, TokenIs
    <3>3. Lines = (<<s>> \o Body) \o <<e>>
      BY <2>1 DEF Lines
    <3> HIDE DEF s, e, T
    <3>4. <<s>> \o Body \in Seq(T) /\ (HasConn(<<s>> \o Body, n) <=> Waits(n))
      BY <1>4, <3>1, ConnConcat
    <3>5. (<<s>> \o Body) \o <<e>> \in Seq(T)
          /\ (HasConn((<<s>> \o Body) \o <<e>>, n) <=> Waits(n))
      BY <3>2, <3>4, ConnConcat
    <3>6. QED BY <3>3, <3>5
  <2>2. CASE ~job.chunked
    BY <1>4, <2>2 DEF Lines
  <2>3. QED BY <2>1, <2>2
<1> HIDE DEF T, extra
<1>7. sent \in Seq(T) /\ (HasConn(sent, n) => Waits(n))
  <2>1. 1 \in Nat \ {0} /\ r \in 0 .. Len(Lines) /\ Len(Lines) \in Nat
    BY <1>2, <1>6
  <2>2. sent \in Seq(T) /\ (HasConn(sent, n) <=> \E i \in 1 .. r : IsConn(Lines[i], n))
    BY <1>6, <2>1, ConnSub
  <2>3. (\E i \in 1 .. r : IsConn(Lines[i], n)) => HasConn(Lines, n)
    BY <2>1 DEF HasConn
  <2>4. QED BY <1>6, <2>2, <2>3
<1>8. out' \in Seq(T) /\ Len(out') <= OutCap /\ (HasConn(out', n) => HasConn(out, n))
  <2> DEFINE z == r - Prefix + 1
  <2>1. z \in Nat \ {0} /\ Len(out) \in 0 .. Len(out) /\ Len(out) \in Nat /\ OutCap \in Nat
    BY <1>1, <1>2, <1>5, <1>6, HttpdAssumption
  <2> HIDE DEF z
  <2>2. out' \in Seq(T) /\ Len(out') <= Len(out)
        /\ (HasConn(out', n) <=> \E i \in z .. Len(out) : IsConn(out[i], n))
    <3>1. out' = SubSeq(out, z, Len(out))
      BY <1>2 DEF z
    <3>2. QED BY <1>1, <2>1, <3>1, ConnSub
  <2>3. (\E i \in z .. Len(out) : IsConn(out[i], n)) => HasConn(out, n)
    BY <2>1 DEF HasConn
  <2>4. Len(out') \in Nat
    BY <2>2
  <2>5. QED BY <1>1, <2>1, <2>2, <2>3, <2>4
<1>9. left \in Seq(T) /\ (HasConn(left, n) => HasConn(extra, n))
  <2> DEFINE z == AtLeastZero(r - Prefix - Len(out)) + 1
  <2>1. z \in Nat \ {0} /\ Len(extra) \in 0 .. Len(extra)
    BY <1>1, <1>2, <1>5, <1>6 DEF AtLeastZero
  <2> HIDE DEF z
  <2>2. left \in Seq(T)
        /\ (HasConn(left, n) <=> \E i \in z .. Len(extra) : IsConn(extra[i], n))
    BY <1>1, <2>1, ConnSub DEF z
  <2>3. (\E i \in z .. Len(extra) : IsConn(extra[i], n)) => HasConn(extra, n)
    BY <2>1 DEF HasConn
  <2>4. QED BY <2>2, <2>3
<1>10. HasConn(wire', n) <=> HasConn(wire, n) \/ HasConn(sent, n)
  <2>1. wire' = wire \o sent
    BY <1>2
  <2> HIDE DEF sent
  <2>2. QED BY <1>1, <1>7, <2>1, ConnConcat
<1>11. wire' \in Seq(T)
  <2>1. wire' = wire \o sent
    BY <1>2
  <2> HIDE DEF sent
  <2>2. QED BY <1>1, <1>7, <2>1, ConnConcat
<1>12. ~job.chunked =>
          /\ HasConn(sent, n) \/ HasConn(out', n) \/ HasConn(left, n) <=> Waits(n)
          /\ ~noticed => ~HasConn(out', n) /\ ~HasConn(left, n)
  <2> SUFFICES ASSUME ~job.chunked
               PROVE  /\ HasConn(sent, n) \/ HasConn(out', n) \/ HasConn(left, n) <=> Waits(n)
                      /\ ~noticed => ~HasConn(out', n) /\ ~HasConn(left, n)
    OBVIOUS
  <2>1. Lines = out \o extra /\ Prefix = 0 /\ Total = Len(out \o extra)
    BY <1>5 DEF Lines, Body, Prefix, Total, extra
  <2>2. /\ sent = SubSeq(out \o extra, 1, r) /\ out' = SubSeq(out, r + 1, Len(out))
        /\ left = SubSeq(extra, AtLeastZero(r - Len(out)) + 1, Len(extra))
        /\ r \in 1 .. Len(out \o extra) /\ (~noticed => r >= Len(out \o extra))
    <3>1. r - Prefix = r /\ Prefix + Total = Total
      BY <1>2, <1>4, <2>1 DEF Total
    <3>2. QED BY <1>2, <2>1, <3>1
  <2> HIDE DEF sent, left
  <2>3. Waits(n) <=> HasConn(out, n) \/ HasConn(extra, n)
    BY DEF Waits, extra
  <2>4. /\ HasConn(sent, n) \/ HasConn(out', n) \/ HasConn(left, n)
              <=> HasConn(out, n) \/ HasConn(extra, n)
        /\ r >= Len(out \o extra) => ~HasConn(out', n) /\ ~HasConn(left, n)
    BY <1>1, <2>2, Parts
  <2>5. QED BY <2>2, <2>3, <2>4
<1> HIDE DEF sent, left
<1>13. job' \in Job(n) /\ job'.chunked = FALSE
       /\ (HasConn(job'.extra, n) <=> noticed /\ HasConn(left, n))
  <2>1. CASE noticed /\ job' = [chunked |-> FALSE, extra |-> left]
    BY <1>9, <2>1 DEF Job, T
  <2>2. CASE ~noticed /\ job' = NoJob
    BY <2>2, ConnOne, EmptySeq DEF Job, NoJob
  <2>3. QED BY <1>3, <2>1, <2>2
<1>14. n' = n
  BY <1>2 DEF n
<1>15. Types'
  <2>1. torn' \subseteq 1 .. n
    <3>1. torn \subseteq 1 .. n /\ n \in 1 .. n
      BY <1>1 DEF Types
    <3>2. QED BY <1>2, <3>1
  <2>2. phase' \in Phase
    BY <1>1, <1>3 DEF Types
  <2>3. QED BY <1>1, <1>2, <1>8, <1>11, <1>13, <1>14, <2>1, <2>2 DEF Types, T
<1>16. /\ Told(n)' <=> HasConn(wire, n) \/ HasConn(sent, n) \/ Waits(n)'
       /\ Waits(n)' <=> HasConn(out', n) \/ (noticed /\ HasConn(left, n))
  <2>1. Waits(n)' <=> HasConn(out', n) \/ HasConn(job'.extra, n)
    BY <1>14 DEF Waits
  <2>2. Told(n)' <=> HasConn(wire', n) \/ Waits(n)'
    BY <1>14 DEF Told
  <2>3. QED BY <1>10, <1>13, <2>1, <2>2
<1>17. (Told(n) <=> HasConn(wire, n) \/ Waits(n)) /\ (HasConn(out, n) => Waits(n))
       /\ (HasConn(extra, n) => Waits(n))
  BY DEF Told, Waits, extra
<1>18. ~job.chunked \/ ~Waits(n) =>
          (Told(n)' <=> Told(n)) /\ (phase' # "writev" => ~Waits(n)')
  <2>1. phase' # "writev" => ~noticed
    BY <1>2, <1>3
  <2>2. CASE ~Waits(n)
    BY <1>7, <1>8, <1>9, <1>16, <1>17, <2>2
  <2>3. CASE ~job.chunked
    <3>1. (~noticed => ~HasConn(out', n) /\ ~HasConn(left, n))
          /\ (HasConn(sent, n) \/ HasConn(out', n) \/ HasConn(left, n) <=> Waits(n))
      BY <1>12, <2>3
    <3>2. HasConn(sent, n) \/ Waits(n)' <=> Waits(n)
      BY <1>16, <3>1
    <3>3. QED BY <1>16, <1>17, <2>1, <3>1, <3>2
  <2>4. QED BY <2>2, <2>3
<1>19. /\ UNCHANGED <<asked, keep, after>> /\ phase' \in {"writev", after}
       /\ phase' # "writev" => job' = NoJob
       /\ outfd' => outfd
  BY <1>2, <1>3
<1>20. QED BY <1>2, <1>13, <1>15, <1>18, <1>19, WriteKeeps

\* A write that gets nowhere.
LEMMA WriteFails ==
    ASSUME Inv, WritevPrefix \/ WritevError
    PROVE  Inv'
<1>1. Types /\ Agree /\ n > 0 /\ n' = n /\ phase = "writev"
  BY DEF Inv, Agree, WritevPrefix, WritevError, request, n
<1>2. /\ phase' = after /\ job' = NoJob
      /\ UNCHANGED <<asked, status, keep, out, after, wrote, headers, calls>>
  BY DEF WritevPrefix, WritevError, request, history
<1>3. NoJob \in Job(n) /\ NoJob.chunked = FALSE /\ ~HasConn(NoJob.extra, n)
  BY EmptySeq, ConnOne DEF NoJob, Job
<1>4. CASE WritevError
  <2>1. outfd' = FALSE /\ UNCHANGED <<wire, torn>>
    BY <1>4 DEF WritevError, history
  <2>2. Types'
    BY <1>1, <1>2, <1>3, <2>1 DEF Types
  <2>3. QED BY <1>1, <1>2, <1>3, <2>1, <2>2, WriteKeeps
<1>5. CASE WritevPrefix
  <2> DEFINE t == Token("fragment", 0)
  <2>1. t \in Stamped(n) /\ ~IsConn(t, n)
    <3>1. "fragment" \in Kinds /\ "fragment" # "connection" /\ 0 \in Int
      BY DEF Kinds
    <3>2. QED BY <1>1, <3>1, TokenIs
  <2>2. job.chunked /\ wire' = Append(wire, t) /\ torn' = torn \cup {n} /\ outfd' = outfd
    BY <1>5 DEF WritevPrefix
  <2> HIDE DEF t
  <2>3. wire' \in Seq(Stamped(n)) /\ (HasConn(wire', n) <=> HasConn(wire, n))
    BY <1>1, <2>1, <2>2, ConnAppend DEF Types
  <2>4. torn' \subseteq 1 .. n
    <3>1. n \in Nat /\ torn \subseteq 1 .. n
      BY <1>1 DEF Types, n
    <3>2. n \in 1 .. n
      BY <1>1, <3>1
    <3>3. QED BY <2>2, <3>1, <3>2
  <2>5. Types'
    BY <1>1, <1>2, <1>3, <2>2, <2>3, <2>4 DEF Types
  <2>6. ~Waits(n) => (Told(n)' <=> Told(n)) /\ ~Waits(n)'
    BY <1>1, <1>2, <1>3, <2>3 DEF Told, Waits
  <2>7. QED BY <1>1, <1>2, <1>3, <2>2, <2>5, <2>6, WriteKeeps
<1>6. QED BY <1>4, <1>5

---------------------------------------------------------------------------
(* The theorems                                                            *)

\* The types and what is told of the connection, at every step.
LEMMA InvHolds == Spec => []Inv
<1>1. Init => Inv
  <2> SUFFICES ASSUME Init PROVE Inv
    OBVIOUS
  <2>1. n = 0 /\ asked \in Seq(Requests) /\ Len(out) = 0 /\ out \in Seq(Stamped(n))
        /\ wire \in Seq(Stamped(n)) /\ job \in Job(n)
    BY EmptySeq DEF Init, n, NoJob, Job
  <2>2. Types
    <3>1. /\ n <= MaxRequests /\ Len(out) <= OutCap
          /\ calls \in 0 .. MaxWrites /\ headers \in 0 .. MaxHeaders /\ wrote \in 0 .. 2 * calls
      BY <2>1, HttpdAssumption DEF Init
    <3>2. phase \in Phase /\ after \in Phase /\ torn \subseteq 1 .. n
      BY DEF Init, Phase
    <3>3. status \in 0 .. 599 /\ keep \in BOOLEAN /\ outfd \in BOOLEAN
      <4>1. status \in 0 .. 599
        BY DEF Init
      <4>2. keep \in BOOLEAN
        BY DEF Init
      <4>3. outfd \in BOOLEAN
        BY DEF Init
      <4>4. QED BY <4>1, <4>2, <4>3
    <3>4. QED BY <2>1, <3>1, <3>2, <3>3 DEF Types
  <2>3. Agree
    BY <2>1 DEF Init, Agree, Place, Failing
  <2>4. QED BY <2>2, <2>3 DEF Inv
<1>2. Inv /\ [Next]_vars => Inv'
  <2> SUFFICES ASSUME Inv, [Next]_vars PROVE Inv'
    OBVIOUS
  <2>1. CASE UNCHANGED vars
    <3>1. Types' /\ Agree'
      BY <2>1 DEF vars, Inv, Types, Agree, n, Place, Told, Waits, Due, rq
    <3>2. QED BY <3>1 DEF Inv
  <2>2. CASE ReadEnd \/ (\E r \in Requests : ReadRequest(r)) \/ (\E r \in Requests : ReadBad(r))
    BY <2>2, ReadSteps
  <2>3. ASSUME NEW r \in 1 .. OutCap + 4, NEW noticed \in BOOLEAN, Writev(r, noticed)
        PROVE  Inv'
    <3>1. r \in Int
      BY HttpdAssumption
    <3>2. QED BY <2>3, <3>1, WritevStep
  <2>4. CASE Handle
    BY <2>3, <2>4, SpokenSteps, MovedSteps, WriteFails DEF Handle
  <2>5. QED BY <2>1, <2>2, <2>4 DEF Next
<1>3. QED BY <1>1, <1>2, PTL DEF Spec

\* Every variable keeps its type: the output ring never holds more than fits
\* (minute_httpd_output), whatever the application writes and writev() takes.
THEOREM TypeCorrect == Spec => []TypeOK
<1>1. Inv => TypeOK
  <2> SUFFICES ASSUME Types PROVE TypeOK
    BY DEF Inv
  <2>1. n \in 0 .. MaxRequests /\ \A i \in 1 .. n : asked[i] \in Requests
    BY HttpdAssumption DEF Types, n
  <2>2. wrote \in 0 .. 2 * MaxWrites
    BY HttpdAssumption DEF Types
  <2>3. job.chunked \in BOOLEAN
    BY DEF Types, Job
  <2>4. QED BY <2>1, <2>2, <2>3 DEF TypeOK, Types
<1>2. QED BY <1>1, InvHolds, PTL

\* When minute_httpd_handle has returned, the connection is kept exactly when
\* the response says so, as long as the descriptor is open.
THEOREM ClientAgreesHolds == Spec => []ClientAgrees
<1>1. Inv => ClientAgrees
  <2> SUFFICES ASSUME Inv, n > 0, outfd, phase \in {"idle", "closed"}
               PROVE  /\ phase = "idle" => Announced
                      /\ phase = "closed" => ~Announced
    BY DEF ClientAgrees
  <2>1. /\ Types /\ Agree /\ Place = phase /\ job = NoJob
        /\ phase = "idle" => keep = TRUE
        /\ phase = "closed" => keep = FALSE
    BY DEF Inv, Agree, Place, Failing
  <2>2. Due <=> Told(n) /\ ~Waits(n)
    BY <2>1 DEF Agree, Late
  <2>3. HasConn(wire, n) <=> Due
    BY <2>1, <2>2 DEF Agree, Late, Told
  <2>4. HasConn(wire, n) <=> \E i \in DOMAIN wire : wire[i].rq = n /\ wire[i].kind = "connection"
    BY <2>1 DEF Types, HasConn, IsConn
  <2>5. Announced <=> ~(rq.version = 11 <=> HasConn(wire, n))
    BY <2>4 DEF Announced
  <2>6. QED BY <2>1, <2>3, <2>5 DEF Due
<1>2. QED BY <1>1, InvHolds, PTL

---------------------------------------------------------------------------
(* Sequences                                                               *)

\* Where the parts of a concatenation are.
LEMMA Concat ==
    ASSUME NEW S, NEW a \in Seq(S), NEW b \in Seq(S)
    PROVE  /\ a \o b \in Seq(S) /\ Len(a \o b) = Len(a) + Len(b)
           /\ Len(a) \in Nat /\ Len(b) \in Nat
           /\ \A i \in 1 .. Len(a) : (a \o b)[i] = a[i]
           /\ \A i \in 1 .. Len(b) : (a \o b)[Len(a) + i] = b[i]
BY ConcatProperties

\* Concatenation is associative.
LEMMA Associative ==
    ASSUME NEW S
    PROVE  \A x, y, z \in Seq(S) : (x \o y) \o z = x \o (y \o z)
<1> SUFFICES ASSUME NEW x \in Seq(S), NEW y \in Seq(S), NEW z \in Seq(S)
             PROVE  (x \o y) \o z = x \o (y \o z)
  OBVIOUS
<1> QED BY ConcatAssociative

\* A sequence is its beginning and its end.
LEMMA Split ==
    ASSUME NEW S, NEW s \in Seq(S), NEW m \in 0 .. Len(s)
    PROVE  /\ SubSeq(s, 1, m) \in Seq(S) /\ SubSeq(s, m + 1, Len(s)) \in Seq(S)
           /\ SubSeq(s, 1, m) \o SubSeq(s, m + 1, Len(s)) = s
<1>1. /\ 1 \in 1 .. Len(s) + 1 /\ m \in 1 - 1 .. Len(s) /\ Len(s) \in m .. Len(s)
      /\ Len(s) \in Nat
  OBVIOUS
<1>2. SubSeq(s, 1, m) \o SubSeq(s, m + 1, Len(s)) = SubSeq(s, 1, Len(s))
  BY <1>1, ConcatAdjacentSubSeq, Zenon
<1>3. SubSeq(s, 1, Len(s)) = s
  BY SubSeqFull, Zenon
<1>4. SubSeq(s, 1, m) \in Seq(S) /\ SubSeq(s, m + 1, Len(s)) \in Seq(S)
  BY <1>1
<1>5. QED BY <1>2, <1>3, <1>4

\* A sequence and another, split in the first or in the second.
LEMMA SplitFirst ==
    ASSUME NEW S, NEW a \in Seq(S), NEW b \in Seq(S), NEW m \in 0 .. Len(a)
    PROVE  SubSeq(a, 1, m) \o (SubSeq(a, m + 1, Len(a)) \o b) = a \o b
<1> DEFINE c == SubSeq(a, 1, m)
           d == SubSeq(a, m + 1, Len(a))
<1>1. c \in Seq(S) /\ d \in Seq(S)
  BY Split
<1>2. c \o d = a
  BY Split
<1> HIDE DEF c, d
<1>3. (c \o d) \o b = c \o (d \o b)
  BY <1>1, Associative
<1>4. c \o (d \o b) = a \o b
  BY <1>2, <1>3, Zenon
<1>5. QED BY <1>4 DEF c, d

LEMMA SplitSecond ==
    ASSUME NEW S, NEW a \in Seq(S), NEW b \in Seq(S), NEW m \in 0 .. Len(b)
    PROVE  (a \o SubSeq(b, 1, m)) \o SubSeq(b, m + 1, Len(b)) = a \o b
<1> DEFINE c == SubSeq(b, 1, m)
           d == SubSeq(b, m + 1, Len(b))
<1>1. c \in Seq(S) /\ d \in Seq(S)
  BY Split
<1>2. c \o d = b
  BY Split
<1> HIDE DEF c, d
<1>3. (a \o c) \o d = a \o (c \o d)
  BY <1>1, Associative
<1>4. (a \o c) \o d = a \o b
  BY <1>2, <1>3, Zenon
<1>5. QED BY <1>4 DEF c, d

\* What writev() takes of the ring a and the pieces b, and what is left of both,
\* make up what there was.
Taken(a, b, r)     == SubSeq(a \o b, 1, r)
RingLeft(a, r)     == SubSeq(a, r + 1, Len(a))
ExtraLeft(a, b, r) == SubSeq(b, AtLeastZero(r - Len(a)) + 1, Len(b))

LEMMA Rest ==
    ASSUME NEW S, NEW a \in Seq(S), NEW b \in Seq(S), NEW r \in 1 .. Len(a \o b)
    PROVE  /\ Taken(a, b, r) \in Seq(S) /\ RingLeft(a, r) \in Seq(S)
           /\ ExtraLeft(a, b, r) \in Seq(S)
           /\ Taken(a, b, r) \o (RingLeft(a, r) \o ExtraLeft(a, b, r)) = a \o b
<1> DEFINE sent == Taken(a, b, r)
           c == RingLeft(a, r)
           d == ExtraLeft(a, b, r)
           Good == /\ sent \in Seq(S) /\ c \in Seq(S) /\ d \in Seq(S)
                   /\ sent \o (c \o d) = a \o b
<1>0. Len(a) \in Nat /\ Len(b) \in Nat /\ Len(a \o b) = Len(a) + Len(b)
  OBVIOUS
<1>1. /\ sent = SubSeq(a \o b, 1, r) /\ c = SubSeq(a, r + 1, Len(a))
      /\ d = SubSeq(b, AtLeastZero(r - Len(a)) + 1, Len(b))
  BY DEF Taken, RingLeft, ExtraLeft
<1> HIDE DEF sent, c, d
<1>2. ASSUME r <= Len(a) PROVE Good
  <2>1. AtLeastZero(r - Len(a)) + 1 = 1 /\ r \in 0 .. Len(a)
    BY <1>0, <1>2 DEF AtLeastZero
  <2>2. d = b
    BY <1>1, <2>1, SubSeqFull
  <2>3. sent = SubSeq(a, 1, r)
    BY <1>0, <1>1, <1>2
  <2>4. sent \in Seq(S) /\ c \in Seq(S)
    BY <1>1, <2>1, <2>3, Split
  <2>5. SubSeq(a, 1, r) \o (SubSeq(a, r + 1, Len(a)) \o b) = a \o b
    BY <2>1, SplitFirst
  <2>6. sent \o (c \o d) = a \o b
    BY <1>1, <2>2, <2>3, <2>5, Zenon
  <2>7. QED BY <2>2, <2>4, <2>6, Zenon
<1>3. ASSUME r > Len(a) PROVE Good
  <2> DEFINE m == r - Len(a)
             e == SubSeq(b, 1, m)
  <2>1. AtLeastZero(r - Len(a)) + 1 = m + 1 /\ c = <<>> /\ m \in 0 .. Len(b)
    BY <1>0, <1>1, <1>3 DEF AtLeastZero
  <2>2. sent = a \o e
    BY <1>0, <1>1, <1>3
  <2> HIDE DEF m
  <2>3. e \in Seq(S) /\ d \in Seq(S) /\ d = SubSeq(b, m + 1, Len(b))
    BY <1>1, <2>1, Split
  <2>4. (a \o SubSeq(b, 1, m)) \o SubSeq(b, m + 1, Len(b)) = a \o b
    BY <2>1, SplitSecond
  <2>5. (a \o e) \o d = a \o b
    BY <2>3, <2>4, Zenon
  <2> HIDE DEF e
  <2>6. c \in Seq(S)
    BY <2>1, EmptySeq, Zenon
  <2>7. c \o d = d
    BY <2>1, <2>3, ConcatEmptySeq, Zenon
  <2>8. sent \in Seq(S)
    BY <2>2, <2>3, ConcatProperties, Zenon
  <2>9. QED BY <2>2, <2>3, <2>5, <2>6, <2>7, <2>8, Zenon
<1>4. r <= Len(a) \/ r > Len(a)
  BY <1>0
<1>5. Good
  BY <1>2, <1>3, <1>4, Zenon
<1>6. QED BY <1>5, Zenon DEF sent, c, d

---------------------------------------------------------------------------
(* No loss                                                                 *)

IsPiece(t, k) == t.rq = k /\ t.kind = "data"

\* Two sequences with the same pieces in the same order carry the same.
LEMMA SamePieces ==
    ASSUME NEW S, NEW s \in Seq(S), NEW u \in Seq(S), NEW k, NEW count,
           NEW f \in [1 .. Len(s) -> 1 .. Len(u)],
           \A i, j \in 1 .. Len(s) : i < j => f[i] < f[j],
           \A i \in 1 .. Len(s) : u[f[i]] = s[i],
           \A j \in 1 .. Len(u) : IsPiece(u[j], k) => \E i \in 1 .. Len(s) : f[i] = j
    PROVE  Carries(u, k, count) <=> Carries(s, k, count)
<1> DEFINE P == Pieces(s, k)
           Q == Pieces(u, k)
<1>1. /\ P \subseteq 1 .. Len(s) /\ Q \subseteq 1 .. Len(u)
      /\ \A i \in 1 .. Len(s) : i \in P <=> IsPiece(s[i], k)
      /\ \A j \in 1 .. Len(u) : j \in Q <=> IsPiece(u[j], k)
  BY DEF Pieces, IsPiece
<1> HIDE DEF P, Q
<1>2. \A i \in P : f[i] \in Q /\ u[f[i]].value = s[i].value
  BY <1>1
<1>3. \A j \in Q : \E i \in P : f[i] = j
  BY <1>1
<1>4. {u[j].value : j \in Q} = {s[i].value : i \in P}
  <2>1. ASSUME NEW j \in Q PROVE \E i \in P : u[j].value = s[i].value
    BY <1>2, <1>3
  <2>2. ASSUME NEW i \in P PROVE \E j \in Q : u[j].value = s[i].value
    BY <1>2
  <2>3. QED BY <2>1, <2>2
<1>5. \A i, j \in P : f[i] < f[j] <=> i < j
  <2>1. \A i, j \in 1 .. Len(s) : i < j \/ i = j \/ j < i
    OBVIOUS
  <2>2. \A i \in 1 .. Len(s) : f[i] \in Int
    OBVIOUS
  <2>3. QED BY <1>1, <2>1, <2>2
<1>6. (\A i, j \in Q : i < j => u[i].value < u[j].value)
         <=> (\A i, j \in P : i < j => s[i].value < s[j].value)
  <2>1. ASSUME \A i, j \in Q : i < j => u[i].value < u[j].value,
               NEW i \in P, NEW j \in P, i < j
        PROVE  s[i].value < s[j].value
    <3>1. f[i] \in Q /\ f[j] \in Q /\ f[i] < f[j]
      BY <1>2, <1>5, <2>1
    <3>2. u[f[i]].value < u[f[j]].value
      BY <2>1, <3>1
    <3>3. QED BY <1>2, <3>2
  <2>2. ASSUME \A i, j \in P : i < j => s[i].value < s[j].value,
               NEW i \in Q, NEW j \in Q, i < j
        PROVE  u[i].value < u[j].value
    <3>1. PICK x \in P, y \in P : f[x] = i /\ f[y] = j
      BY <1>3
    <3>2. x < y
      BY <1>5, <2>2, <3>1
    <3>3. s[x].value < s[y].value
      BY <2>2, <3>2
    <3>4. QED BY <1>2, <3>1, <3>3
  <2>3. QED BY <2>1, <2>2
<1>7. QED BY <1>4, <1>6 DEF Carries, P, Q

\* Tokens that are no pieces, put in anywhere, carry nothing.
LEMMA CarriesInsert ==
    ASSUME NEW S, NEW a \in Seq(S), NEW b \in Seq(S), NEW c \in Seq(S), NEW k, NEW count,
           \A i \in 1 .. Len(c) : ~IsPiece(c[i], k)
    PROVE  Carries((a \o c) \o b, k, count) <=> Carries(a \o b, k, count)
<1> DEFINE s == a \o b
           ac == a \o c
           u == ac \o b
           f == [i \in 1 .. Len(s) |-> IF i <= Len(a) THEN i ELSE i + Len(c)]
<1>1. /\ s \in Seq(S) /\ Len(s) = Len(a) + Len(b) /\ Len(a) \in Nat /\ Len(b) \in Nat
      /\ \A i \in 1 .. Len(a) : s[i] = a[i]
      /\ \A i \in 1 .. Len(b) : s[Len(a) + i] = b[i]
  BY Concat
<1>2. /\ ac \in Seq(S) /\ Len(ac) = Len(a) + Len(c) /\ Len(c) \in Nat
      /\ \A i \in 1 .. Len(a) : ac[i] = a[i]
      /\ \A i \in 1 .. Len(c) : ac[Len(a) + i] = c[i]
  BY Concat
<1> HIDE DEF ac
<1>3. /\ u \in Seq(S) /\ Len(u) = Len(ac) + Len(b)
      /\ \A i \in 1 .. Len(ac) : u[i] = ac[i]
      /\ \A i \in 1 .. Len(b) : u[Len(ac) + i] = b[i]
  <2> HIDE DEF s, f
  <2>1. ac \in Seq(S)
    BY <1>2
  <2>2. \A x, y : x \in Seq(S) /\ y \in Seq(S) =>
            /\ x \o y \in Seq(S) /\ Len(x \o y) = Len(x) + Len(y)
            /\ \A i \in 1 .. Len(x) : (x \o y)[i] = x[i]
            /\ \A i \in 1 .. Len(y) : (x \o y)[Len(x) + i] = y[i]
    BY Concat
  <2>3. QED BY <2>1, <2>2
<1> HIDE DEF s, u
<1>4. f \in [1 .. Len(s) -> 1 .. Len(u)]
  BY <1>1, <1>2, <1>3
<1>5. \A i, j \in 1 .. Len(s) : i < j => f[i] < f[j]
  BY <1>1, <1>2
<1>6. ASSUME NEW i \in 1 .. Len(s) PROVE u[f[i]] = s[i]
  <2>1. CASE i <= Len(a)
    BY <1>1, <1>2, <1>3, <2>1
  <2>2. CASE i > Len(a)
    <3>1. i - Len(a) \in 1 .. Len(b) /\ f[i] = Len(ac) + (i - Len(a)) /\ i = Len(a) + (i - Len(a))
      BY <1>1, <1>2, <2>2
    <3>2. u[f[i]] = b[i - Len(a)] /\ s[i] = b[i - Len(a)]
      BY <1>1, <1>3, <3>1
    <3>3. QED BY <3>2
  <2>3. QED BY <1>1, <2>1, <2>2
<1>7. ASSUME NEW j \in 1 .. Len(u), IsPiece(u[j], k) PROVE \E i \in 1 .. Len(s) : f[i] = j
  <2>1. CASE j <= Len(a)
    BY <1>1, <2>1
  <2>2. CASE Len(a) < j /\ j <= Len(ac)
    <3>1. j - Len(a) \in 1 .. Len(c) /\ j = Len(a) + (j - Len(a)) /\ j \in 1 .. Len(ac)
      BY <1>1, <1>2, <2>2
    <3>2. u[j] = c[j - Len(a)]
      BY <1>2, <1>3, <3>1
    <3>3. QED BY <1>7, <3>1, <3>2
  <2>3. CASE j > Len(ac)
    <3>1. j - Len(c) \in 1 .. Len(s) /\ j - Len(c) > Len(a)
      BY <1>1, <1>2, <1>3, <2>3
    <3>2. f[j - Len(c)] = j
      BY <1>1, <1>2, <3>1
    <3>3. QED BY <3>1, <3>2
  <2>4. QED BY <1>1, <1>2, <1>3, <2>1, <2>2, <2>3
<1> HIDE DEF f
<1>8. Carries(u, k, count) <=> Carries(s, k, count)
  BY <1>1, <1>3, <1>4, <1>5, <1>6, <1>7, SamePieces
<1>9. QED BY <1>8 DEF s, u, ac

\* The next pieces, put at the end, carry on.
LEMMA CarriesMore ==
    ASSUME NEW S, NEW s \in Seq(S), NEW d \in Seq(S), NEW k, NEW count \in Nat,
           \A i \in 1 .. Len(d) : IsPiece(d[i], k) /\ d[i].value = count + i,
           Carries(s, k, count)
    PROVE  Carries(s \o d, k, count + Len(d))
<1> DEFINE u == s \o d
           P == Pieces(s, k)
           Q == Pieces(u, k)
<1>1. /\ u \in Seq(S) /\ Len(u) = Len(s) + Len(d) /\ Len(s) \in Nat /\ Len(d) \in Nat
      /\ \A i \in 1 .. Len(s) : u[i] = s[i]
      /\ \A i \in 1 .. Len(d) : u[Len(s) + i] = d[i]
  BY Concat
<1> HIDE DEF u
<1>2. ASSUME NEW j \in 1 .. Len(u), j > Len(s)
      PROVE  j - Len(s) \in 1 .. Len(d) /\ u[j] = d[j - Len(s)]
  <2>1. j - Len(s) \in 1 .. Len(d) /\ Len(s) + (j - Len(s)) = j
    BY <1>1, <1>2
  <2>2. QED BY <1>1, <2>1
<1>3. /\ P \subseteq 1 .. Len(s)
      /\ \A i \in 1 .. Len(s) : i \in P <=> IsPiece(s[i], k)
      /\ Q \subseteq 1 .. Len(u)
      /\ \A j \in 1 .. Len(u) : j \in Q <=> IsPiece(u[j], k)
      /\ {s[i].value : i \in P} = 1 .. count
      /\ \A i, j \in P : i < j => s[i].value < s[j].value
  BY DEF Pieces, IsPiece, Carries
<1> HIDE DEF P, Q
<1>4. \A j \in Q : IF j <= Len(s) THEN j \in P /\ u[j].value = s[j].value
                                  ELSE u[j].value = count + (j - Len(s))
  <2> SUFFICES ASSUME NEW j \in Q
               PROVE  IF j <= Len(s) THEN j \in P /\ u[j].value = s[j].value
                                     ELSE u[j].value = count + (j - Len(s))
    OBVIOUS
  <2>0. j \in 1 .. Len(u) /\ IsPiece(u[j], k)
    BY <1>3
  <2>1. CASE j <= Len(s)
    <3>1. j \in 1 .. Len(s) /\ u[j] = s[j]
      BY <1>1, <2>0, <2>1
    <3>2. QED BY <1>3, <2>0, <2>1, <3>1
  <2>2. CASE j > Len(s)
    BY <1>1, <1>2, <2>0, <2>2
  <2>3. QED BY <1>1, <2>0, <2>1, <2>2
<1>5. \A i \in P : i \in Q /\ u[i].value = s[i].value
  BY <1>1, <1>3
<1>6. \A i \in 1 .. Len(d) : Len(s) + i \in Q /\ u[Len(s) + i].value = count + i
  BY <1>1, <1>3
<1>7. \A i \in P : s[i].value \in 1 .. count
  BY <1>3
<1>8. \A v \in 1 .. count : \E i \in P : s[i].value = v
  BY <1>3
<1>9. {u[j].value : j \in Q} \subseteq 1 .. count + Len(d)
  <2> SUFFICES ASSUME NEW j \in Q PROVE u[j].value \in 1 .. count + Len(d)
    OBVIOUS
  <2>1. CASE j <= Len(s)
    BY <1>1, <1>4, <1>7, <2>1
  <2>2. CASE j > Len(s)
    <3>1. u[j].value = count + (j - Len(s)) /\ j - Len(s) \in 1 .. Len(d)
      BY <1>1, <1>2, <1>3, <1>4, <2>2
    <3>2. QED BY <1>1, <3>1
  <2>3. QED BY <1>1, <1>3, <2>1, <2>2
<1>10. ASSUME NEW v \in 1 .. count + Len(d) PROVE \E j \in Q : u[j].value = v
  <2>1. CASE v <= count
    BY <1>5, <1>8, <2>1
  <2>2. CASE v > count
    <3>1. v - count \in 1 .. Len(d) /\ count + (v - count) = v
      BY <1>1, <2>2
    <3>2. QED BY <1>6, <3>1
  <2>3. QED BY <1>1, <2>1, <2>2
<1>11. {u[j].value : j \in Q} = 1 .. count + Len(d)
  BY <1>9, <1>10
<1>12. ASSUME NEW i \in Q, NEW j \in Q, i < j PROVE u[i].value < u[j].value
  <2>0. i \in Int /\ j \in Int /\ Len(s) \in Int
    BY <1>1, <1>3
  <2>1. CASE j <= Len(s)
    <3>1. i <= Len(s)
      BY <1>12, <2>0, <2>1
    <3>2. QED BY <1>3, <1>4, <1>12, <2>1, <3>1
  <2>2. CASE i <= Len(s) /\ j > Len(s)
    BY <1>4, <1>7, <2>0, <2>2
  <2>3. CASE i > Len(s)
    <3>1. j > Len(s)
      BY <1>12, <2>0, <2>3
    <3>2. QED BY <1>4, <1>12, <2>0, <2>3, <3>1
  <2>4. QED BY <2>0, <2>1, <2>2, <2>3
<1>13. QED BY <1>11, <1>12 DEF Carries, Q, u

\* Without pieces there is nothing to carry.
LEMMA CarriesNone ==
    ASSUME NEW S, NEW s \in Seq(S), NEW k, \A i \in 1 .. Len(s) : ~IsPiece(s[i], k)
    PROVE  Carries(s, k, 0)
<1>1. Pieces(s, k) = {}
  BY DEF Pieces, IsPiece
<1>2. 1 .. 0 = {}
  OBVIOUS
<1>3. QED BY <1>1, <1>2 DEF Carries

Done == {"end", "discard", "idle", "closed"}

NoPiece(s) == \A i \in 1 .. Len(s) : ~IsPiece(s[i], n)

\* What a call of minute_httpd_output or minute_httpd_chunk leaves to be written.
LEMMA OutputBody ==
    ASSUME Inv, phase # "writev", NEW tokens \in Seq(Stamped(n)), NEW chunked, NEW next,
           \/ Output(tokens, chunked, next)
           \/ Chunk(tokens, chunked, next) /\ UNCHANGED out
    PROVE  /\ Body = out /\ Body' = out \o tokens
           /\ phase' # "writev" => phase' = next
           /\ Chunk(tokens, chunked, next) /\ phase' # "writev" => Body' = <<>>
<1>1. job = NoJob /\ NoJob.extra = <<>> /\ out \in Seq(Stamped(n))
  BY DEF Inv, Agree, Types, NoJob
<1>2. Body = out
  BY <1>1, ConcatEmptySeq DEF Body
<1> DEFINE more == out \o tokens
<1>3. more \in Seq(Stamped(n)) /\ more \o <<>> = more
  <2>1. more \in Seq(Stamped(n))
    BY <1>1, ConcatProperties
  <2> HIDE DEF more
  <2>2. QED BY <2>1, ConcatEmptySeq
<1>4. CASE out' = more /\ phase' = next /\ UNCHANGED <<job, after>>
  <2>1. Body' = more
    BY <1>1, <1>3, <1>4 DEF Body
  <2>2. Chunk(tokens, chunked, next) /\ phase' # "writev" => more = <<>>
    BY DEF Chunk
  <2>3. QED BY <1>2, <1>4, <2>1, <2>2
<1>5. CASE Chunk(tokens, chunked, next) /\ UNCHANGED out
  <2>1. CASE more = <<>> /\ phase' = next /\ UNCHANGED <<job, after>>
    <3>1. out = <<>>
      BY <1>1, <2>1, ConcatEqualIffEmpty
    <3>2. Body' = <<>>
      BY <1>1, <1>2, <1>5, <2>1, <3>1 DEF Body
    <3>3. QED BY <1>2, <2>1, <3>2
  <2>2. CASE phase' = "writev" /\ job' = [chunked |-> chunked, extra |-> tokens]
    <3>1. Body' = more
      BY <1>5, <2>2 DEF Body
    <3>2. QED BY <1>2, <2>2, <3>1
  <2>3. QED BY <1>5, <2>1, <2>2 DEF Chunk
<1>6. QED BY <1>4, <1>5 DEF Output

\* A step that puts pieces, or other tokens, in the ring or in a write to be
\* made.
LEMMA OutputCarries ==
    ASSUME Inv, NoLoss, phase # "writev", n > 0,
           NEW tokens \in Seq(Stamped(n)), NEW chunked, NEW next,
           \/ Output(tokens, chunked, next)
           \/ Chunk(tokens, chunked, next) /\ UNCHANGED out,
           UNCHANGED <<asked, outfd, wire, torn>>,
           \/ NoPiece(tokens) /\ wrote' = wrote
           \/ /\ \A i \in 1 .. Len(tokens) : IsPiece(tokens[i], n) /\ tokens[i].value = wrote + i
              /\ wrote' = wrote + Len(tokens),
           next \in Done => Chunk(tokens, chunked, next)
    PROVE  NoLoss'
<1> DEFINE T == Stamped(n)
<1>1. Body = out /\ Body' = out \o tokens
  BY OutputBody
<1>2. phase' \in Done => Body' = <<>>
  BY OutputBody DEF Done
<1>3. n' = n /\ wire \in Seq(T) /\ out \in Seq(T) /\ wrote \in Nat
  BY HttpdAssumption DEF n, Inv, Types
<1> HIDE DEF T
<1>4. SUFFICES ASSUME torn = {}, outfd
               PROVE  Carries(wire \o (out \o tokens), n, wrote')
  BY <1>1, <1>2, <1>3 DEF NoLoss, Done
<1>5. Carries(wire \o out, n, wrote)
  BY <1>1, <1>4 DEF NoLoss
<1>6. wire \o (out \o tokens) = (wire \o out) \o tokens /\ tokens \in Seq(T)
  BY <1>3, Associative DEF T
<1> DEFINE s == wire \o out
<1>7. s \in Seq(T)
  BY <1>3, ConcatProperties
<1> HIDE DEF s
<1>8. CASE NoPiece(tokens) /\ wrote' = wrote
  <2>1. Carries((s \o tokens) \o <<>>, n, wrote) <=> Carries(s \o <<>>, n, wrote)
    BY <1>6, <1>7, <1>8, EmptySeq, CarriesInsert DEF NoPiece
  <2>2. s \o tokens \in Seq(T)
    BY <1>6, <1>7, ConcatProperties
  <2>3. (s \o tokens) \o <<>> = s \o tokens /\ s \o <<>> = s
    BY <1>7, <2>2, ConcatEmptySeq
  <2>4. QED BY <1>5, <1>6, <1>8, <2>1, <2>3 DEF s
<1>9. CASE /\ \A i \in 1 .. Len(tokens) : IsPiece(tokens[i], n) /\ tokens[i].value = wrote + i
           /\ wrote' = wrote + Len(tokens)
  <2>1. Carries(s \o tokens, n, wrote + Len(tokens))
    BY <1>3, <1>5, <1>6, <1>7, <1>9, CarriesMore DEF s
  <2>2. QED BY <1>6, <1>9, <2>1 DEF s
<1>10. QED BY <1>8, <1>9

\* A step that writes no more than a line, and leaves the ring as it is.
LEMMA LineCarries ==
    ASSUME Inv, NoLoss, n > 0, NEW t \in Stamped(n), ~IsPiece(t, n),
           WriteLine(t) \/ UNCHANGED <<outfd, wire>>,
           UNCHANGED <<asked, out, job, wrote, torn>>,
           phase' \in Done => phase \in Done
    PROVE  NoLoss'
<1> DEFINE T == Stamped(n)
<1>1. n' = n /\ Body' = Body
  BY DEF n, Body
<1>2. wire \in Seq(T) /\ Body \in Seq(T) /\ <<t>> \in Seq(T)
  <2>1. out \in Seq(T) /\ job.extra \in Seq(T)
    BY DEF Inv, Types, Job
  <2>2. wire \in Seq(T) /\ <<t>> \in Seq(T)
    BY DEF Inv, Types
  <2>3. QED BY <2>1, <2>2, ConcatProperties DEF Body
<1> HIDE DEF T
<1>3. CASE wire' = wire /\ outfd' = outfd
  BY <1>1, <1>3 DEF NoLoss, Done
<1>4. CASE outfd /\ wire' = Append(wire, t) /\ UNCHANGED outfd
  <2>1. wire' = wire \o <<t>>
    BY <1>2, <1>4, AppendIsConcat DEF T
  <2>2. \A i \in 1 .. Len(<<t>>) : ~IsPiece(<<t>>[i], n)
    OBVIOUS
  <2>3. Carries((wire \o <<t>>) \o Body, n, wrote) <=> Carries(wire \o Body, n, wrote)
    BY <1>2, <2>2, CarriesInsert
  <2>4. QED BY <1>1, <1>4, <2>1, <2>3 DEF NoLoss, Done
<1>5. CASE outfd' = FALSE
  BY <1>5 DEF NoLoss
<1>6. QED BY <1>3, <1>4, <1>5 DEF WriteLine

\* The steps but for the reading of a request and writev().
LEMMA CarriedSteps ==
    ASSUME Inv, NoLoss, Handle,
           ~\E r \in 1 .. OutCap + 4, noticed \in BOOLEAN : Writev(r, noticed),
           ~WritevPrefix, ~WritevError
    PROVE  NoLoss'
<1>1. Types /\ Agree
  BY DEF Inv
<1>2. n > 0 /\ phase # "writev"
  BY <1>1 DEF Agree, Handle, AppHeader, AppFlush, AppHeaderDone, AppPayloadDone, AppWrite,
              AppResponseDone, WriteStatus, AddConnection, AddEncoding, EndHeaders, Flush, EndBody,
              Return, ErrorStatus, ErrorHeaders, ErrorEndHeaders, ErrorBody, ErrorFlush
<1>3. ASSUME NEW kind \in Kinds \ {"data"}, NEW value \in Int
      PROVE  /\ Token(kind, value) \in Stamped(n) /\ ~IsPiece(Token(kind, value), n)
             /\ <<Token(kind, value)>> \in Seq(Stamped(n)) /\ NoPiece(<<Token(kind, value)>>)
  <2>1. Token(kind, value) \in Stamped(n) /\ <<Token(kind, value)>> \in Seq(Stamped(n))
    BY <1>1, <1>2, TokenIs
  <2>2. ~IsPiece(Token(kind, value), n)
    BY DEF IsPiece, Token
  <2>3. QED BY <2>1, <2>2 DEF NoPiece
<1>4. <<>> \in Seq(Stamped(n)) /\ NoPiece(<<>>)
  BY DEF NoPiece
<1>5. status \in Int /\ headers \in Int /\ wrote \in Nat
  BY <1>1, HttpdAssumption DEF Types
\* Steps that call Output or Chunk.
<1> DEFINE Puts(tokens, chunked, next) ==
             /\ \/ Output(tokens, chunked, next)
                \/ Chunk(tokens, chunked, next) /\ UNCHANGED out
             /\ UNCHANGED <<asked, outfd, wire, torn>>
             /\ next \in Done => Chunk(tokens, chunked, next)
<1>6. ASSUME NEW tokens \in Seq(Stamped(n)), NEW chunked, NEW next, Puts(tokens, chunked, next),
             NoPiece(tokens), wrote' = wrote
      PROVE  NoLoss'
  BY <1>2, <1>6, OutputCarries
<1>7. ASSUME NEW k \in 1 .. 2, AppWrite(k) PROVE NoLoss'
  <2> DEFINE ts == Tokens("data", wrote + 1, wrote + k)
  <2>1. Puts(ts, keep, "response") /\ wrote' = wrote + k
    BY <1>7 DEF AppWrite, request, Done
  <2>2. ts \in Seq(Stamped(n))
    <3>1. wrote + 1 \in Nat /\ wrote + k \in Nat
      BY <1>5
    <3>2. QED BY <1>1, <1>2, <3>1, TokensAre
  <2>3. /\ Len(ts) = k
        /\ \A i \in 1 .. k : ts[i] = Token("data", wrote + i)
    <3>1. (wrote + k) - (wrote + 1) + 1 = k /\ \A i \in 1 .. k : (wrote + 1) + i - 1 = wrote + i
      BY <1>5
    <3>2. ts = [i \in 1 .. k |-> Token("data", (wrote + 1) + i - 1)]
      BY <3>1 DEF Tokens
    <3> HIDE DEF ts
    <3>3. DOMAIN ts = 1 .. k
      BY <3>2
    <3>4. Len(ts) = k
      BY <2>2, <3>3, LenProperties
    <3>5. QED BY <3>1, <3>2, <3>4
  <2> HIDE DEF ts
  <2>4. \A i \in 1 .. Len(ts) : IsPiece(ts[i], n) /\ ts[i].value = wrote + i
    BY <2>3 DEF IsPiece, Token
  <2>5. QED BY <1>2, <2>1, <2>2, <2>3, <2>4, OutputCarries
<1>8. CASE AppHeader
  <2> DEFINE t == Token("header", headers + 1)
  <2>1. Puts(<<t>>, FALSE, phase) /\ wrote' = wrote
    BY <1>8 DEF AppHeader, request, Done
  <2>2. <<t>> \in Seq(Stamped(n)) /\ NoPiece(<<t>>)
    BY <1>3, <1>5 DEF Kinds
  <2> HIDE DEF t, Puts
  <2>3. QED BY <1>6, <2>1, <2>2
<1>9. CASE AddConnection \/ AddEncoding \/ ErrorHeaders
  <2>1. UNCHANGED <<asked, outfd, wire, torn, wrote>>
    BY <1>9 DEF AddConnection, AddEncoding, ErrorHeaders, request, history
  <2>2. \/ \E kind \in {"connection", "chunked", "header"}, next \in {"encoding", "blank", "errblank"} :
              Output(<<Token(kind, 0)>>, FALSE, next)
        \/ UNCHANGED <<out, job>> /\ phase' \in {"encoding", "blank"}
    BY <1>9 DEF AddConnection, AddEncoding, ErrorHeaders
  <2>3. ASSUME NEW kind \in {"connection", "chunked", "header"},
               NEW next \in {"encoding", "blank", "errblank"},
               Output(<<Token(kind, 0)>>, FALSE, next)
        PROVE  NoLoss'
    <3> DEFINE t == Token(kind, 0)
    <3>1. <<t>> \in Seq(Stamped(n)) /\ NoPiece(<<t>>)
      BY <1>3 DEF Kinds
    <3>2. Puts(<<t>>, FALSE, next) /\ wrote' = wrote
      BY <2>1, <2>3 DEF Done
    <3> HIDE DEF t, Puts
    <3>3. QED BY <1>6, <3>1, <3>2
  <2>4. CASE UNCHANGED <<out, job>> /\ phase' \in {"encoding", "blank"}
    BY <2>1, <2>4 DEF NoLoss, n, Body
  <2>5. QED BY <2>2, <2>3, <2>4
<1>10. CASE EndHeaders \/ ErrorEndHeaders
  <2> DEFINE t == Token("blank", 0)
  <2>1. <<t>> \in Seq(Stamped(n)) /\ NoPiece(<<t>>)
    BY <1>3 DEF Kinds
  <2>2. PICK next : Chunk(<<t>>, FALSE, next)
    BY <1>10 DEF EndHeaders, ErrorEndHeaders
  <2>3. Puts(<<t>>, FALSE, next) /\ wrote' = wrote
    BY <1>10, <2>2 DEF EndHeaders, ErrorEndHeaders, request, history
  <2> HIDE DEF t, Puts
  <2>4. QED BY <1>6, <2>1, <2>3
<1>11. CASE AppFlush \/ Flush \/ ErrorFlush
  <2>1. PICK c, next : Chunk(<<>>, c, next)
    BY <1>11 DEF AppFlush, Flush, ErrorFlush
  <2>2. Puts(<<>>, c, next) /\ wrote' = wrote
    BY <1>11, <2>1 DEF AppFlush, Flush, ErrorFlush, request, history
  <2> HIDE DEF Puts
  <2>3. QED BY <1>4, <1>6, <2>2
\* Steps that call write(), and steps that do not write.
<1>12. CASE \/ WriteStatus \/ EndBody \/ Return \/ ErrorStatus
            \/ \E s \in {100, 200, 204} : AppHeaderDone(s)
            \/ \E s \in {200, 204} : AppPayloadDone(s)
  <2>1. UNCHANGED <<asked, out, job, wrote, torn>> /\ (phase' \in Done => phase \in Done)
    BY <1>12 DEF WriteStatus, EndBody, Return, ErrorStatus, AppHeaderDone, AppPayloadDone,
                 request, history, Done
  <2>2. \/ WriteLine(Token("status", status)) \/ WriteLine(Token("last", 0))
        \/ WriteLine(Token("continue", 0)) \/ UNCHANGED <<outfd, wire>>
    BY <1>12 DEF WriteStatus, EndBody, Return, ErrorStatus, AppHeaderDone, AppPayloadDone
  <2>3. ASSUME NEW kind \in {"status", "last", "continue"}, NEW value \in Int,
               WriteLine(Token(kind, value)) \/ UNCHANGED <<outfd, wire>>
        PROVE  NoLoss'
    <3> DEFINE t == Token(kind, value)
    <3>1. t \in Stamped(n) /\ ~IsPiece(t, n)
      BY <1>3 DEF Kinds
    <3>2. WriteLine(t) \/ UNCHANGED <<outfd, wire>>
      BY <2>3
    <3> HIDE DEF t
    <3>3. QED BY <1>2, <2>1, <3>1, <3>2, LineCarries
  <2>4. QED BY <1>5, <2>2, <2>3
<1>13. CASE ErrorBody \/ \E failed \in BOOLEAN : AppResponseDone(failed)
  <2> DEFINE t == Token("standard", 0)
  <2>1. <<t>> \in Seq(Stamped(n)) /\ NoPiece(<<t>>) /\ t \in Stamped(n)
    BY <1>3 DEF Kinds
  <2>2. /\ UNCHANGED <<asked, job, outfd, wire, wrote, torn>> /\ phase' \notin Done
        /\ out' = out \/ (out' = Append(out, t) /\ Len(out) < OutCap)
    BY <1>13 DEF ErrorBody, AppResponseDone, request, Done
  <2> HIDE DEF t
  <2>3. CASE out' = out
    BY <2>2, <2>3 DEF NoLoss, n, Body, Done
  <2>4. CASE out' = Append(out, t) /\ Len(out) < OutCap
    <3> DEFINE next == IF phase = "errbody" THEN "errflush" ELSE "flush"
    <3>1. phase' = next
      BY <1>13 DEF ErrorBody, AppResponseDone
    <3>2. out \in Seq(Stamped(n)) /\ after' = after
      BY <1>1, <1>13 DEF Types, ErrorBody, AppResponseDone
    <3>3. out' = out \o <<t>> /\ Len(<<t>>) = 1
      BY <2>1, <2>4, <3>2, AppendIsConcat
    <3>4. Output(<<t>>, FALSE, next)
      <4>1. Len(out) \in Nat /\ OutCap \in Nat
        BY <3>2, HttpdAssumption
      <4>2. ~(Len(out) + Len(<<t>>) > OutCap)
        BY <2>4, <3>3, <4>1
      <4>3. QED BY <2>2, <3>1, <3>2, <3>3, <4>2 DEF Output
    <3>5. Puts(<<t>>, FALSE, next) /\ wrote' = wrote
      BY <2>2, <3>4 DEF Done
    <3> HIDE DEF next, Puts
    <3>6. QED BY <1>6, <2>1, <3>5
  <2>5. QED BY <2>2, <2>3, <2>4
<1>14. QED BY <1>7, <1>8, <1>9, <1>10, <1>11, <1>12, <1>13 DEF Handle

\* A request begins, or none.
LEMMA CarriedReads ==
    ASSUME Inv, NoLoss, ReadEnd \/ \E r \in Requests : ReadRequest(r) \/ ReadBad(r)
    PROVE  NoLoss'
<1>1. Types /\ Agree /\ phase = "idle" /\ job = NoJob /\ n \in Nat /\ NoJob.extra = <<>>
  BY DEF Inv, Agree, Types, n, ReadEnd, ReadRequest, ReadBad, NextRequest, NoJob
<1>2. CASE ReadEnd
  <2>1. phase' = "ended" /\ out' = <<>> /\ UNCHANGED <<asked, job, outfd, wire, wrote, torn>>
    BY <1>2 DEF ReadEnd, request, history
  <2>2. Body = out /\ out \in Seq(Stamped(n)) /\ n' = n
    BY <1>1, <2>1, ConcatEmptySeq DEF Body, Types, n
  <2>3. Body' = <<>> /\ \A s : Body = <<>> => Carries(s \o Body', n, wrote) = Carries(s \o Body, n, wrote)
    BY <1>1, <2>1 DEF Body
  <2>4. torn = {} /\ outfd /\ n > 0 => Body = <<>>
    BY <1>1 DEF NoLoss
  <2>5. QED BY <2>1, <2>2, <2>3, <2>4 DEF NoLoss, Done
<1>3. ASSUME NEW r \in Requests, ReadRequest(r) \/ ReadBad(r) PROVE NoLoss'
  <2> DEFINE t == [kind |-> "header", value |-> 0, rq |-> n + 1, method |-> r.method]
  <2>1. /\ asked' = Append(asked, r) /\ wrote' = 0 /\ phase' \notin Done
        /\ UNCHANGED <<job, wire>> /\ (out' = <<>> \/ out' = <<t>>)
    BY <1>3 DEF ReadRequest, ReadBad, NextRequest, Done
  <2>2. n' = n + 1 /\ asked \in Seq(Requests)
    BY <1>1, <2>1 DEF n, Types
  <2>3. t \in Stamped(n + 1) /\ ~IsPiece(t, n + 1)
    BY <1>1, HttpdAssumption DEF Stamped, Kinds, IsPiece, RequestType
  <2>4. /\ wire \in Seq(Stamped(n + 1))
        /\ \A i \in 1 .. Len(wire) : ~IsPiece(wire[i], n + 1)
    <3>1. wire \in Seq(Stamped(n))
      BY <1>1 DEF Types
    <3>2. \A i \in 1 .. Len(wire) : wire[i].rq \in 0 .. n
      <4>1. \A i \in 1 .. Len(wire) : wire[i] \in Stamped(n)
        BY <3>1
      <4>2. \A w \in Stamped(n) : w.rq \in 0 .. n
        BY DEF Stamped
      <4>3. QED BY <4>1, <4>2
    <3>3. wire \in Seq(Stamped(n + 1))
      BY <1>1, <3>1, ConnLater
    <3>4. n + 1 \notin 0 .. n
      BY <1>1
    <3>5. QED BY <3>2, <3>3, <3>4 DEF IsPiece
  <2> HIDE DEF t
  <2>5. Body' = out' /\ out' \in Seq(Stamped(n + 1))
        /\ \A i \in 1 .. Len(out') : ~IsPiece(out'[i], n + 1)
    <3>1. out' \in Seq(Stamped(n + 1)) /\ \A i \in 1 .. Len(out') : ~IsPiece(out'[i], n + 1)
      <4>1. CASE out' = <<>>
        BY <4>1
      <4>2. CASE out' = <<t>>
        BY <2>3, <4>2
      <4>3. QED BY <2>1, <4>1, <4>2
    <3>2. out' \o <<>> = out'
      BY <3>1, ConcatEmptySeq
    <3>3. job'.extra = <<>>
      BY <1>1, <2>1
    <3>4. QED BY <3>1, <3>2, <3>3 DEF Body
  <2> DEFINE s == wire \o out'
  <2>6. s \in Seq(Stamped(n + 1)) /\ \A i \in 1 .. Len(s) : ~IsPiece(s[i], n + 1)
    <3>1. /\ s \in Seq(Stamped(n + 1)) /\ Len(s) = Len(wire) + Len(out')
          /\ Len(wire) \in Nat /\ Len(out') \in Nat
          /\ \A i \in 1 .. Len(wire) : s[i] = wire[i]
          /\ \A i \in 1 .. Len(out') : s[Len(wire) + i] = out'[i]
      BY <2>4, <2>5, Concat
    <3> HIDE DEF s
    <3>2. ASSUME NEW i \in 1 .. Len(s) PROVE ~IsPiece(s[i], n + 1)
      <4>1. CASE i <= Len(wire)
        BY <2>4, <3>1, <4>1
      <4>2. CASE i > Len(wire)
        <5>1. i - Len(wire) \in 1 .. Len(out') /\ Len(wire) + (i - Len(wire)) = i
          BY <3>1, <4>2
        <5>2. s[i] = out'[i - Len(wire)]
          BY <3>1, <5>1
        <5>3. QED BY <2>5, <5>1, <5>2
      <4>3. QED BY <3>1, <4>1, <4>2
    <3>3. QED BY <3>1, <3>2
  <2> HIDE DEF s
  <2>7. Carries(s, n + 1, 0)
    BY <2>6, CarriesNone
  <2>8. wire' \o Body' = s
    BY <2>1, <2>5 DEF s
  <2>9. QED BY <2>1, <2>2, <2>7, <2>8 DEF NoLoss, Done
<1>4. QED BY <1>2, <1>3

\* writev(): of the lines of a chunk all are written, or the chunk is torn; of what
\* is not a chunk, what is not written is what is left.
LEMMA WritevLines ==
    ASSUME Inv, NEW r \in Int, NEW noticed \in BOOLEAN, Writev(r, noticed), torn' = {}
    PROVE  /\ Lines \in Seq(Stamped(n)) /\ Lines' \in Seq(Stamped(n)) /\ torn = {}
           /\ \E sent \in Seq(Stamped(n)) :
                 /\ wire' = wire \o sent
                 /\ \/ phase' = "writev" /\ ~job.chunked /\ sent \o Lines' = Lines
                    \/ phase' = after /\ Body' = <<>> /\ out' = <<>> /\ sent = Lines
<1> DEFINE T == Stamped(n)
           left == SubSeq(job.extra, AtLeastZero(r - Prefix - Len(out)) + 1, Len(job.extra))
           sent == SubSeq(Lines, 1, r)
<1>1. /\ Types /\ n > 0 /\ n \in Nat /\ n' = n
      /\ out \in Seq(T) /\ job.extra \in Seq(T) /\ wire \in Seq(T) /\ job.chunked \in BOOLEAN
  BY DEF Inv, Agree, Types, Job, Writev, n, request
<1>2. /\ r \in 1 .. Len(Lines)
      /\ wire' = wire \o sent /\ out' = SubSeq(out, r - Prefix + 1, Len(out))
      /\ IF r >= Prefix + Total THEN ~noticed ELSE job.chunked \/ noticed
      /\ torn' = IF job.chunked /\ r < Len(Lines) THEN torn \cup {n} ELSE torn
  BY DEF Writev
<1>3. \/ noticed /\ job' = [chunked |-> FALSE, extra |-> left] /\ phase' = "writev"
      \/ ~noticed /\ job' = NoJob /\ phase' = after
  BY DEF Writev
<1>4. torn = {} /\ (job.chunked => ~(r < Len(Lines)))
  BY <1>2
<1> HIDE DEF T
<1>5. Body \in Seq(T) /\ Len(Body) = Len(out) + Len(job.extra) /\ Total = Len(Body)
      /\ Len(out) \in Nat /\ Len(job.extra) \in Nat
  BY <1>1, Concat DEF Body, Total
<1>6. CASE job.chunked
  <2> DEFINE s == Token("size", Total)
             e == Token("nl", 0)
  <2>1. s \in T /\ e \in T
    <3>1. "size" \in Kinds /\ "nl" \in Kinds /\ Total \in Int /\ 0 \in Int
      BY <1>5 DEF Kinds
    <3>2. QED BY <1>1, <3>1, TokenIs DEF T
  <2>2. Lines = (<<s>> \o Body) \o <<e>> /\ Prefix = 1
    BY <1>6 DEF Lines, Prefix
  <2> HIDE DEF s, e
  <2>3. <<s>> \in Seq(T) /\ <<e>> \in Seq(T) /\ Len(<<s>>) = 1 /\ Len(<<e>>) = 1
    BY <2>1
  <2>4. Lines \in Seq(T) /\ Len(Lines) = Total + 2
    <3>1. <<s>> \o Body \in Seq(T) /\ Len(<<s>> \o Body) = 1 + Total
      BY <1>5, <2>3, Concat
    <3>2. (<<s>> \o Body) \o <<e>> \in Seq(T)
          /\ Len((<<s>> \o Body) \o <<e>>) = Len(<<s>> \o Body) + 1
      BY <2>3, <3>1, Concat
    <3>3. QED BY <1>5, <2>2, <3>1, <3>2
  <2>5. r = Total + 2 /\ ~noticed
    BY <1>2, <1>4, <1>5, <1>6, <2>2, <2>4
  <2>6. sent = Lines
    BY <1>5, <2>4, <2>5, SubSeqFull
  <2>7. out' = <<>> /\ job' = NoJob /\ phase' = after
    <3>1. r - Prefix + 1 \in Int /\ Len(out) < r - Prefix + 1 /\ Len(out) \in Int
      BY <1>5, <2>2, <2>5
    <3>2. SubSeq(out, r - Prefix + 1, Len(out)) = <<>>
      BY <3>1, SubSeqEmpty
    <3>3. QED BY <1>2, <1>3, <2>5, <3>2
  <2>8. Body' = <<>> /\ Lines' = <<>>
    BY <2>7 DEF Body, Lines, NoJob
  <2>9. Lines' \in Seq(T)
    BY <2>8
  <2> HIDE DEF sent
  <2>10. QED BY <1>2, <1>4, <2>4, <2>6, <2>7, <2>8, <2>9 DEF T
<1>7. CASE ~job.chunked
  <2>1. Lines = out \o job.extra /\ Prefix = 0 /\ Total = Len(out \o job.extra)
        /\ r \in 1 .. Len(out \o job.extra)
    BY <1>2, <1>5, <1>7 DEF Lines, Body, Prefix, Total
  <2>2. r - Prefix = r /\ Prefix + Total = Total
    BY <1>2, <1>5, <2>1
  <2>3. /\ sent = SubSeq(out \o job.extra, 1, r) /\ out' = SubSeq(out, r + 1, Len(out))
        /\ left = SubSeq(job.extra, AtLeastZero(r - Len(out)) + 1, Len(job.extra))
    BY <1>2, <2>1, <2>2
  <2> HIDE DEF sent, left
  <2>4. sent \in Seq(T) /\ out' \in Seq(T) /\ left \in Seq(T)
        /\ sent \o (out' \o left) = out \o job.extra
    <3>1. out \in Seq(T) /\ job.extra \in Seq(T) /\ r \in 1 .. Len(out \o job.extra)
      BY <1>1, <2>1
    <3>2. /\ sent = Taken(out, job.extra, r) /\ out' = RingLeft(out, r)
          /\ left = ExtraLeft(out, job.extra, r)
      BY <2>3 DEF Taken, RingLeft, ExtraLeft
    <3>3. /\ Taken(out, job.extra, r) \in Seq(T) /\ RingLeft(out, r) \in Seq(T)
          /\ ExtraLeft(out, job.extra, r) \in Seq(T)
          /\ Taken(out, job.extra, r) \o (RingLeft(out, r) \o ExtraLeft(out, job.extra, r))
                = out \o job.extra
      BY <3>1, Rest
    <3>4. QED BY <3>2, <3>3, Zenon
  <2>5. CASE noticed
    <3>1. job' = [chunked |-> FALSE, extra |-> left] /\ phase' = "writev"
      BY <1>3, <2>5
    <3>2. Lines' = out' \o left
      BY <3>1 DEF Lines, Body
    <3>3. Lines' \in Seq(T) /\ Lines \in Seq(T)
      BY <1>1, <2>1, <2>4, <3>2, ConcatProperties
    <3>4. sent \o Lines' = Lines
      BY <2>1, <2>4, <3>2
    <3>5. QED BY <1>2, <1>4, <1>7, <2>4, <3>1, <3>3, <3>4 DEF T
  <2>6. CASE ~noticed
    <3>1. r = Len(out \o job.extra)
      BY <1>2, <1>5, <1>7, <2>1, <2>2, <2>6
    <3>2. Len(out \o job.extra) = Len(out) + Len(job.extra)
      BY <1>1, Concat
    <3>3. out' = <<>> /\ job' = NoJob /\ phase' = after
      <4>1. r + 1 \in Int /\ Len(out) \in Int /\ Len(out) < r + 1
        BY <1>5, <3>1, <3>2
      <4>2. SubSeq(out, r + 1, Len(out)) = <<>>
        BY <4>1, SubSeqEmpty
      <4>3. QED BY <1>3, <2>3, <2>6, <4>2
    <3>4. Body' = <<>> /\ Lines' = <<>>
      BY <3>3 DEF Body, Lines, NoJob
    <3>5. out \o job.extra \in Seq(T)
      BY <1>1, ConcatProperties
    <3>6. sent = out \o job.extra
      BY <2>3, <3>1, <3>5, SubSeqFull
    <3>7. Lines' \in Seq(T)
      BY <3>4
    <3>8. QED BY <1>2, <1>4, <2>1, <3>3, <3>4, <3>5, <3>6, <3>7 DEF T
  <2>7. QED BY <2>5, <2>6
<1>8. QED BY <1>1, <1>6, <1>7

\* What the framing of a chunk adds to the ring and the caller's pieces is none
\* of these.
LEMMA LinesCarry ==
    ASSUME Inv, phase = "writev", NEW count
    PROVE  Carries(wire \o Lines, n, count) <=> Carries(wire \o Body, n, count)
<1> DEFINE T == Stamped(n)
<1>1. Types /\ n > 0 /\ wire \in Seq(T) /\ out \in Seq(T) /\ job.extra \in Seq(T)
  BY DEF Inv, Agree, Types, Job
<1>2. Body \in Seq(T) /\ Total \in Int
  BY <1>1, Concat DEF Body, Total
<1>3. CASE ~job.chunked
  BY <1>3 DEF Lines
<1>4. CASE job.chunked
  <2> DEFINE s == Token("size", Total)
             e == Token("nl", 0)
  <2>1. s \in T /\ e \in T /\ ~IsPiece(s, n) /\ ~IsPiece(e, n)
    <3>1. "size" \in Kinds /\ "nl" \in Kinds /\ 0 \in Int
      BY DEF Kinds
    <3>2. s \in T /\ e \in T
      BY <1>1, <1>2, <3>1, TokenIs
    <3>3. QED BY <3>2 DEF IsPiece, Token
  <2>2. Lines = (<<s>> \o Body) \o <<e>>
    BY <1>4 DEF Lines
  <2> HIDE DEF s, e, T
  <2>3. /\ <<s>> \in Seq(T) /\ \A i \in 1 .. Len(<<s>>) : ~IsPiece(<<s>>[i], n)
        /\ <<e>> \in Seq(T) /\ \A i \in 1 .. Len(<<e>>) : ~IsPiece(<<e>>[i], n)
    BY <2>1
  <2> DEFINE ss == <<s>>
             ee == <<e>>
             sb == ss \o Body
             ws == wire \o ss
             wb == wire \o sb
  <2> HIDE DEF ss, ee
  <2>4. ss \in Seq(T) /\ ee \in Seq(T)
    BY <2>3 DEF ss, ee
  <2>5. sb \in Seq(T) /\ ws \in Seq(T)
    BY <1>1, <1>2, <2>4, ConcatProperties DEF T
  <2>6. wb \in Seq(T)
    <3> HIDE DEF sb
    <3>1. QED BY <1>1, <2>5, ConcatProperties DEF T
  <2>7. wire \o (sb \o ee) = wb \o ee
    <3> HIDE DEF sb
    <3>1. (wire \o sb) \o ee = wire \o (sb \o ee)
      BY <1>1, <2>4, <2>5, Associative DEF T
    <3>2. QED BY <3>1, Zenon
  <2>8. wb = ws \o Body
    <3>1. wire \in Seq(T) /\ ss \in Seq(T) /\ Body \in Seq(T)
      BY <1>1, <1>2, <2>4 DEF T
    <3>2. \A x, y, z \in Seq(T) : (x \o y) \o z = x \o (y \o z)
      BY Associative
    <3> HIDE DEF T
    <3>3. (wire \o ss) \o Body = wire \o (ss \o Body)
      BY <3>1, <3>2, Zenon
    <3>4. QED BY <3>3, Zenon
  <2> HIDE DEF wb
  <2>9. Carries((wb \o ee) \o <<>>, n, count) <=> Carries(wb \o <<>>, n, count)
    <3>1. \A i \in 1 .. Len(ee) : ~IsPiece(ee[i], n)
      BY <2>3 DEF ee
    <3>2. <<>> \in Seq(T)
      OBVIOUS
    <3>3. QED BY <2>4, <2>6, <3>1, <3>2, CarriesInsert
  <2>10. wb \o <<>> = wb /\ (wb \o ee) \o <<>> = wb \o ee
    <3>1. wb \o ee \in Seq(T)
      BY <2>4, <2>6, ConcatProperties
    <3>2. wb \o <<>> = wb
      BY <2>6, ConcatEmptySeq
    <3>3. (wb \o ee) \o <<>> = wb \o ee
      BY <3>1, ConcatEmptySeq
    <3>4. QED BY <3>2, <3>3
  <2>11. Carries(ws \o Body, n, count) <=> Carries(wire \o Body, n, count)
    <3>1. \A i \in 1 .. Len(ss) : ~IsPiece(ss[i], n)
      BY <2>3 DEF ss
    <3>2. wire \in Seq(T) /\ Body \in Seq(T)
      BY <1>1, <1>2 DEF T
    <3>3. QED BY <2>4, <3>1, <3>2, CarriesInsert
  <2>12. wire \o Lines = wb \o ee
    BY <2>2, <2>7, Zenon DEF ss, ee
  <2> HIDE DEF ws
  <2>13. QED BY <2>8, <2>9, <2>10, <2>11, <2>12, Zenon
<1>5. QED BY <1>3, <1>4

\* writev(), complete, cut short or failed.
LEMMA CarriedWrites ==
    ASSUME Inv, NoLoss,
           \/ \E r \in 1 .. OutCap + 4, noticed \in BOOLEAN : Writev(r, noticed)
           \/ WritevPrefix \/ WritevError
    PROVE  NoLoss'
<1>1. CASE WritevPrefix \/ WritevError
  <2>1. torn' # {} \/ outfd' = FALSE
    BY <1>1 DEF WritevPrefix, WritevError
  <2>2. QED BY <2>1 DEF NoLoss
<1>2. ASSUME NEW r \in 1 .. OutCap + 4, NEW noticed \in BOOLEAN, Writev(r, noticed)
      PROVE  NoLoss'
  <2> SUFFICES ASSUME torn' = {} PROVE NoLoss'
    BY DEF NoLoss
  <2> DEFINE T == Stamped(n)
  <2>1. r \in Int
    BY HttpdAssumption
  <2>2. /\ Lines \in Seq(T) /\ Lines' \in Seq(T) /\ torn = {}
        /\ \E sent \in Seq(T) :
              /\ wire' = wire \o sent
              /\ \/ phase' = "writev" /\ ~job.chunked /\ sent \o Lines' = Lines
                 \/ phase' = after /\ Body' = <<>> /\ out' = <<>> /\ sent = Lines
    BY <1>2, <2>1, WritevLines
  <2>3. PICK sent \in Seq(T) :
              /\ wire' = wire \o sent
              /\ \/ phase' = "writev" /\ ~job.chunked /\ sent \o Lines' = Lines
                 \/ phase' = after /\ Body' = <<>> /\ out' = <<>> /\ sent = Lines
    BY <2>2
  <2>4. /\ phase = "writev" /\ n' = n /\ outfd' = outfd /\ wrote' = wrote
        /\ n > 0 /\ wire \in Seq(T)
    BY <1>2 DEF Writev, request, n, Inv, Agree, Types
  <2>5. Carries(wire \o Lines, n, wrote) <=> Carries(wire \o Body, n, wrote)
    BY <2>4, LinesCarry
  <2> HIDE DEF T
  <2>6. CASE phase' = "writev" /\ ~job.chunked /\ sent \o Lines' = Lines
    <3> DEFINE l == Lines'
    <3>0. l \in Seq(T)
      BY <2>2
    <3> HIDE DEF l
    <3>a. (wire \o sent) \o l = wire \o (sent \o l)
      BY <2>4, <3>0, Associative
    <3>1. (wire \o sent) \o Lines' = wire \o (sent \o Lines')
      BY <3>a DEF l
    <3>2. wire' \o Lines' = wire \o Lines
      BY <2>3, <2>6, <3>1, Zenon
    <3>3. Lines' = Body'
      <4>1. PICK left : job' = [chunked |-> FALSE, extra |-> left] \/ job' = NoJob
        BY <1>2 DEF Writev
      <4>2. job'.chunked = FALSE
        BY <4>1 DEF NoJob
      <4>3. QED BY <4>2 DEF Lines
    <3>4. QED BY <2>2, <2>4, <2>5, <2>6, <3>2, <3>3 DEF NoLoss
  <2>7. CASE phase' = after /\ Body' = <<>> /\ out' = <<>> /\ sent = Lines
    <3>1. wire \o sent \in Seq(T)
      BY <2>4, ConcatProperties
    <3>2. (wire \o sent) \o <<>> = wire \o sent
      BY <3>1, ConcatEmptySeq
    <3>3. wire' \o Body' = wire \o Lines
      BY <2>3, <2>7, <3>2, Zenon
    <3>4. QED BY <2>2, <2>4, <2>5, <2>7, <3>3 DEF NoLoss
  <2>8. QED BY <2>3, <2>6, <2>7
<1>3. QED BY <1>1, <1>2

\* Whatever the application writes and flushes, however the ring overflows and
\* writev() is cut short: as long as no chunk is torn and the descriptor is open,
\* each piece is, in order and once, on the wire, in the ring or in the write
\* being made, and none is left when minute_httpd_handle returns.
THEOREM NoLossHolds == Spec => []NoLoss
<1>1. Init => NoLoss
  BY DEF Init, NoLoss, n
<1>2. Inv /\ NoLoss /\ [Next]_vars => NoLoss'
  <2> SUFFICES ASSUME Inv, NoLoss, [Next]_vars PROVE NoLoss'
    OBVIOUS
  <2>1. CASE UNCHANGED vars
    BY <2>1 DEF vars, NoLoss, n, Body
  <2>2. CASE ReadEnd \/ (\E r \in Requests : ReadRequest(r)) \/ (\E r \in Requests : ReadBad(r))
    BY <2>2, CarriedReads
  <2>3. CASE Handle
    BY <2>3, CarriedWrites, CarriedSteps
  <2>4. QED BY <2>1, <2>2, <2>3 DEF Next
<1>3. QED BY <1>1, <1>2, InvHolds, PTL DEF Spec

---------------------------------------------------------------------------
(* The client                                                              *)

Laws == INSTANCE SeqFold_proofs WITH Step <- Client

\* The client after the tokens s.
After(c, s) == Reading!Fold(c, s)

Any == [kind : Kinds, value : Int, rq : Nat, method : {"get", "head"}]

Ats == {"over", "interim", "head", "chunks", "chunk", "stream", "bad"}
Clients == [rq : Nat, at : Ats, left : Int, chunked : BOOLEAN, silent : BOOLEAN]

\* No token, one token, two sequences.
LEMMA AfterNone ==
    ASSUME NEW c
    PROVE  After(c, <<>>) = c
<1>1. After(c, <<>>) = Laws!Fold(c, <<>>)
  BY DEF After, Reading!Fold, Laws!Fold
<1>2. QED BY <1>1, Laws!FoldEmpty

LEMMA AfterBoth ==
    ASSUME NEW c, NEW s \in Seq(Any), NEW t \in Seq(Any)
    PROVE  After(c, s \o t) = After(After(c, s), t)
<1>1. \A b, u : After(b, u) = Laws!Fold(b, u)
  BY DEF After, Reading!Fold, Laws!Fold
<1>2. Laws!Fold(c, s \o t) = Laws!Fold(Laws!Fold(c, s), t)
  BY Laws!FoldConcat
<1>3. QED BY <1>1, <1>2

LEMMA AfterOne ==
    ASSUME NEW c, NEW t \in Any
    PROVE  After(c, <<t>>) = Client(c, t)
<1>1. \A b, u : After(b, u) = Laws!Fold(b, u)
  BY DEF After, Reading!Fold, Laws!Fold
<1>2. <<t>> = Append(<<>>, t) /\ <<>> \in Seq(Any)
  OBVIOUS
<1>3. \A u, x : u \in Seq(Any) /\ x \in Any =>
          Laws!Fold(c, Append(u, x)) = Client(Laws!Fold(c, u), x)
  BY Laws!FoldAppend
<1>4. Laws!Fold(c, Append(<<>>, t)) = Client(Laws!Fold(c, <<>>), t)
  BY <1>2, <1>3
<1>5. QED BY <1>1, <1>2, <1>4, AfterNone

\* What each token keeps, the sequence keeps.
LEMMA AfterKeeps ==
    ASSUME NEW s \in Seq(Any), NEW I, NEW c \in I[0],
           \A i \in 1 .. Len(s) : \A d \in I[i - 1] : Client(d, s[i]) \in I[i]
    PROVE  After(c, s) \in I[Len(s)]
<1>1. After(c, s) = Laws!Fold(c, s)
  BY DEF After, Reading!Fold, Laws!Fold
<1>2. Len(s) \in Nat
  OBVIOUS
<1>3. QED BY <1>1, <1>2, Laws!FoldInvariant

LEMMA ClientTypes ==
    ASSUME NEW c \in Clients, NEW t \in Any
    PROVE  Client(c, t) \in Clients
<1>1. NewResponse(t) \in Clients
  <2>1. Silent(t) \in BOOLEAN
    BY DEF Silent
  <2> HIDE DEF Silent
  <2>2. QED BY <2>1 DEF NewResponse, Clients, Any, Ats
<1>2. Lost \in Clients
  BY DEF Lost, Clients, Ats
<1>3. CASE Begins(c, t)
  BY <1>1, <1>3 DEF Client
<1>4. CASE ~Begins(c, t) /\ ~(c.rq = t.rq /\ <<c.at, t.kind>> \in Expected(c))
  BY <1>2, <1>4 DEF Client
<1>5. CASE ~Begins(c, t) /\ c.rq = t.rq /\ <<c.at, t.kind>> \in Expected(c)
  <2> DEFINE left == IF t.kind = "size" THEN t.value
                     ELSE IF c.at = "chunk" /\ c.left > 0 THEN c.left - 1 ELSE c.left
             ch == c.chunked \/ t.kind = "chunked"
  <2>1. PlaceAfter(c, t.kind) \in Ats
    BY DEF PlaceAfter, Clients, Ats
  <2>2. left \in Int
    BY DEF Clients, Any
  <2>3. ch \in BOOLEAN
    OBVIOUS
  <2>4. c.rq \in Nat /\ c.silent \in BOOLEAN
    BY DEF Clients
  <2>5. Client(c, t) = [rq |-> c.rq, at |-> PlaceAfter(c, t.kind), left |-> left,
                        chunked |-> ch, silent |-> c.silent]
    BY <1>5 DEF Client
  <2> HIDE DEF left, ch
  <2>6. QED BY <2>1, <2>2, <2>3, <2>4, <2>5 DEF Clients
<1>6. QED BY <1>3, <1>4, <1>5

\* A client that is lost stays so.
LEMMA ClientBad ==
    ASSUME NEW c, c.at = "bad", NEW t
    PROVE  Client(c, t).at = "bad"
<1>1. ~Begins(c, t)
  BY DEF Begins
<1>2. <<c.at, t.kind>> \notin Expected(c)
  BY DEF Expected
<1>3. QED BY <1>1, <1>2 DEF Client, Lost

\* A response begins.
LEMMA ClientBegins ==
    ASSUME NEW c, NEW t, t.kind \in {"continue", "status"},
           \/ c.at = "over" /\ t.rq = c.rq + 1
           \/ c.at = "interim" /\ t.rq = c.rq /\ t.kind = "status"
    PROVE  Client(c, t) = NewResponse(t)
BY DEF Client, Begins

\* It goes on.
LEMMA ClientExpects ==
    ASSUME NEW c \in Clients, NEW t \in Any, t.rq = c.rq, t.kind \notin {"continue", "status"},
           <<c.at, t.kind>> \in Expected(c)
    PROVE  /\ Client(c, t) \in Clients
           /\ Client(c, t).rq = c.rq /\ Client(c, t).silent = c.silent
           /\ Client(c, t).at = PlaceAfter(c, t.kind)
           /\ Client(c, t).chunked = (c.chunked \/ t.kind = "chunked")
           /\ Client(c, t).left = IF t.kind = "size" THEN t.value
                                  ELSE IF c.at = "chunk" /\ c.left > 0 THEN c.left - 1 ELSE c.left
<1>1. ~Begins(c, t)
  BY DEF Begins
<1>2. QED BY <1>1, ClientTypes DEF Client

Stamps(s, k, kinds) == \A i \in 1 .. Len(s) : s[i].rq = k /\ s[i].kind \in kinds

LEMMA AfterTypes ==
    ASSUME NEW c \in Clients, NEW s \in Seq(Any)
    PROVE  After(c, s) \in Clients
<1> DEFINE I == [i \in 0 .. Len(s) |-> Clients]
<1>1. /\ c \in I[0] /\ I[Len(s)] = Clients
      /\ \A i \in 1 .. Len(s) : I[i - 1] = Clients /\ I[i] = Clients
  OBVIOUS
<1> HIDE DEF I
<1>2. \A i \in 1 .. Len(s) : \A d \in I[i - 1] : Client(d, s[i]) \in I[i]
  BY <1>1, ClientTypes
<1>3. QED BY <1>1, <1>2, AfterKeeps

LEMMA AfterBad ==
    ASSUME NEW c, c.at = "bad", NEW s \in Seq(Any)
    PROVE  After(c, s).at = "bad"
<1> DEFINE B == {c, Lost}
           I == [i \in 0 .. Len(s) |-> B]
<1>0. \A d \in B : d.at = "bad"
  BY DEF Lost
<1>a. \A d \in B, t \in Any : Client(d, t) \in B
  <2> SUFFICES ASSUME NEW d \in B, NEW t \in Any PROVE Client(d, t) = Lost
    OBVIOUS
  <2>1. ~Begins(d, t)
    BY <1>0 DEF Begins
  <2>2. <<d.at, t.kind>> \notin Expected(d)
    BY <1>0 DEF Expected
  <2>3. QED BY <2>1, <2>2 DEF Client
<1>1. /\ c \in I[0] /\ I[Len(s)] = B
      /\ \A i \in 1 .. Len(s) : I[i - 1] = B /\ I[i] = B
  OBVIOUS
<1> HIDE DEF I, B
<1>2. \A i \in 1 .. Len(s) : \A d \in I[i - 1] : Client(d, s[i]) \in I[i]
  BY <1>1, <1>a
<1>3. After(c, s) \in B
  BY <1>1, <1>2, AfterKeeps
<1>4. QED BY <1>0, <1>3

\* In the place `head' a header line, and in the place `stream' a piece of body,
\* changes nothing.
LEMMA AfterSame ==
    ASSUME NEW c \in Clients, NEW s \in Seq(Any),
           \/ c.at = "head" /\ Stamps(s, c.rq, {"header", "connection"})
           \/ c.at = "stream" /\ Stamps(s, c.rq, BodyKinds)
    PROVE  After(c, s) = c
<1> DEFINE I == [i \in 0 .. Len(s) |-> {c}]
<1>1. /\ c \in I[0] /\ I[Len(s)] = {c}
      /\ \A i \in 1 .. Len(s) : I[i - 1] = {c} /\ I[i] = {c}
  OBVIOUS
<1>2. ASSUME NEW i \in 1 .. Len(s) PROVE Client(c, s[i]) = c
  <2> DEFINE t == s[i]
  <2>1. /\ t \in Any /\ t.rq = c.rq
        /\ \/ c.at = "head" /\ t.kind \in {"header", "connection"}
           \/ c.at = "stream" /\ t.kind \in BodyKinds
    BY DEF Stamps
  <2> HIDE DEF t
  <2>2. t.kind \notin {"continue", "status"} /\ <<c.at, t.kind>> \in Expected(c)
    BY <2>1 DEF Expected, BodyKinds
  <2>3. /\ Client(c, t) \in Clients
        /\ Client(c, t).rq = c.rq /\ Client(c, t).silent = c.silent
        /\ Client(c, t).at = c.at
        /\ Client(c, t).chunked = c.chunked
        /\ Client(c, t).left = c.left
    BY <2>1, <2>2, ClientExpects DEF PlaceAfter, BodyKinds, Clients
  <2>4. QED BY <2>3 DEF Clients, t
<1> HIDE DEF I
<1>3. \A i \in 1 .. Len(s) : \A d \in I[i - 1] : Client(d, s[i]) \in I[i]
  BY <1>1, <1>2
<1>4. After(c, s) \in {c}
  BY <1>1, <1>3, AfterKeeps
<1>5. QED BY <1>4

\* The pieces of a chunk.
LEMMA AfterPieces ==
    ASSUME NEW c \in Clients, NEW s \in Seq(Any), c.at = "chunk", c.left = Len(s),
           Stamps(s, c.rq, BodyKinds)
    PROVE  /\ After(c, s).at = "chunk" /\ After(c, s).left = 0 /\ After(c, s).rq = c.rq
           /\ After(c, s).chunked = c.chunked /\ After(c, s).silent = c.silent
           /\ After(c, s) \in Clients
<1> DEFINE In(i) == {d \in Clients : d.at = "chunk" /\ d.left = Len(s) - i /\ d.rq = c.rq
                                     /\ d.chunked = c.chunked /\ d.silent = c.silent}
           I == [i \in 0 .. Len(s) |-> In(i)]
<1>1. /\ I[0] = In(0) /\ I[Len(s)] = In(Len(s))
      /\ \A i \in 1 .. Len(s) : I[i - 1] = In(i - 1) /\ I[i] = In(i)
  OBVIOUS
<1> HIDE DEF I
<1>2. ASSUME NEW i \in 1 .. Len(s), NEW d \in In(i - 1) PROVE Client(d, s[i]) \in In(i)
  <2> DEFINE t == s[i]
  <2>1. t \in Any /\ t.rq = d.rq /\ t.kind \in BodyKinds
    BY DEF Stamps
  <2>2. d \in Clients /\ d.at = "chunk" /\ d.left = Len(s) - (i - 1) /\ d.left > 0
        /\ d.rq = c.rq /\ d.chunked = c.chunked /\ d.silent = c.silent
    OBVIOUS
  <2> HIDE DEF t, In
  <2>3. t.kind \notin {"continue", "status", "size", "nl", "blank", "last", "chunked"}
        /\ <<d.at, t.kind>> \in Expected(d)
    BY <2>1, <2>2 DEF Expected, BodyKinds
  <2>4. /\ Client(d, t) \in Clients
        /\ Client(d, t).rq = c.rq /\ Client(d, t).silent = c.silent
        /\ Client(d, t).at = "chunk"
        /\ Client(d, t).chunked = c.chunked
        /\ Client(d, t).left = d.left - 1
    BY <2>1, <2>2, <2>3, ClientExpects DEF PlaceAfter, Clients
  <2>5. d.left - 1 = Len(s) - i
    BY <2>2
  <2>6. QED BY <2>4, <2>5 DEF In, t
<1>3. c \in I[0]
  BY <1>1
<1>4. After(c, s) \in I[Len(s)]
  <2> HIDE DEF In
  <2>1. QED BY <1>1, <1>2, <1>3, AfterKeeps
<1>5. QED BY <1>1, <1>4

\* A chunk.
LEMMA AfterChunk ==
    ASSUME NEW c \in Clients, c.at = "chunks", NEW s \in Seq(Any), Stamps(s, c.rq, BodyKinds),
           NEW size \in Any, size.kind = "size", size.value = Len(s), size.rq = c.rq,
           NEW nl \in Any, nl.kind = "nl", nl.rq = c.rq
    PROVE  LET d == After(c, (<<size>> \o s) \o <<nl>>)
           IN  /\ d \in Clients /\ d.at = "chunks" /\ d.rq = c.rq
               /\ d.chunked = c.chunked /\ d.silent = c.silent
<1> DEFINE c1 == Client(c, size)
           c2 == After(c1, s)
           c3 == Client(c2, nl)
<1>1. /\ c1 \in Clients /\ c1.at = "chunk" /\ c1.left = Len(s) /\ c1.rq = c.rq
      /\ c1.chunked = c.chunked /\ c1.silent = c.silent
  <2>1. <<c.at, size.kind>> \in Expected(c)
    BY DEF Expected
  <2>2. QED BY <2>1, ClientExpects DEF PlaceAfter, Clients
<1> HIDE DEF c1
<1>2. /\ c2 \in Clients /\ c2.at = "chunk" /\ c2.left = 0 /\ c2.rq = c.rq
      /\ c2.chunked = c.chunked /\ c2.silent = c.silent
  BY <1>1, AfterPieces
<1> HIDE DEF c2
<1>3. /\ c3 \in Clients /\ c3.at = "chunks" /\ c3.rq = c.rq
      /\ c3.chunked = c.chunked /\ c3.silent = c.silent
  <2>1. <<c2.at, nl.kind>> \in Expected(c2)
    BY <1>2 DEF Expected
  <2>2. QED BY <1>2, <2>1, ClientExpects DEF PlaceAfter, Clients
<1> HIDE DEF c3
<1> DEFINE sz == <<size>>
           ln == <<nl>>
           b == sz \o s
<1>4. sz \in Seq(Any) /\ ln \in Seq(Any)
  OBVIOUS
<1>5. After(c, sz) = c1
  BY AfterOne DEF c1
<1>6. After(c2, ln) = c3
  BY AfterOne DEF c3
<1> HIDE DEF sz, ln
<1>7. b \in Seq(Any)
  BY <1>4, ConcatProperties
<1>8. After(c, b) = c2
  BY <1>4, <1>5, AfterBoth DEF c2
<1> HIDE DEF b
<1>9. After(c, b \o ln) = c3
  BY <1>4, <1>6, <1>7, <1>8, AfterBoth
<1>10. QED BY <1>3, <1>9 DEF b, sz, ln

---------------------------------------------------------------------------
(* Where the client is when minute_httpd_handle is in a given place        *)

Silence == rq.method = "head" \/ status \in Bodiless

Before(c)   == c.at = "over" /\ c.rq = n - 1
Over(c)     == c.at = "over" /\ c.rq = n
InChunks(c) == c.at = "chunks" /\ c.rq = n
InBody(c)   == c.at = "stream" /\ c.rq = n /\ c.chunked = FALSE
Ended(c)    == c.at \in {"stream", "over"} /\ c.rq = n /\ c.chunked = FALSE
InHead(c, silent, chunked) ==
    c.at = "head" /\ c.rq = n /\ c.silent = silent /\ c.chunked = chunked

\* In the place p, with the tokens o in the ring, c is the client before them.
ReadyHead(p, c, o) ==
    /\ p \in {"header", "payload"} => Len(o) <= 1 + headers
    /\ p \in {"header", "payload", "status"} => Stamps(o, n, {"header"})
    /\ p = "header" => Before(c)
    /\ p \in {"payload", "status"} => Before(c) \/ (c.at = "interim" /\ c.rq = n)
    /\ p = "status" => status \in {200, 204}
    /\ p \in {"connection", "encoding"} => InHead(After(c, o), Silence, FALSE)
    /\ p = "blank" => InHead(After(c, o), Silence, keep)

ReadyBody(p, c, o) ==
    /\ p = "response" => ~Silence
    /\ p \in {"response", "flush"} /\ ~Silence =>
          /\ keep => InChunks(c) /\ Stamps(o, n, BodyKinds)
          /\ ~keep => InBody(After(c, o))
    /\ p = "flush" /\ Silence =>
          o = <<>> /\ Over(c) /\ c.silent = TRUE /\ (c.chunked = TRUE => keep)
    /\ p = "end" /\ keep => InChunks(c) \/ (Over(c) /\ c.silent = TRUE)
    /\ p = "discard" /\ keep => Over(c)
    /\ p \in {"end", "discard"} /\ ~keep => Ended(c)
    /\ p = "idle" => Over(c)
    /\ p = "closed" => Ended(c)

ReadyError(p, c, o) ==
    /\ p = "errstatus" => Before(c) /\ status = 400 /\ o = <<>>
    /\ p \in {"errhead", "errblank"} => InHead(After(c, o), FALSE, FALSE)
    /\ p \in {"errbody", "errflush"} => InBody(After(c, o))

Ready(p, c, o) == ReadyHead(p, c, o) /\ ReadyBody(p, c, o) /\ ReadyError(p, c, o)

\* The client when the write being made is complete, and what is in the ring then.
Pending == IF phase = "writev" THEN Lines ELSE <<>>
Ring    == IF phase = "writev" THEN <<>> ELSE out

Framing ==
    /\ phase = "writev" => after \notin {"writev", "ended"}
    /\ torn = {} =>
          /\ Seen.at # "bad"
          /\ outfd /\ phase # "ended" => Ready(Place, After(Seen, Pending), Ring)
---------------------------------------------------------------------------
(* What the invariant is made of                                           *)

LEMMA SeenIs ==
    ASSUME Types
    PROVE  /\ n \in Nat /\ \A s : s \in Seq(Stamped(n)) => s \in Seq(Any)
           /\ out \in Seq(Any) /\ wire \in Seq(Any) /\ Seen \in Clients
<1>1. n \in Nat
  BY DEF Types, n
<1>2. Stamped(n) \subseteq Any
  <2>1. 0 .. n \subseteq Nat
    BY <1>1
  <2>2. QED BY <2>1 DEF Stamped, Any
<1>3. ASSUME NEW s \in Seq(Stamped(n)) PROVE s \in Seq(Any)
  BY <1>2
<1>4. out \in Seq(Any) /\ wire \in Seq(Any)
  BY <1>3 DEF Types
<1>5. ClientStart \in Clients
  BY DEF ClientStart, Clients, Ats
<1>6. After(ClientStart, wire) \in Clients
  BY <1>4, <1>5, AfterTypes
<1>7. Seen = After(ClientStart, wire)
  BY DEF Seen, After
<1>8. QED BY <1>1, <1>3, <1>4, <1>6, <1>7

\* No place that awaits the client has lost it.
LEMMA ReadyIsNotBad ==
    ASSUME NEW p \in Phase \ {"writev", "ended"}, NEW c \in Clients, NEW o \in Seq(Any),
           Ready(p, c, o)
    PROVE  c.at # "bad"
<1> SUFFICES ASSUME c.at = "bad" PROVE FALSE
  OBVIOUS
<1>1. After(c, o).at = "bad"
  BY AfterBad
<1> DEFINE d == After(c, o)
<1> HIDE DEF d
<1>2. d.at = "bad"
  BY <1>1 DEF d
<1>3. p \notin {"connection", "encoding", "blank", "errhead", "errblank", "errbody", "errflush"}
  BY <1>2 DEF Ready, ReadyHead, ReadyError, InHead, InBody, d
<1>4. p \notin {"header", "payload", "status", "end", "discard", "idle", "closed", "errstatus"}
  BY DEF Ready, ReadyHead, ReadyBody, ReadyError, Before, InChunks, Over, Ended
<1>5. p # "response" /\ p # "flush"
  BY <1>2 DEF Ready, ReadyBody, InChunks, InBody, Over, d
<1>6. QED BY <1>3, <1>4, <1>5 DEF Phase

\* The variables it depends on.
LEMMA ReadySame ==
    ASSUME NEW p, NEW c, NEW o,
           UNCHANGED <<asked, status, keep>>, p \in {"header", "payload"} => UNCHANGED headers
    PROVE  Ready(p, c, o)' <=> Ready(p, c, o)
<1>1. n' = n /\ rq' = rq /\ Silence' = Silence
  BY DEF n, rq, Silence
<1>2. \A d : /\ Before(d)' = Before(d) /\ Over(d)' = Over(d) /\ InChunks(d)' = InChunks(d)
             /\ InBody(d)' = InBody(d) /\ Ended(d)' = Ended(d)
             /\ \A x, y : InHead(d, x, y)' = InHead(d, x, y)
  BY <1>1 DEF Before, Over, InChunks, InBody, Ended, InHead
<1>3. /\ After(c, o)' = After(c, o)
      /\ \A kinds : Stamps(o, n, kinds)' = Stamps(o, n, kinds)
  BY <1>1 DEF Stamps
<1>4. ReadyHead(p, c, o)' <=> ReadyHead(p, c, o)
  BY <1>1, <1>2, <1>3 DEF ReadyHead
<1>5. ReadyBody(p, c, o)' <=> ReadyBody(p, c, o)
  BY <1>1, <1>2, <1>3 DEF ReadyBody
<1>6. ReadyError(p, c, o)' <=> ReadyError(p, c, o)
  BY <1>2, <1>3 DEF ReadyError
<1>7. QED BY <1>4, <1>5, <1>6 DEF Ready

\* Without a write to be made.
LEMMA FramingIs ==
    ASSUME Types', phase' # "writev",
           torn' = {} => /\ Seen'.at # "bad"
                         /\ outfd' /\ phase' # "ended" => Ready(phase, Seen, out)'
    PROVE  Framing'
<1>1. Place' = phase' /\ Pending' = <<>> /\ Ring' = out'
  BY DEF Place, Pending, Ring
<1>2. After(Seen', <<>>) = Seen'
  BY AfterNone
<1>3. QED BY <1>1, <1>2 DEF Framing

\* The same, of one request.
LEMMA FramingMoves ==
    ASSUME Types', phase' # "writev", UNCHANGED <<asked, status, keep, headers>>,
           NEW p, NEW c, NEW o, phase' = p, out' = o, outfd' => Seen' = c,
           torn' = {} => /\ Seen'.at # "bad"
                         /\ outfd' /\ p # "ended" => Ready(p, c, o)
    PROVE  Framing'
<1>1. Ready(p, c, o)' <=> Ready(p, c, o)
  BY ReadySame
<1>2. outfd' /\ Ready(p, c, o)' => Ready(phase, Seen, out)'
  OBVIOUS
<1>3. QED BY <1>1, <1>2, FramingIs

\* What minute_httpd_chunk makes of the tokens s.
Frame(s, chunked) ==
    IF chunked THEN (<<Token("size", Len(s))>> \o s) \o <<Token("nl", 0)>> ELSE s

\* A step that puts tokens in the ring or in a write to be made.
LEMMA FramingPuts ==
    ASSUME Inv, Framing, phase \notin {"writev", "ended"}, Types',
           NEW tokens \in Seq(Stamped(n)), NEW chunked \in BOOLEAN,
           NEW next \in Phase \ {"writev", "ended"},
           \/ Output(tokens, chunked, next)
           \/ Chunk(tokens, chunked, next) /\ UNCHANGED out,
           UNCHANGED <<asked, status, keep, headers, outfd, wire, torn>>,
           torn = {} /\ outfd /\ (~Chunk(tokens, chunked, next) \/ out \o tokens = <<>>) =>
              Ready(next, Seen, out \o tokens),
           torn = {} /\ outfd /\ out \o tokens # <<>> =>
              Ready(next, After(Seen, Frame(out \o tokens, chunked)), <<>>)
    PROVE  Framing'
<1> DEFINE more == out \o tokens
<1>1. job = NoJob /\ NoJob.extra = <<>> /\ n' = n /\ Seen' = Seen
      /\ (torn' = {} => torn = {} /\ Seen.at # "bad")
  BY DEF Inv, Agree, NoJob, n, Seen, Framing
<1>2. CASE phase' = next /\ out' = more
  <2>1. ~Chunk(tokens, chunked, next) \/ more = <<>>
    BY <1>2 DEF Chunk
  <2>2. torn = {} /\ outfd => Ready(next, Seen, more)
    BY <2>1
  <2> HIDE DEF more
  <2>3. QED BY <1>1, <1>2, <2>2, FramingMoves
<1>3. CASE more # <<>> /\ phase' = "writev" /\ out' = out /\ after' = next
           /\ job' = [chunked |-> chunked, extra |-> tokens]
  <2>1. Body' = more
    BY <1>3 DEF Body
  <2>2. Lines' = Frame(more, chunked)
    <3>1. Total' = Len(more) /\ \A k, v : Token(k, v)' = Token(k, v)
      BY <2>1, <1>1 DEF Total, Token, rq
    <3>2. job'.chunked = chunked
      BY <1>3
    <3>3. CASE chunked
      BY <2>1, <3>1, <3>2, <3>3 DEF Lines, Frame
    <3>4. CASE ~chunked
      BY <2>1, <3>1, <3>2, <3>4 DEF Lines, Frame
    <3>5. QED BY <3>3, <3>4
  <2>3. Place' = next /\ Pending' = Frame(more, chunked) /\ Ring' = <<>>
    BY <1>3, <2>2 DEF Place, Pending, Ring
  <2> DEFINE c == After(Seen, Frame(more, chunked))
  <2>4. torn = {} /\ outfd => Ready(next, c, <<>>)
    BY <1>3
  <2>5. After(Seen, Pending)' = c
    <3>1. After(Seen, Pending)' = After(Seen', Pending')
      BY DEF After
    <3>2. QED BY <1>1, <2>3, <3>1
  <2> HIDE DEF c, more
  <2>6. \A p, d, o : Ready(p, d, o)' <=> Ready(p, d, o)
    BY ReadySame
  <2>7. ASSUME torn = {}, outfd PROVE Ready(Place, After(Seen, Pending), Ring)'
    BY <2>3, <2>4, <2>5, <2>6, <2>7
  <2>8. QED BY <1>1, <1>3, <2>7 DEF Framing
<1>4. CASE more = <<>> /\ phase' = next /\ out' = out
  <2>1. out = <<>>
    BY <1>4, ConcatEqualIffEmpty DEF Inv, Types
  <2>2. QED BY <1>2, <1>4, <2>1
<1>5. QED BY <1>2, <1>3, <1>4 DEF Output, Chunk

---------------------------------------------------------------------------
(* The steps                                                               *)

\* A token after the tokens s.
LEMMA AfterLast ==
    ASSUME NEW c, NEW s \in Seq(Any), NEW t \in Any
    PROVE  After(c, s \o <<t>>) = Client(After(c, s), t) /\ s \o <<t>> \in Seq(Any)
<1> DEFINE u == <<t>>
<1>1. u \in Seq(Any)
  OBVIOUS
<1>2. \A d : After(d, u) = Client(d, t)
  BY AfterOne
<1> HIDE DEF u
<1>3. After(c, s \o u) = After(After(c, s), u)
  BY <1>1, AfterBoth
<1>4. s \o u \in Seq(Any)
  BY <1>1, ConcatProperties
<1>5. QED BY <1>2, <1>3, <1>4 DEF u

\* The header lines that end with this one.
LEMMA HeadGoesOn ==
    ASSUME NEW c \in Clients, c.at = "head", NEW t \in Any, t.rq = c.rq
    PROVE  LET d == Client(c, t)
           IN  /\ t.kind \in {"header", "connection"} =>
                     d.at = "head" /\ d.rq = c.rq /\ d.silent = c.silent /\ d.chunked = c.chunked
               /\ t.kind = "chunked" =>
                     d.at = "head" /\ d.rq = c.rq /\ d.silent = c.silent /\ d.chunked = TRUE
               /\ t.kind = "blank" =>
                     /\ d.rq = c.rq /\ d.silent = c.silent /\ d.chunked = c.chunked
                     /\ c.silent => d.at = "over"
                     /\ ~c.silent /\ c.chunked => d.at = "chunks"
                     /\ ~c.silent /\ ~c.chunked => d.at = "stream"
<1> SUFFICES ASSUME t.kind \in {"header", "connection", "chunked", "blank"}
             PROVE  LET d == Client(c, t)
                    IN  /\ d.rq = c.rq /\ d.silent = c.silent
                        /\ d.at = PlaceAfter(c, t.kind)
                        /\ d.chunked = (c.chunked \/ t.kind = "chunked")
  <2>1. c.chunked \in BOOLEAN /\ c.silent \in BOOLEAN
    BY DEF Clients
  <2>2. QED BY <2>1 DEF PlaceAfter
<1>1. <<c.at, t.kind>> \in Expected(c) /\ t.kind \notin {"continue", "status"}
  BY DEF Expected
<1>2. QED BY <1>1, ClientExpects

\* The headers of the handler, and the blank line.
LEMMA FramedHead ==
    ASSUME Inv, Framing, Types',
           AddConnection \/ AddEncoding \/ EndHeaders \/ ErrorHeaders \/ ErrorEndHeaders
    PROVE  Framing'
<1>1. Types /\ n > 0 /\ phase \notin {"writev", "ended"} /\ Place = phase
      /\ UNCHANGED <<asked, status, keep, headers, outfd, wire, torn>>
      /\ keep \in BOOLEAN
  BY DEF Inv, Agree, Types, Place, AddConnection, AddEncoding, EndHeaders, ErrorHeaders,
         ErrorEndHeaders, request, history
<1>2. Seen \in Clients /\ out \in Seq(Any) /\ \A s : s \in Seq(Stamped(n)) => s \in Seq(Any)
  BY <1>1, SeenIs
<1> DEFINE d == After(Seen, out)
<1>3. d \in Clients
  BY <1>2, AfterTypes
<1>4. torn = {} /\ outfd => Ready(phase, Seen, out) /\ Seen.at # "bad"
  <2>1. After(Seen, Pending) = Seen /\ Ring = out
    BY <1>1, AfterNone DEF Pending, Ring
  <2>2. QED BY <1>1, <2>1 DEF Framing
\* The line t, and the client once it has it.
<1>5. ASSUME NEW kind \in {"header", "connection", "chunked", "blank"}, NEW t, t = Token(kind, 0)
      PROVE  /\ <<t>> \in Seq(Stamped(n)) /\ t \in Any /\ t.rq = n /\ t.kind = kind
             /\ After(Seen, out \o <<t>>) = Client(d, t)
             /\ out \o <<t>> # <<>>
             /\ After(Client(d, t), <<>>) = Client(d, t)
  <2>1. kind \in Kinds /\ 0 \in Int
    BY DEF Kinds
  <2>2. t \in Stamped(n) /\ <<t>> \in Seq(Stamped(n))
    BY <1>1, <1>5, <2>1, TokenIs
  <2>3. t \in Any
    <3>1. <<t>> \in Seq(Any)
      BY <1>2, <2>2
    <3>2. QED BY <3>1
  <2>4. t.rq = n /\ t.kind = kind
    BY <1>5 DEF Token
  <2>5. After(Seen, out \o <<t>>) = Client(d, t)
    BY <1>2, <2>3, AfterLast
  <2>6. out \o <<t>> # <<>>
    <3>1. Len(out \o <<t>>) = Len(out) + 1 /\ Len(out) \in Nat
      BY <1>2, <2>3
    <3>2. QED BY <3>1
  <2>7. QED BY <2>2, <2>3, <2>4, <2>5, <2>6, AfterNone
\* A line that goes to the ring or out with it.
<1>6. ASSUME NEW kind \in {"header", "connection", "chunked", "blank"},
             NEW next \in Phase \ {"writev", "ended"},
             \/ Output(<<Token(kind, 0)>>, FALSE, next)
             \/ Chunk(<<Token(kind, 0)>>, FALSE, next) /\ UNCHANGED out,
             torn = {} /\ outfd =>
                LET t == Token(kind, 0)
                IN  /\ ~Chunk(<<t>>, FALSE, next) => Ready(next, Seen, out \o <<t>>)
                    /\ Ready(next, Client(d, t), <<>>)
      PROVE  Framing'
  <2> DEFINE t == Token(kind, 0)
             more == out \o <<t>>
  <2>1. /\ <<t>> \in Seq(Stamped(n)) /\ more # <<>>
        /\ After(Seen, more) = Client(d, t)
    BY <1>5
  <2>2. Frame(more, FALSE) = more
    BY DEF Frame
  <2>3. torn = {} /\ outfd =>
           /\ ~Chunk(<<t>>, FALSE, next) => Ready(next, Seen, more)
           /\ Ready(next, After(Seen, Frame(more, FALSE)), <<>>)
    BY <1>6, <2>1, <2>2
  <2>4. \/ Output(<<t>>, FALSE, next)
        \/ Chunk(<<t>>, FALSE, next) /\ UNCHANGED out
    BY <1>6
  <2> HIDE DEF t
  <2>5. QED BY <1>1, <2>1, <2>3, <2>4, FramingPuts
\* A line whose place depends on what is before it alone.
<1>7. \A c, s : /\ Ready("connection", c, s) <=> InHead(After(c, s), Silence, FALSE)
                /\ Ready("encoding", c, s) <=> InHead(After(c, s), Silence, FALSE)
                /\ Ready("blank", c, s) <=> InHead(After(c, s), Silence, keep)
                /\ Ready("errhead", c, s) <=> InHead(After(c, s), FALSE, FALSE)
                /\ Ready("errblank", c, s) <=> InHead(After(c, s), FALSE, FALSE)
  BY DEF Ready, ReadyHead, ReadyBody, ReadyError
<1> HIDE DEF d
<1>8. CASE AddConnection
  <2>1. phase = "connection"
    BY <1>8 DEF AddConnection
  <2>2. torn = {} /\ outfd => InHead(d, Silence, FALSE)
    BY <1>4, <1>7, <2>1 DEF d
  <2>3. CASE phase' = "encoding" /\ UNCHANGED <<out, job, after>>
    <3>1. torn = {} /\ outfd => Ready("encoding", Seen, out)
      BY <1>7, <2>2 DEF d
    <3>2. Seen' = Seen
      BY <1>1 DEF Seen
    <3>3. torn' = {} => Seen'.at # "bad"
      BY <1>1, <3>2 DEF Framing
    <3>4. QED BY <1>1, <2>3, <3>1, <3>2, <3>3, FramingMoves
  <2>4. CASE Output(<<Token("connection", 0)>>, FALSE, "encoding")
    <3> DEFINE t == Token("connection", 0)
    <3>1. t \in Any /\ t.rq = n /\ t.kind = "connection"
          /\ After(Seen, out \o <<t>>) = Client(d, t) /\ After(Client(d, t), <<>>) = Client(d, t)
      BY <1>5
    <3> HIDE DEF t
    <3>2. torn = {} /\ outfd => InHead(Client(d, t), Silence, FALSE)
      BY <1>3, <2>2, <3>1, HeadGoesOn DEF InHead
    <3>3. torn = {} /\ outfd => /\ Ready("encoding", Seen, out \o <<t>>)
                                /\ Ready("encoding", Client(d, t), <<>>)
      BY <1>7, <3>1, <3>2
    <3>4. QED BY <1>6, <2>4, <3>3 DEF t, Phase
  <2>5. QED BY <1>8, <2>3, <2>4 DEF AddConnection
<1>9. CASE AddEncoding
  <2>1. phase = "encoding"
    BY <1>9 DEF AddEncoding
  <2>2. torn = {} /\ outfd => InHead(d, Silence, FALSE)
    BY <1>4, <1>7, <2>1 DEF d
  <2>3. CASE ~keep /\ phase' = "blank" /\ UNCHANGED <<out, job, after>>
    <3>1. torn = {} /\ outfd => Ready("blank", Seen, out)
      BY <1>1, <1>7, <2>2, <2>3 DEF d
    <3>2. Seen' = Seen
      BY <1>1 DEF Seen
    <3>3. torn' = {} => Seen'.at # "bad"
      BY <1>1, <3>2 DEF Framing
    <3>4. QED BY <1>1, <2>3, <3>1, <3>2, <3>3, FramingMoves
  <2>4. CASE keep /\ Output(<<Token("chunked", 0)>>, FALSE, "blank")
    <3> DEFINE t == Token("chunked", 0)
    <3>1. t \in Any /\ t.rq = n /\ t.kind = "chunked"
          /\ After(Seen, out \o <<t>>) = Client(d, t) /\ After(Client(d, t), <<>>) = Client(d, t)
      BY <1>5
    <3> HIDE DEF t
    <3>2. torn = {} /\ outfd => InHead(Client(d, t), Silence, keep)
      BY <1>1, <1>3, <2>2, <2>4, <3>1, HeadGoesOn DEF InHead
    <3>3. torn = {} /\ outfd => /\ Ready("blank", Seen, out \o <<t>>)
                                /\ Ready("blank", Client(d, t), <<>>)
      BY <1>7, <3>1, <3>2
    <3>4. QED BY <1>6, <2>4, <3>3 DEF t, Phase
  <2>5. QED BY <1>9, <2>3, <2>4 DEF AddEncoding
<1>10. CASE EndHeaders
  <2> DEFINE next == IF Silence THEN "flush" ELSE "response"
             t == Token("blank", 0)
  <2>1. phase = "blank" /\ Chunk(<<t>>, FALSE, next) /\ UNCHANGED out
    BY <1>10 DEF EndHeaders, Silence
  <2>2. torn = {} /\ outfd => InHead(d, Silence, keep)
    BY <1>4, <1>7, <2>1 DEF d
  <2>3. t \in Any /\ t.rq = n /\ t.kind = "blank" /\ After(Client(d, t), <<>>) = Client(d, t)
    BY <1>5
  <2> HIDE DEF t
  <2>4. torn = {} /\ outfd =>
           /\ Client(d, t).rq = n /\ Client(d, t).silent = Silence /\ Client(d, t).chunked = keep
           /\ Silence => Client(d, t).at = "over"
           /\ ~Silence /\ keep => Client(d, t).at = "chunks"
           /\ ~Silence /\ ~keep => Client(d, t).at = "stream"
    <3>1. torn = {} /\ outfd => d.at = "head" /\ d.rq = n /\ d.silent = Silence /\ d.chunked = keep
      BY <2>2 DEF InHead
    <3>2. d.at = "head" /\ t.rq = d.rq /\ t.kind = "blank" =>
             /\ Client(d, t).rq = d.rq /\ Client(d, t).silent = d.silent
             /\ Client(d, t).chunked = d.chunked
             /\ d.silent => Client(d, t).at = "over"
             /\ ~d.silent /\ d.chunked => Client(d, t).at = "chunks"
             /\ ~d.silent /\ ~d.chunked => Client(d, t).at = "stream"
      BY <1>3, <2>3, HeadGoesOn
    <3>3. QED BY <2>3, <3>1, <3>2
  <2>5. Silence \in BOOLEAN
    BY DEF Silence
  <2>6. torn = {} /\ outfd => Ready(next, Client(d, t), <<>>)
    <3>1. Stamps(<<>>, n, BodyKinds)
      BY DEF Stamps
    <3> DEFINE e == Client(d, t)
    <3>2. After(e, <<>>) = e
      BY <2>3
    <3> HIDE DEF e
    <3>3. CASE Silence
      <4>1. next = "flush"
        BY <3>3
      <4>2. torn = {} /\ outfd => e.rq = n /\ e.at = "over" /\ e.silent = TRUE /\ e.chunked = keep
        BY <2>4, <2>5, <3>3 DEF e
      <4>3. torn = {} /\ outfd => Ready("flush", e, <<>>)
        BY <3>3, <4>2 DEF Ready, ReadyHead, ReadyBody, ReadyError, Over
      <4>4. QED BY <4>1, <4>3 DEF e
    <3>4. CASE ~Silence
      <4>1. next = "response"
        BY <3>4
      <4>2. torn = {} /\ outfd => /\ e.rq = n /\ e.chunked = keep
                                  /\ keep => e.at = "chunks"
                                  /\ ~keep => e.at = "stream"
        BY <2>4, <3>4 DEF e
      <4>3. torn = {} /\ outfd => Ready("response", e, <<>>)
        BY <1>1, <3>1, <3>2, <3>4, <4>2
           DEF Ready, ReadyHead, ReadyBody, ReadyError, InChunks, InBody
      <4>4. QED BY <4>1, <4>3 DEF e
    <3>5. QED BY <3>3, <3>4
  <2>7. next \in Phase \ {"writev", "ended"}
    BY DEF Phase
  <2> HIDE DEF next
  <2>8. QED BY <1>6, <2>1, <2>6, <2>7 DEF t
<1>11. CASE ErrorHeaders
  <2> DEFINE kind == IF rq.version = 11 THEN "connection" ELSE "header"
             t == Token(kind, 0)
  <2>0. kind \in {"header", "connection"}
    OBVIOUS
  <2>1. phase = "errhead" /\ Output(<<t>>, FALSE, "errblank")
    BY <1>11 DEF ErrorHeaders
  <2> HIDE DEF kind
  <2>2. torn = {} /\ outfd => InHead(d, FALSE, FALSE)
    BY <1>4, <1>7, <2>1 DEF d
  <2>3. t \in Any /\ t.rq = n /\ t.kind = kind
        /\ After(Seen, out \o <<t>>) = Client(d, t) /\ After(Client(d, t), <<>>) = Client(d, t)
    BY <1>5, <2>0
  <2> HIDE DEF t
  <2>4. torn = {} /\ outfd => InHead(Client(d, t), FALSE, FALSE)
    BY <1>3, <2>0, <2>2, <2>3, HeadGoesOn DEF InHead
  <2>5. torn = {} /\ outfd => /\ Ready("errblank", Seen, out \o <<t>>)
                              /\ Ready("errblank", Client(d, t), <<>>)
    BY <1>7, <2>3, <2>4
  <2>6. QED BY <1>6, <2>0, <2>1, <2>5 DEF t, Phase
<1>12. CASE ErrorEndHeaders
  <2> DEFINE t == Token("blank", 0)
  <2>1. phase = "errblank" /\ Chunk(<<t>>, FALSE, "errbody") /\ UNCHANGED out
    BY <1>12 DEF ErrorEndHeaders
  <2>2. torn = {} /\ outfd => InHead(d, FALSE, FALSE)
    BY <1>4, <1>7, <2>1 DEF d
  <2>3. t \in Any /\ t.rq = n /\ t.kind = "blank" /\ After(Client(d, t), <<>>) = Client(d, t)
    BY <1>5
  <2> HIDE DEF t
  <2>4. torn = {} /\ outfd => InBody(Client(d, t))
    BY <1>3, <2>2, <2>3, HeadGoesOn DEF InHead, InBody
  <2>5. torn = {} /\ outfd => Ready("errbody", Client(d, t), <<>>)
    BY <2>3, <2>4 DEF Ready, ReadyHead, ReadyBody, ReadyError
  <2>6. QED BY <1>6, <2>1, <2>5 DEF t, Phase
<1>13. QED BY <1>8, <1>9, <1>10, <1>11, <1>12

LEMMA StampsConcat ==
    ASSUME NEW S, NEW s \in Seq(S), NEW t \in Seq(S), NEW k, NEW kinds,
           Stamps(s, k, kinds), Stamps(t, k, kinds)
    PROVE  Stamps(s \o t, k, kinds)
<1> DEFINE u == s \o t
<1>1. /\ Len(u) = Len(s) + Len(t) /\ Len(s) \in Nat /\ Len(t) \in Nat
      /\ \A i \in 1 .. Len(s) : u[i] = s[i]
      /\ \A i \in 1 .. Len(t) : u[Len(s) + i] = t[i]
  BY Concat
<1> HIDE DEF u
<1>2. ASSUME NEW i \in 1 .. Len(u) PROVE u[i].rq = k /\ u[i].kind \in kinds
  <2>1. CASE i <= Len(s)
    BY <1>1, <2>1 DEF Stamps
  <2>2. CASE i > Len(s)
    <3>1. i - Len(s) \in 1 .. Len(t) /\ Len(s) + (i - Len(s)) = i
      BY <1>1, <2>2
    <3>2. u[i] = t[i - Len(s)]
      BY <1>1, <3>1
    <3>3. QED BY <3>1, <3>2 DEF Stamps
  <2>3. QED BY <1>1, <2>1, <2>2
<1>3. QED BY <1>2 DEF Stamps, u

\* Pieces of the body after those in the ring.
LEMMA BodyGoesOn ==
    ASSUME Types, n > 0, NEW tokens \in Seq(Stamped(n)), Stamps(tokens, n, BodyKinds)
    PROVE  /\ InChunks(Seen) /\ Stamps(out, n, BodyKinds) =>
                 /\ Stamps(out \o tokens, n, BodyKinds)
                 /\ InChunks(After(Seen, Frame(out \o tokens, TRUE)))
           /\ InBody(After(Seen, out)) =>
                 InBody(After(Seen, out \o tokens))
<1> DEFINE more == out \o tokens
           T == Stamped(n)
<1>1. Seen \in Clients /\ out \in Seq(T) /\ tokens \in Seq(T) /\ out \in Seq(Any)
      /\ \A s : s \in Seq(T) => s \in Seq(Any)
  BY SeenIs DEF Types
<1>2. tokens \in Seq(Any)
  BY <1>1
<1>3. more \in Seq(T) /\ Len(more) \in Nat
  <2> HIDE DEF T
  <2>1. more \in Seq(T)
    BY <1>1, ConcatProperties
  <2> HIDE DEF more
  <2>2. QED BY <2>1
<1>4. more \in Seq(Any)
  BY <1>1, <1>3
<1>5. ASSUME InChunks(Seen), Stamps(out, n, BodyKinds)
      PROVE  Stamps(more, n, BodyKinds) /\ InChunks(After(Seen, Frame(more, TRUE)))
  <2>1. Stamps(more, n, BodyKinds)
    BY <1>1, <1>5, StampsConcat
  <2> DEFINE size == Token("size", Len(more))
             nl == Token("nl", 0)
  <2>2. /\ size \in Any /\ size.kind = "size" /\ size.value = Len(more) /\ size.rq = n
        /\ nl \in Any /\ nl.kind = "nl" /\ nl.rq = n
    <3>1. "size" \in Kinds /\ "nl" \in Kinds /\ 0 \in Int /\ Len(more) \in Int
      BY <1>3 DEF Kinds
    <3>2. <<size>> \in Seq(T) /\ <<nl>> \in Seq(T)
      BY <3>1, TokenIs
    <3>3. <<size>> \in Seq(Any) /\ <<nl>> \in Seq(Any)
      BY <1>1, <3>2
    <3>4. size \in Any /\ nl \in Any
      BY <3>3
    <3>5. QED BY <3>4 DEF Token
  <2>3. Frame(more, TRUE) = (<<size>> \o more) \o <<nl>>
    BY DEF Frame
  <2> HIDE DEF more, size, nl
  <2> DEFINE d == After(Seen, (<<size>> \o more) \o <<nl>>)
  <2>4. d.at = "chunks" /\ d.rq = n
    <3>1. Seen.at = "chunks" /\ Seen.rq = n
      BY <1>5 DEF InChunks
    <3>2. QED BY <1>1, <1>4, <2>1, <2>2, <3>1, AfterChunk
  <2> HIDE DEF d
  <2>5. InChunks(d)
    BY <2>4 DEF InChunks
  <2>6. QED BY <2>1, <2>3, <2>5 DEF d
<1>6. ASSUME InBody(After(Seen, out)) PROVE InBody(After(Seen, more))
  <2> DEFINE d == After(Seen, out)
  <2>1. d \in Clients
    BY <1>1, AfterTypes
  <2>2. After(Seen, more) = After(d, tokens)
    BY <1>1, <1>2, AfterBoth
  <2> HIDE DEF d
  <2>3. d.at = "stream" /\ d.rq = n
    BY <1>6 DEF InBody, d
  <2>4. After(d, tokens) = d
    BY <1>2, <2>1, <2>3, AfterSame
  <2>5. QED BY <1>6, <2>2, <2>4 DEF d
<1>7. QED BY <1>5, <1>6

\* The body: what the application writes and flushes, the standard body, and
\* what is left in the ring.
LEMMA FramedBody ==
    ASSUME Inv, Framing, Types',
           \/ AppFlush \/ Flush \/ ErrorBody \/ ErrorFlush
           \/ \E k \in 1 .. 2 : AppWrite(k)
           \/ \E failed \in BOOLEAN : AppResponseDone(failed)
    PROVE  Framing'
<1>1. Types /\ n > 0 /\ n \in Nat /\ phase \notin {"writev", "ended"} /\ Place = phase
      /\ UNCHANGED <<asked, status, keep, headers, outfd, wire, torn>>
      /\ keep \in BOOLEAN /\ wrote \in Nat
  <2>1. phase \in {"response", "flush", "errbody", "errflush"}
        /\ UNCHANGED <<asked, status, keep, headers, outfd, wire, torn>>
    BY DEF AppFlush, Flush, ErrorBody, ErrorFlush, AppWrite, AppResponseDone, request, history
  <2>2. Types /\ n > 0 /\ Place = phase
    BY <2>1 DEF Inv, Agree, Place
  <2>3. wrote \in Nat /\ keep \in BOOLEAN /\ n \in Nat
    BY <2>2, HttpdAssumption DEF Types, n
  <2>4. QED BY <2>1, <2>2, <2>3
<1>2. Seen \in Clients /\ out \in Seq(Any) /\ out \in Seq(Stamped(n))
  BY <1>1, SeenIs DEF Types
<1>3. torn = {} /\ outfd => Ready(phase, Seen, out) /\ Seen.at # "bad"
  <2>1. After(Seen, Pending) = Seen /\ Ring = out
    BY <1>1, AfterNone DEF Pending, Ring
  <2>2. QED BY <1>1, <2>1 DEF Framing
<1>4. ASSUME NEW tokens \in Seq(Stamped(n)), NEW chunked \in BOOLEAN,
             NEW next \in Phase \ {"writev", "ended"},
             \/ Output(tokens, chunked, next)
             \/ Chunk(tokens, chunked, next) /\ UNCHANGED out,
             torn = {} /\ outfd /\ (~Chunk(tokens, chunked, next) \/ out \o tokens = <<>>) =>
                Ready(next, Seen, out \o tokens),
             torn = {} /\ outfd /\ out \o tokens # <<>> =>
                Ready(next, After(Seen, Frame(out \o tokens, chunked)), <<>>)
      PROVE  Framing'
  BY <1>1, <1>4, FramingPuts
<1>5. \A c, s : /\ Ready("response", c, s) <=> /\ ~Silence
                                               /\ keep => InChunks(c) /\ Stamps(s, n, BodyKinds)
                                               /\ ~keep => InBody(After(c, s))
                /\ ~Silence =>
                      (Ready("flush", c, s) <=> /\ keep => InChunks(c) /\ Stamps(s, n, BodyKinds)
                                                /\ ~keep => InBody(After(c, s)))
                /\ Ready("errbody", c, s) <=> InBody(After(c, s))
                /\ Ready("errflush", c, s) <=> InBody(After(c, s))
                /\ Ready("closed", c, s) <=> Ended(c)
                /\ Ready("end", c, s) <=> /\ keep => InChunks(c) \/ (Over(c) /\ c.silent = TRUE)
                                          /\ ~keep => Ended(c)
  BY DEF Ready, ReadyHead, ReadyBody, ReadyError
<1>6. Stamps(<<>>, n, BodyKinds) /\ <<>> \in Seq(Stamped(n)) /\ out \o <<>> = out
      /\ \A c : After(c, <<>>) = c /\ (InBody(c) => Ended(c))
  BY <1>2, ConcatEmptySeq, AfterNone DEF Stamps, InBody, Ended
\* Pieces the application writes, or none.
<1>7. ASSUME NEW tokens \in Seq(Stamped(n)), Stamps(tokens, n, BodyKinds), phase = "response",
             \/ Output(tokens, keep, "response")
             \/ Chunk(tokens, keep, "response") /\ UNCHANGED out
      PROVE  Framing'
  <2> DEFINE more == out \o tokens
             c == After(Seen, Frame(more, keep))
  <2>1. torn = {} /\ outfd =>
           /\ ~Silence
           /\ keep => InChunks(Seen) /\ Stamps(out, n, BodyKinds)
           /\ ~keep => InBody(After(Seen, out))
    BY <1>3, <1>5, <1>7
  <2>2. torn = {} /\ outfd =>
           /\ keep => Stamps(more, n, BodyKinds) /\ InChunks(After(Seen, Frame(more, TRUE)))
           /\ ~keep => InBody(After(Seen, more))
    BY <1>1, <1>7, <2>1, BodyGoesOn
  <2>3. ~keep => Frame(more, keep) = more
    BY DEF Frame
  <2>4. keep => keep = TRUE
    BY <1>1
  <2>5. "response" \in Phase \ {"writev", "ended"}
    BY DEF Phase
  <2> HIDE DEF more
  <2>6. torn = {} /\ outfd => (keep => InChunks(c)) /\ (~keep => InBody(c))
    BY <2>2, <2>3, <2>4
  <2>7. torn = {} /\ outfd => Ready("response", Seen, more)
    BY <1>5, <2>1, <2>2
  <2> HIDE DEF c
  <2>8. torn = {} /\ outfd => Ready("response", c, <<>>)
    BY <1>5, <1>6, <2>1, <2>6
  <2>9. QED BY <1>1, <1>4, <1>7, <2>5, <2>7, <2>8 DEF more, c
<1>8. CASE AppFlush
  BY <1>6, <1>7, <1>8 DEF AppFlush
<1>9. ASSUME NEW k \in 1 .. 2, AppWrite(k) PROVE Framing'
  <2> DEFINE ts == Tokens("data", wrote + 1, wrote + k)
  <2>1. ts \in Seq(Stamped(n))
    <3>1. wrote + 1 \in Nat /\ wrote + k \in Nat
      BY <1>1
    <3>2. QED BY <1>1, <3>1, TokensAre
  <2>2. \A i \in DOMAIN ts : ts[i].rq = n /\ ts[i].kind = "data"
    BY DEF Tokens, Token
  <2>3. phase = "response" /\ Output(ts, keep, "response")
    BY <1>9 DEF AppWrite
  <2> HIDE DEF ts
  <2>4. DOMAIN ts = 1 .. Len(ts)
    BY <2>1
  <2>5. Stamps(ts, n, BodyKinds)
    BY <2>2, <2>4 DEF Stamps, BodyKinds
  <2>6. QED BY <1>7, <2>1, <2>3, <2>5
\* The standard body.
<1>10. ASSUME NEW p \in {"response", "errbody"}, NEW q \in {"flush", "errflush"},
              phase = p, p = "response" <=> q = "flush", phase' = q,
              out' = out \/ out' = Append(out, Token("standard", 0))
       PROVE  Framing'
  <2> DEFINE t == Token("standard", 0)
             ts == <<t>>
  <2>1. ts \in Seq(Stamped(n)) /\ Stamps(ts, n, BodyKinds) /\ Append(out, t) = out \o ts
    <3>1. "standard" \in Kinds /\ 0 \in Int
      BY DEF Kinds
    <3>2. t \in Stamped(n) /\ ts \in Seq(Stamped(n))
      BY <1>1, <3>1, TokenIs
    <3>3. t.rq = n /\ t.kind \in BodyKinds
      BY DEF Token, BodyKinds
    <3> HIDE DEF t
    <3>4. Append(out, t) = out \o ts
      BY <1>2, <3>2, AppendIsConcat
    <3>5. Stamps(ts, n, BodyKinds)
      BY <3>3 DEF Stamps
    <3>6. QED BY <3>2, <3>4, <3>5
  <2> HIDE DEF t, ts
  <2>2. /\ InChunks(Seen) /\ Stamps(out, n, BodyKinds) => Stamps(out', n, BodyKinds)
        /\ InBody(After(Seen, out)) => InBody(After(Seen, out'))
    <3>1. CASE out' = out
      BY <3>1
    <3>2. CASE out' = out \o ts
      BY <1>1, <2>1, <3>2, BodyGoesOn
    <3>3. QED BY <1>10, <2>1, <3>1, <3>2 DEF t
  <2>3. torn = {} /\ outfd => Ready(q, Seen, out')
    <3>1. CASE p = "response" /\ q = "flush"
      BY <1>3, <1>5, <1>10, <2>2, <3>1
    <3>2. CASE p = "errbody" /\ q = "errflush"
      BY <1>3, <1>5, <1>10, <2>2, <3>2
    <3>3. QED BY <1>10, <3>1, <3>2
  <2>4. Seen' = Seen
    BY <1>1 DEF Seen
  <2>5. torn' = {} => Seen'.at # "bad"
    BY <1>1, <2>4 DEF Framing
  <2>6. phase' # "writev"
    BY <1>10
  <2>7. QED BY <1>1, <1>10, <2>3, <2>4, <2>5, <2>6, FramingMoves
<1>11. CASE ErrorBody \/ \E failed \in BOOLEAN : AppResponseDone(failed)
  BY <1>10, <1>11 DEF ErrorBody, AppResponseDone
<1>12. CASE Flush
  <2>1. phase = "flush" /\ Chunk(<<>>, keep, "end") /\ UNCHANGED out
    BY <1>12 DEF Flush
  <2> DEFINE c == After(Seen, Frame(out, keep))
  <2>2. torn = {} /\ outfd =>
           /\ out = <<>> => Ready("end", Seen, out)
           /\ out # <<>> => Ready("end", c, <<>>)
    <3> SUFFICES ASSUME torn = {}, outfd
                 PROVE  /\ out = <<>> => Ready("end", Seen, out)
                        /\ out # <<>> => Ready("end", c, <<>>)
      OBVIOUS
    <3>1. Ready("flush", Seen, out)
      BY <1>3, <2>1
    <3>2. CASE Silence
      <4>1. out = <<>> /\ Over(Seen) /\ Seen.silent = TRUE /\ (Seen.chunked = TRUE => keep)
        BY <3>1, <3>2 DEF Ready, ReadyBody
      <4>2. ~keep => Ended(Seen)
        BY <1>2, <4>1 DEF Over, Ended, Clients
      <4>3. QED BY <1>5, <4>1, <4>2
    <3>3. CASE ~Silence /\ keep
      <4>1. InChunks(Seen) /\ Stamps(out, n, BodyKinds)
        BY <1>5, <3>1, <3>3
      <4>2. InChunks(After(Seen, Frame(out \o <<>>, TRUE)))
        BY <1>1, <1>6, <4>1, BodyGoesOn
      <4>3. InChunks(c)
        BY <1>1, <1>6, <3>3, <4>2
      <4> HIDE DEF c
      <4>4. QED BY <1>5, <3>3, <4>1, <4>3
    <3>4. CASE ~Silence /\ ~keep
      <4>1. InBody(After(Seen, out))
        BY <1>5, <3>1, <3>4
      <4>2. c = After(Seen, out)
        BY <3>4 DEF Frame
      <4>3. out = <<>> => Ended(Seen)
        BY <1>6, <4>1
      <4>4. Ended(c)
        BY <1>6, <4>1, <4>2
      <4> HIDE DEF c
      <4>5. QED BY <1>5, <3>4, <4>3, <4>4
    <3>5. QED BY <3>2, <3>3, <3>4
  <2>3. "end" \in Phase \ {"writev", "ended"}
    BY DEF Phase
  <2> HIDE DEF c
  <2>4. QED BY <1>1, <1>4, <1>6, <2>1, <2>2, <2>3 DEF c
<1>13. CASE ErrorFlush
  <2>1. phase = "errflush" /\ Chunk(<<>>, FALSE, "closed") /\ UNCHANGED out
    BY <1>13 DEF ErrorFlush
  <2>2. torn = {} /\ outfd => InBody(After(Seen, out))
    BY <1>3, <1>5, <2>1
  <2>3. Frame(out, FALSE) = out
    BY DEF Frame
  <2>4. torn = {} /\ outfd =>
           /\ out = <<>> => Ready("closed", Seen, out)
           /\ out # <<>> => Ready("closed", After(Seen, Frame(out, FALSE)), <<>>)
    BY <1>5, <1>6, <2>2, <2>3
  <2>5. "closed" \in Phase \ {"writev", "ended"}
    BY DEF Phase
  <2>6. QED BY <1>4, <1>6, <2>1, <2>4, <2>5
<1>14. QED BY <1>8, <1>9, <1>11, <1>12, <1>13

\* The client at the beginning of a response: an interim one, or a status line.
LEMMA ResponseBegins ==
    ASSUME NEW c \in Clients, n \in Nat, NEW t \in Any, t.rq = n, t.kind \in {"continue", "status"},
           Before(c) \/ (c.at = "interim" /\ c.rq = n /\ t.kind = "status")
    PROVE  /\ Client(c, t) \in Clients
           /\ Client(c, t).rq = n /\ Client(c, t).chunked = FALSE
           /\ t.kind = "continue" => Client(c, t).at = "interim"
           /\ t.kind = "status" => Client(c, t).at = "head"
           /\ Client(c, t).silent = Silent(t)
<1>1. c.rq \in Nat
  BY DEF Clients
<1>2. \/ c.at = "over" /\ t.rq = c.rq + 1
      \/ c.at = "interim" /\ t.rq = c.rq /\ t.kind = "status"
  BY <1>1 DEF Before
<1>3. Client(c, t) = NewResponse(t)
  BY <1>2, ClientBegins
<1>4. Client(c, t) \in Clients
  BY ClientTypes
<1>5. /\ NewResponse(t).rq = n /\ NewResponse(t).chunked = FALSE
      /\ t.kind = "continue" => NewResponse(t).at = "interim"
      /\ t.kind = "status" => NewResponse(t).at = "head"
      /\ NewResponse(t).silent = Silent(t)
  BY DEF NewResponse
<1>6. QED BY <1>3, <1>4, <1>5

\* The steps that write a line at most: from the application's headers to the
\* status line, and from the last chunk to the next request.
LEMMA FramedLines ==
    ASSUME MaxHeaders < OutCap, Inv, Framing, Types',
           \/ AppHeader \/ WriteStatus \/ EndBody \/ Return \/ ErrorStatus
           \/ \E s \in {100, 200, 204} : AppHeaderDone(s)
           \/ \E s \in {200, 204} : AppPayloadDone(s)
    PROVE  Framing'
<1>1. Types /\ n > 0 /\ n \in Nat /\ phase \notin {"writev", "ended"} /\ Place = phase
      /\ keep \in BOOLEAN /\ headers \in 0 .. MaxHeaders /\ status \in 0 .. 599
      /\ UNCHANGED <<asked, keep, torn>> /\ n' = n
  <2>1. phase \in {"header", "payload", "status", "end", "discard", "errstatus"}
        /\ UNCHANGED <<asked, keep, torn>>
    BY DEF AppHeader, WriteStatus, EndBody, Return, ErrorStatus, AppHeaderDone, AppPayloadDone,
           request, history
  <2>2. Types /\ n > 0 /\ Place = phase
    BY <2>1 DEF Inv, Agree, Place
  <2>3. n \in Nat /\ keep \in BOOLEAN /\ headers \in 0 .. MaxHeaders /\ status \in 0 .. 599
    BY <2>2 DEF Types, n
  <2>4. n' = n
    BY <2>1 DEF n
  <2>5. QED BY <2>1, <2>2, <2>3, <2>4
<1>2. Seen \in Clients /\ out \in Seq(Any) /\ out \in Seq(Stamped(n)) /\ wire \in Seq(Any)
      /\ Seen = After(ClientStart, wire)
  BY <1>1, SeenIs DEF Types, Seen, After
<1>3. torn = {} =>
         /\ Seen.at # "bad"
         /\ outfd => Ready(phase, Seen, out)
  <2>1. After(Seen, Pending) = Seen /\ Ring = out
    BY <1>1, AfterNone DEF Pending, Ring
  <2>2. QED BY <1>1, <2>1 DEF Framing
\* A line on the wire, or none and the descriptor is closed.
<1>4. ASSUME NEW kind \in Kinds, NEW value \in Int, WriteLine(Token(kind, value))
      PROVE  \/ outfd /\ outfd' = outfd /\ wire' # wire /\ Seen' = Client(Seen, Token(kind, value))
             \/ outfd' = FALSE /\ Seen' = Seen
  <2> DEFINE t == Token(kind, value)
  <2>1. <<t>> \in Seq(Stamped(n))
    BY <1>1, TokenIs
  <2>2. <<t>> \in Seq(Any)
    BY <1>1, <2>1, SeenIs
  <2>3. t \in Any
    BY <2>2
  <2>4. CASE outfd /\ wire' = Append(wire, t) /\ UNCHANGED outfd
    <3>1. Append(wire, t) = wire \o <<t>>
      BY <1>2, <2>3, AppendIsConcat
    <3>2. After(ClientStart, wire \o <<t>>) = Client(Seen, t)
      BY <1>2, <2>3, AfterLast
    <3>3. Seen' = After(ClientStart, wire')
      BY DEF Seen, After
    <3>4. wire' # wire
      <4>1. Len(Append(wire, t)) = Len(wire) + 1 /\ Len(wire) \in Nat
        BY <1>2, <2>3
      <4>2. QED BY <2>4, <4>1
    <3>5. QED BY <2>4, <3>1, <3>2, <3>3, <3>4
  <2>5. CASE outfd' = FALSE /\ UNCHANGED wire
    BY <2>5 DEF Seen
  <2>6. QED BY <1>4, <2>4, <2>5 DEF WriteLine
<1>5. wire' = wire => Seen' = Seen
  BY DEF Seen
<1>16. ASSUME NEW kind \in Kinds, NEW value \in Int
      PROVE  /\ Token(kind, value) \in Any /\ Token(kind, value).rq = n
             /\ Token(kind, value).kind = kind
  <2>1. <<Token(kind, value)>> \in Seq(Stamped(n))
    BY <1>1, TokenIs
  <2>2. <<Token(kind, value)>> \in Seq(Any)
    BY <1>1, <2>1, SeenIs
  <2>3. Token(kind, value) \in Any
    BY <2>2
  <2>4. QED BY <2>3 DEF Token
\* A header of the application stays in the ring.
<1>6. CASE AppHeader
  <2> DEFINE t == Token("header", headers + 1)
             more == out \o <<t>>
  <2>1. /\ phase \in {"header", "payload"} /\ headers' = headers + 1
        /\ UNCHANGED <<asked, status, keep, outfd, wire, torn>>
        /\ Output(<<t>>, FALSE, phase)
    BY <1>6 DEF AppHeader, request
  <2>2. <<t>> \in Seq(Stamped(n)) /\ Stamps(<<t>>, n, {"header"}) /\ Len(<<t>>) = 1
    <3>1. "header" \in Kinds /\ headers + 1 \in Int
      BY <1>1, HttpdAssumption DEF Kinds
    <3>2. <<t>> \in Seq(Stamped(n))
      BY <1>1, <3>1, TokenIs
    <3>3. t.rq = n /\ t.kind = "header"
      BY DEF Token
    <3> HIDE DEF t
    <3>4. QED BY <3>2, <3>3 DEF Stamps
  <2> HIDE DEF t
  <2>3. more \in Seq(Stamped(n)) /\ Len(more) = Len(out) + 1 /\ Len(out) \in Nat
    BY <1>2, <2>2, Concat
  <2>4. SUFFICES ASSUME torn = {}, outfd PROVE Framing'
    <3>1. ASSUME ~(torn = {} /\ outfd) PROVE Framing'
      <4>1. phase' \in {"writev", "header", "payload"} /\ (phase' = "writev" => after' = phase)
        BY <2>1 DEF Output, Chunk
      <4>2. torn' = {} => torn = {} /\ Seen'.at # "bad" /\ ~outfd'
        BY <1>3, <1>5, <2>1, <3>1
      <4>3. QED BY <2>1, <4>1, <4>2 DEF Framing
    <3>2. QED BY <3>1
  <2>5. Ready(phase, Seen, out)
    BY <1>3, <2>4
  <2>6. Len(out) <= 1 + headers /\ Stamps(out, n, {"header"})
        /\ (phase = "header" => Before(Seen))
        /\ (phase = "payload" => Before(Seen) \/ (Seen.at = "interim" /\ Seen.rq = n))
    BY <2>1, <2>5 DEF Ready, ReadyHead
  <2>7. Stamps(more, n, {"header"})
    BY <1>2, <2>2, <2>6, StampsConcat
  <2>8. phase' = phase /\ out' = more /\ Len(more) <= 1 + headers'
    <3>1. headers < MaxHeaders
      BY <1>6 DEF AppHeader
    <3>2. ~(Len(out) + 1 > OutCap)
      BY <1>1, <2>3, <2>6, <3>1, HttpdAssumption
    <3>3. ~(Len(out) + Len(<<t>>) > OutCap)
      BY <2>2, <3>2
    <3>4. phase' = phase /\ out' = more
      BY <2>1, <3>3 DEF Output
    <3>5. QED BY <1>1, <2>1, <2>3, <2>6, <3>4
  <2> HIDE DEF more
  <2>9. ASSUME NEW p, NEW c, NEW s, p \in {"header", "payload"}, phase = p,
               Seen = c, more = s
        PROVE  Ready(p, c, s)'
    <3>1. p = "header" => Before(c)
      BY <2>6, <2>9
    <3>2. p = "payload" => Before(c) \/ (c.at = "interim" /\ c.rq = n)
      BY <2>6, <2>9
    <3>3. Before(c)' <=> Before(c)
      BY <1>1 DEF Before
    <3>4. Len(s) <= 1 + headers' /\ Stamps(s, n, {"header"})'
      BY <1>1, <2>7, <2>8, <2>9 DEF Stamps
    <3>5. ReadyHead(p, c, s)'
      BY <1>1, <2>9, <3>1, <3>2, <3>3, <3>4 DEF ReadyHead
    <3>6. ReadyBody(p, c, s)' /\ ReadyError(p, c, s)'
      BY <2>9 DEF ReadyBody, ReadyError
    <3>7. QED BY <3>5, <3>6 DEF Ready
  <2>10. Ready(phase, Seen, out)'
    <3>1. Seen' = Seen /\ phase' = phase /\ out' = more
      BY <1>5, <2>1, <2>8
    <3>2. QED BY <2>1, <2>9, <3>1
  <2>11. Seen'.at # "bad" /\ phase' # "writev"
    BY <1>3, <1>5, <2>1, <2>4, <2>8
  <2>12. QED BY <2>10, <2>11, FramingIs
\* The final status, after an interim one or not.
<1>7. ASSUME NEW s \in {100, 200, 204}, AppHeaderDone(s) \/ (s # 100 /\ AppPayloadDone(s))
      PROVE  Framing'
  <2> DEFINE next == IF s = 100 THEN "payload" ELSE "status"
             t == Token("continue", 0)
  <2>1. /\ phase \in {"header", "payload"} /\ phase' = next /\ status' = s
        /\ UNCHANGED <<asked, keep, out, headers, torn>>
        /\ \/ phase = "header" /\ s = 100 /\ WriteLine(t)
           \/ UNCHANGED <<outfd, wire>>
        /\ s = 100 => phase = "header"
    BY <1>7 DEF AppHeaderDone, AppPayloadDone, history
  <2>2. \/ phase = "header" /\ s = 100 /\ outfd /\ outfd' = outfd /\ Seen' = Client(Seen, t)
        \/ outfd' = FALSE /\ Seen' = Seen
        \/ outfd' = outfd /\ Seen' = Seen
    <3>1. "continue" \in Kinds /\ 0 \in Int
      BY DEF Kinds
    <3>2. QED BY <1>4, <1>5, <2>1, <3>1
  <2>3. SUFFICES ASSUME torn = {}, outfd'
                 PROVE  Seen'.at # "bad" /\ Ready(phase, Seen, out)'
    <3>1. phase' \notin {"writev", "ended"}
      BY <2>1
    <3>2. outfd' = FALSE /\ torn = {} => Seen'.at # "bad"
      <4>1. ~outfd' => Seen' = Seen
        BY <2>2
      <4>2. QED BY <1>3, <4>1
    <3>3. ASSUME ~(torn = {} /\ outfd') PROVE Framing'
      <4>1. outfd' \in BOOLEAN
        BY DEF Types
      <4>2. QED BY <1>1, <3>1, <3>2, <3>3, <4>1, FramingIs
    <3>4. QED BY <1>1, <3>1, <3>3, FramingIs
  <2>4. outfd /\ Ready(phase, Seen, out)
    BY <1>3, <2>1, <2>2, <2>3 DEF WriteLine
  <2>5. Len(out) <= 1 + headers /\ Stamps(out, n, {"header"})
        /\ (phase = "header" => Before(Seen))
        /\ (phase = "payload" => Before(Seen) \/ (Seen.at = "interim" /\ Seen.rq = n))
    BY <2>1, <2>4 DEF Ready, ReadyHead
  <2>6. Before(Seen') \/ (Seen'.at = "interim" /\ Seen'.rq = n)
    <3>1. CASE Seen' = Seen
      BY <2>1, <2>5, <3>1
    <3>2. CASE Before(Seen) /\ Seen' = Client(Seen, t)
      <4>1. t \in Any /\ t.rq = n /\ t.kind = "continue"
        BY <1>16 DEF Kinds
      <4> HIDE DEF t
      <4>2. Client(Seen, t).at = "interim" /\ Client(Seen, t).rq = n
        <5>1. Before(Seen) /\ Seen \in Clients /\ n \in Nat
          BY <1>1, <1>2, <3>2
        <5>2. QED BY <4>1, <5>1, ResponseBegins
      <4>3. QED BY <3>2, <4>2
    <3>3. QED BY <2>2, <2>3, <2>5, <3>1, <3>2
  <2>7. Seen'.at # "bad"
    BY <2>6 DEF Before
  <2>8. ASSUME NEW p, NEW c, NEW u, p = next, c = Seen', u = out PROVE Ready(p, c, u)'
    <3>1. Before(c) \/ (c.at = "interim" /\ c.rq = n)
      BY <2>6, <2>8
    <3>2. Before(c)' <=> Before(c)
      BY <1>1 DEF Before
    <3>3. Len(u) <= 1 + headers' /\ Stamps(u, n, {"header"})'
      BY <1>1, <2>1, <2>5, <2>8 DEF Stamps
    <3>4. p \in {"payload", "status"} /\ (p = "status" => status' \in {200, 204})
      BY <2>1, <2>8
    <3>5. ReadyHead(p, c, u)'
      BY <1>1, <3>1, <3>2, <3>3, <3>4 DEF ReadyHead
    <3>6. ReadyBody(p, c, u)' /\ ReadyError(p, c, u)'
      BY <3>4 DEF ReadyBody, ReadyError
    <3>7. QED BY <3>5, <3>6 DEF Ready
  <2> HIDE DEF next
  <2>9. QED BY <2>1, <2>7, <2>8
\* The status line; the last chunk; the return.
<1>8. ASSUME NEW p, NEW q, phase = p, phase' = q, q # "writev",
             UNCHANGED <<asked, status, keep, out, headers, torn>>,
             NEW kind \in Kinds, NEW value \in Int,
             WriteLine(Token(kind, value)) \/ UNCHANGED <<outfd, wire>>,
             torn = {} /\ outfd =>
                /\ wire' # wire => /\ Client(Seen, Token(kind, value)).at # "bad"
                                   /\ Ready(q, Client(Seen, Token(kind, value)), out)
                /\ UNCHANGED <<outfd, wire>> => Ready(q, Seen, out)
      PROVE  Framing'
  <2> DEFINE c == Client(Seen, Token(kind, value))
  <2>1. \/ outfd /\ outfd' = outfd /\ Seen' = c /\ wire' # wire
        \/ outfd' = FALSE /\ Seen' = Seen
        \/ UNCHANGED <<outfd, wire>> /\ Seen' = Seen
    <3>1. kind \in Kinds /\ value \in Int
      OBVIOUS
    <3>2. CASE WriteLine(Token(kind, value))
      BY <1>4, <3>1, <3>2
    <3>3. CASE UNCHANGED <<outfd, wire>>
      BY <1>5, <3>3
    <3>4. QED BY <1>8, <3>2, <3>3
  <2> HIDE DEF c
  <2>2. CASE outfd /\ outfd' = outfd /\ Seen' = c /\ wire' # wire
    <3>1. torn = {} => c.at # "bad" /\ Ready(q, c, out)
      BY <1>8, <2>2 DEF c
    <3>2. torn' = {} => Seen'.at # "bad" /\ (outfd' /\ q # "ended" => Ready(q, c, out))
      BY <1>8, <2>2, <3>1
    <3>3. QED BY <1>8, <2>2, <3>2, FramingMoves
  <2>3. CASE outfd' = FALSE /\ Seen' = Seen
    <3>1. torn' = {} => Seen'.at # "bad" /\ (outfd' /\ q # "ended" => Ready(q, Seen, out))
      BY <1>3, <1>8, <2>3
    <3>2. QED BY <1>8, <2>3, <3>1, FramingMoves
  <2>4. CASE UNCHANGED <<outfd, wire>> /\ Seen' = Seen
    <3>1. torn' = {} => Seen'.at # "bad" /\ (outfd' /\ q # "ended" => Ready(q, Seen, out))
      BY <1>3, <1>8, <2>4
    <3>2. QED BY <1>8, <2>4, <3>1, FramingMoves
  <2>5. QED BY <2>1, <2>2, <2>3, <2>4
<1>9. Append(wire, 0) # wire /\ \A x : Append(wire, x) # wire
  <2>1. \A x : Len(Append(wire, x)) = Len(wire) + 1 /\ Len(wire) \in Nat
    BY <1>2
  <2>2. QED BY <2>1
<1>10. CASE WriteStatus
  <2> DEFINE t == Token("status", status)
             d == Client(Seen, t)
  <2>1. phase = "status" /\ WriteLine(t) /\ phase' = "connection"
        /\ UNCHANGED <<asked, status, keep, out, headers, torn>>
    BY <1>10 DEF WriteStatus, request, history
  <2>2. torn = {} /\ outfd => /\ Stamps(out, n, {"header"}) /\ status \in {200, 204}
                              /\ Before(Seen) \/ (Seen.at = "interim" /\ Seen.rq = n)
    BY <1>3, <2>1 DEF Ready, ReadyHead
  <2>3. torn = {} /\ outfd => /\ d \in Clients /\ d.rq = n /\ d.chunked = FALSE
                              /\ d.at = "head" /\ d.silent = Silence
    <3>1. t \in Any /\ t.rq = n /\ t.kind = "status"
      BY <1>1, <1>16 DEF Kinds
    <3>2. status \in {200, 204} => Silent(t) = Silence
      BY DEF Silent, Silence, Token
    <3> HIDE DEF t
    <3>3. ASSUME torn = {}, outfd
          PROVE  d \in Clients /\ d.rq = n /\ d.chunked = FALSE /\ d.at = "head"
                 /\ d.silent = Silent(t)
      <4>1. Seen \in Clients /\ n \in Nat
            /\ (Before(Seen) \/ (Seen.at = "interim" /\ Seen.rq = n))
        BY <1>1, <1>2, <2>2, <3>3
      <4>2. QED BY <3>1, <4>1, ResponseBegins
    <3> HIDE DEF d
    <3>4. QED BY <2>2, <3>2, <3>3
  <2> HIDE DEF d
  <2>4. torn = {} /\ outfd => After(d, out) = d
    <3>1. Stamps(out, n, {"header"}) => Stamps(out, n, {"header", "connection"})
      BY DEF Stamps
    <3>2. QED BY <1>2, <2>2, <2>3, <3>1, AfterSame
  <2>5. torn = {} /\ outfd => d.at # "bad" /\ Ready("connection", d, out)
    BY <2>3, <2>4 DEF Ready, ReadyHead, ReadyBody, ReadyError, InHead
  <2>6. outfd \in BOOLEAN /\ "status" \in Kinds /\ status \in Int
    BY <1>1 DEF Types, Kinds
  <2>7. UNCHANGED <<outfd, wire>> => ~outfd
    BY <1>9, <2>1, <2>6 DEF WriteLine
  <2>8. QED BY <1>8, <2>1, <2>5, <2>6, <2>7 DEF d
<1>11. CASE ErrorStatus
  <2> DEFINE t == Token("status", status)
             d == Client(Seen, t)
  <2>1. phase = "errstatus" /\ WriteLine(t) /\ phase' = "errhead"
        /\ UNCHANGED <<asked, status, keep, out, headers, torn>>
    BY <1>11 DEF ErrorStatus, request, history
  <2>2. torn = {} /\ outfd => out = <<>> /\ status = 400 /\ Before(Seen)
    BY <1>3, <2>1 DEF Ready, ReadyError
  <2>3. torn = {} /\ outfd => /\ d \in Clients /\ d.rq = n /\ d.chunked = FALSE
                              /\ d.at = "head" /\ d.silent = FALSE
    <3>1. t \in Any /\ t.rq = n /\ t.kind = "status"
      BY <1>1, <1>16 DEF Kinds
    <3>2. status = 400 => Silent(t) = FALSE
      BY DEF Silent, Token
    <3> HIDE DEF t
    <3>3. ASSUME torn = {}, outfd
          PROVE  d \in Clients /\ d.rq = n /\ d.chunked = FALSE /\ d.at = "head"
                 /\ d.silent = Silent(t)
      <4>1. Seen \in Clients /\ n \in Nat
            /\ (Before(Seen) \/ (Seen.at = "interim" /\ Seen.rq = n))
        BY <1>1, <1>2, <2>2, <3>3
      <4>2. QED BY <3>1, <4>1, ResponseBegins
    <3> HIDE DEF d
    <3>4. QED BY <2>2, <3>2, <3>3
  <2> HIDE DEF d
  <2>4. torn = {} /\ outfd => d.at # "bad" /\ Ready("errhead", d, out)
    <3>1. torn = {} /\ outfd => After(d, out) = d
      BY <2>2, AfterNone
    <3>2. QED BY <2>3, <3>1 DEF Ready, ReadyHead, ReadyBody, ReadyError, InHead
  <2>5. outfd \in BOOLEAN /\ "status" \in Kinds /\ status \in Int
    BY <1>1 DEF Types, Kinds
  <2>6. UNCHANGED <<outfd, wire>> => ~outfd
    BY <1>9, <2>1, <2>5 DEF WriteLine
  <2>7. QED BY <1>8, <2>1, <2>4, <2>5, <2>6 DEF d
<1>12. CASE EndBody
  <2> DEFINE t == Token("last", 0)
             d == Client(Seen, t)
  <2>1. phase = "end" /\ phase' = "discard"
        /\ UNCHANGED <<asked, status, keep, out, headers, torn>>
        /\ (keep => WriteLine(t)) /\ (~keep => UNCHANGED <<outfd, wire>>)
    BY <1>12 DEF EndBody, request, history
  <2>2. torn = {} /\ outfd => /\ keep => InChunks(Seen) \/ (Over(Seen) /\ Seen.silent = TRUE)
                              /\ ~keep => Ended(Seen)
    BY <1>3, <2>1 DEF Ready, ReadyBody
  <2>3. t \in Any /\ t.rq = n /\ t.kind = "last"
    <3>1. "last" \in Kinds /\ 0 \in Int
      BY DEF Kinds
    <3>2. <<t>> \in Seq(Stamped(n))
      BY <1>1, <3>1, TokenIs
    <3>3. <<t>> \in Seq(Any)
      BY <1>1, <3>2, SeenIs
    <3>4. t \in Any
      BY <3>3
    <3>5. QED BY <3>4 DEF Token
  <2>4. ASSUME torn = {}, outfd, keep PROVE d.at = "over" /\ d.rq = n
    <3> HIDE DEF t
    <3>1. Seen.rq = n /\ (Seen.at = "chunks" \/ (Seen.at = "over" /\ Seen.silent = TRUE))
      BY <2>2, <2>4 DEF InChunks, Over
    <3>2. <<Seen.at, t.kind>> \in Expected(Seen)
      BY <2>3, <3>1 DEF Expected
    <3>3. d.rq = Seen.rq /\ d.at = PlaceAfter(Seen, t.kind)
      BY <1>2, <2>3, <3>1, <3>2, ClientExpects
    <3>4. QED BY <2>3, <3>1, <3>3 DEF PlaceAfter
  <2> HIDE DEF d
  <2>5. \A c : Ready("discard", c, out) <=> (keep => Over(c)) /\ (~keep => Ended(c))
    BY DEF Ready, ReadyHead, ReadyBody, ReadyError
  <2>6. torn = {} /\ outfd /\ keep => d.at # "bad" /\ Ready("discard", d, out)
    BY <2>4, <2>5 DEF Over
  <2>7. torn = {} /\ outfd /\ ~keep => Ready("discard", Seen, out)
    BY <2>2, <2>5
  <2>8. outfd \in BOOLEAN /\ "last" \in Kinds /\ 0 \in Int
    BY <1>1 DEF Types, Kinds
  <2>9. UNCHANGED <<outfd, wire>> /\ keep => ~outfd
    BY <1>9, <2>1, <2>8 DEF WriteLine
  <2>10. WriteLine(t) \/ UNCHANGED <<outfd, wire>>
    BY <2>1
  <2> HIDE DEF t
  <2>11. wire' # wire => keep
    BY <2>1
  <2>12. QED BY <1>8, <2>1, <2>6, <2>7, <2>8, <2>9, <2>10, <2>11 DEF d, t
<1>13. CASE Return
  <2> DEFINE q == IF keep THEN "idle" ELSE "closed"
  <2>1. phase = "discard" /\ phase' = q
        /\ UNCHANGED <<asked, status, keep, out, headers, torn, outfd, wire>>
    BY <1>13 DEF Return, request, history
  <2>2. torn = {} /\ outfd => (keep => Over(Seen)) /\ (~keep => Ended(Seen))
    BY <1>3, <2>1 DEF Ready, ReadyBody
  <2>3. torn = {} /\ outfd => Ready(q, Seen, out)
    BY <2>2 DEF Ready, ReadyHead, ReadyBody, ReadyError
  <2>4. "last" \in Kinds /\ 0 \in Int /\ q # "writev"
    BY DEF Kinds
  <2> HIDE DEF q
  <2>5. QED BY <1>8, <2>1, <2>3, <2>4
<1>14. ASSUME NEW s \in {200, 204}, AppPayloadDone(s) PROVE Framing'
  BY <1>7, <1>14
<1>15. QED BY <1>6, <1>7, <1>10, <1>11, <1>12, <1>13, <1>14

\* A request begins, or none.
LEMMA FramedReads ==
    ASSUME Inv, Framing, Types',
           ReadEnd \/ \E r \in Requests : ReadRequest(r) \/ ReadBad(r)
    PROVE  Framing'
<1>1. /\ Types /\ phase = "idle" /\ Place = phase /\ n \in Nat /\ outfd \in BOOLEAN
      /\ Seen \in Clients /\ UNCHANGED <<outfd, wire, torn>> /\ Seen' = Seen
  <2>1. phase = "idle" /\ UNCHANGED <<outfd, wire, torn>>
    BY DEF ReadEnd, ReadRequest, ReadBad, NextRequest, history
  <2>2. Types
    BY DEF Inv
  <2>3. QED BY <2>1, <2>2, SeenIs DEF Place, Types, Seen
<1>2. torn = {} => /\ Seen.at # "bad"
                   /\ outfd => Seen.at = "over" /\ Seen.rq = n
  <2>1. After(Seen, Pending) = Seen
    BY <1>1, AfterNone DEF Pending
  <2>2. torn = {} => Seen.at # "bad" /\ (outfd => Ready("idle", Seen, Ring))
    BY <1>1, <2>1 DEF Framing
  <2>3. QED BY <2>2 DEF Ready, ReadyBody, Over
<1>3. CASE ReadEnd
  <2>1. phase' = "ended"
    BY <1>3 DEF ReadEnd
  <2>2. QED BY <1>1, <1>2, <2>1, FramingIs
<1>4. ASSUME NEW r \in Requests, ReadRequest(r) \/ ReadBad(r) PROVE Framing'
  <2> DEFINE t == [kind |-> "header", value |-> 0, rq |-> n + 1, method |-> r.method]
  <2>1. /\ asked' = Append(asked, r) /\ headers' = 0
        /\ \/ phase' = "header" /\ out' = <<t>>
           \/ phase' = "errstatus" /\ out' = <<>> /\ status' = 400
    BY <1>4 DEF ReadRequest, ReadBad, NextRequest
  <2>2. n' = n + 1
    BY <1>1, <2>1 DEF n, Types
  <2>3. t.rq = n + 1 /\ t.kind = "header"
    OBVIOUS
  <2> HIDE DEF t
  <2>4. Len(<<t>>) = 1 /\ Stamps(<<t>>, n + 1, {"header"})
    BY <2>3 DEF Stamps
  <2>5. ASSUME NEW p, NEW c, NEW s, c.at = "over", c.rq = n,
               \/ p = "header" /\ s = <<t>>
               \/ p = "errstatus" /\ s = <<>> /\ status' = 400
        PROVE  Ready(p, c, s)'
    <3>1. Before(c)'
      BY <1>1, <2>2, <2>5 DEF Before
    <3>2. p = "header" => Len(s) <= 1 + headers' /\ Stamps(s, n, {"header"})'
      <4>1. p = "header" => Len(s) <= 1 + headers'
        <5>1. p = "header" => s = <<t>>
          BY <2>5
        <5>2. headers' = 0 /\ 1 <= 1 + 0
          BY <2>1
        <5>3. p = "header" => Len(s) = 1
          BY <2>4, <5>1
        <5>4. QED BY <5>2, <5>3
      <4>2. \A u : Stamps(u, n, {"header"})' <=> Stamps(u, n + 1, {"header"})
        BY <2>2 DEF Stamps
      <4>3. QED BY <2>4, <2>5, <4>1, <4>2
    <3>3. ReadyHead(p, c, s)'
      BY <2>5, <3>1, <3>2 DEF ReadyHead
    <3>4. ReadyBody(p, c, s)'
      BY <2>5 DEF ReadyBody
    <3>5. ReadyError(p, c, s)'
      BY <2>5, <3>1 DEF ReadyError
    <3>6. QED BY <3>3, <3>4, <3>5 DEF Ready
  <2>6. ASSUME torn = {}, outfd PROVE Ready(phase, Seen, out)'
    BY <1>1, <1>2, <2>1, <2>5, <2>6
  <2>7. QED BY <1>1, <1>2, <2>1, <2>6, FramingIs
<1>5. QED BY <1>3, <1>4

\* writev(): what is written and what is left are, for the client, what was to
\* be written.
LEMMA FramedWrites ==
    ASSUME Inv, Framing, Types',
           \/ \E r \in 1 .. OutCap + 4, noticed \in BOOLEAN : Writev(r, noticed)
           \/ WritevPrefix \/ WritevError
    PROVE  Framing'
<1>1. Types /\ phase = "writev" /\ after \in Phase \ {"writev", "ended"} /\ after' = after
      /\ UNCHANGED <<asked, status, keep, headers>> /\ Place = after /\ Ring = <<>>
      /\ Pending = Lines
  <2>1. phase = "writev" /\ after' = after /\ UNCHANGED <<asked, status, keep, headers>>
    BY DEF Writev, WritevPrefix, WritevError, request, history
  <2>2. Types /\ after \in Phase
    BY DEF Inv, Types
  <2>3. QED BY <2>1, <2>2 DEF Framing, Place, Ring, Pending
<1>2. CASE WritevPrefix \/ WritevError
  <2>1. phase' = after /\ (torn' # {} \/ (outfd' = FALSE /\ UNCHANGED <<wire, torn>>))
    BY <1>2 DEF WritevPrefix, WritevError, history
  <2>2. torn' = {} => Seen'.at # "bad" /\ outfd' = FALSE
    BY <2>1 DEF Seen, Framing
  <2>3. QED BY <1>1, <2>1, <2>2, FramingIs
<1>3. ASSUME NEW r \in 1 .. OutCap + 4, NEW noticed \in BOOLEAN, Writev(r, noticed)
      PROVE  Framing'
  <2> DEFINE T == Stamped(n)
  <2>1. phase' \in {"writev", after} /\ outfd = TRUE /\ outfd' = outfd
    BY <1>1, <1>3 DEF Writev, Types
  <2>2. SUFFICES ASSUME torn' = {} PROVE Framing'
    BY <1>1, <2>1 DEF Framing
  <2>3. r \in Int
    BY HttpdAssumption
  <2>4. /\ Lines \in Seq(T) /\ Lines' \in Seq(T) /\ torn = {}
        /\ \E sent \in Seq(T) :
              /\ wire' = wire \o sent
              /\ \/ phase' = "writev" /\ ~job.chunked /\ sent \o Lines' = Lines
                 \/ phase' = after /\ Body' = <<>> /\ out' = <<>> /\ sent = Lines
    BY <1>3, <2>2, <2>3, WritevLines
  <2>5. PICK sent \in Seq(T) :
              /\ wire' = wire \o sent
              /\ \/ phase' = "writev" /\ ~job.chunked /\ sent \o Lines' = Lines
                 \/ phase' = after /\ Body' = <<>> /\ out' = <<>> /\ sent = Lines
    BY <2>4
  <2>6. wire \in Seq(Any) /\ sent \in Seq(Any) /\ Lines \in Seq(Any) /\ Lines' \in Seq(Any)
        /\ Seen \in Clients
    BY <1>1, <2>4, <2>5, SeenIs
  <2> DEFINE c == After(Seen, Lines)
             d == After(Seen, sent)
  <2>7. Seen' = d
    <3>1. After(ClientStart, wire \o sent) = After(After(ClientStart, wire), sent)
      BY <2>6, AfterBoth
    <3>2. Seen = After(ClientStart, wire) /\ Seen' = After(ClientStart, wire')
      BY DEF Seen, After
    <3>3. QED BY <2>5, <3>1, <3>2, Zenon
  <2>8. Ready(after, c, <<>>) /\ c \in Clients /\ c.at # "bad"
    <3>1. Ready(after, c, <<>>)
      BY <1>1, <2>1, <2>4 DEF Framing
    <3>2. c \in Clients
      BY <2>6, AfterTypes
    <3> HIDE DEF c
    <3>3. <<>> \in Seq(Any)
      OBVIOUS
    <3>4. c.at # "bad"
      BY <1>1, <3>1, <3>2, <3>3, ReadyIsNotBad
    <3>5. QED BY <3>1, <3>2, <3>4
  <2>9. ASSUME NEW p, NEW e, Ready(p, e, <<>>) PROVE Ready(p, e, <<>>)'
    BY <1>1, <2>9, ReadySame
  <2>10. CASE phase' = "writev" /\ ~job.chunked /\ sent \o Lines' = Lines
    <3> DEFINE l == Lines'
    <3>0. l \in Seq(Any) /\ sent \o l = Lines
      BY <2>6, <2>10
    <3>1. Pending' = l /\ Ring' = <<>> /\ Place' = after
      BY <1>1, <2>10 DEF Pending, Ring, Place
    <3> HIDE DEF l
    <3>2. After(Seen, sent \o l) = After(d, l)
      BY <2>6, <3>0, AfterBoth
    <3>3. After(d, l) = c
      BY <3>0, <3>2
    <3> HIDE DEF c, d
    <3>4. After(Seen, Pending)' = c
      <4>1. After(Seen, Pending)' = After(Seen', Pending')
        OBVIOUS
      <4>2. QED BY <2>7, <3>1, <3>3, <4>1
    <3>5. Seen'.at # "bad"
      <4>1. d.at = "bad" => After(d, l).at = "bad"
        BY <3>0, AfterBad
      <4>2. QED BY <2>7, <2>8, <3>3, <4>1
    <3>6. Ready(Place, After(Seen, Pending), Ring)'
      BY <2>8, <2>9, <3>1, <3>4
    <3>7. QED BY <1>1, <3>5, <3>6 DEF Framing
  <2>11. CASE phase' = after /\ Body' = <<>> /\ out' = <<>> /\ sent = Lines
    <3>1. d = c
      BY <2>11
    <3> HIDE DEF c, d
    <3>2. Ready(phase, Seen, out)'
      BY <2>7, <2>8, <2>9, <2>11, <3>1
    <3>3. Seen'.at # "bad" /\ phase' # "writev"
      BY <1>1, <2>7, <2>8, <2>11, <3>1
    <3>4. QED BY <3>2, <3>3, FramingIs
  <2>12. QED BY <2>5, <2>10, <2>11
<1>4. QED BY <1>2, <1>3

---------------------------------------------------------------------------
(* The theorem                                                             *)

\* Whatever the application writes and flushes, however the ring overflows and
\* writev() is cut short, and wherever the descriptor fails: until a chunk is torn,
\* the stream is a prefix of one well framed response per request, in order, and
\* the client knows that it is over when minute_httpd_handle has returned.  The
\* headers have to fit in the ring, as they go out before the status line if not.
THEOREM FramedHolds == ASSUME MaxHeaders < OutCap PROVE Spec => []Framed
<1>1. Init => Framing
  <2> SUFFICES ASSUME Init PROVE Framing
    OBVIOUS
  <2>1. Seen = ClientStart
    <3>1. Seen = After(ClientStart, <<>>)
      BY DEF Init, Seen, After
    <3>2. QED BY <3>1, AfterNone
  <2>2. /\ Place = "idle" /\ Pending = <<>> /\ After(Seen, Pending) = ClientStart
        /\ n = 0 /\ phase # "writev"
    BY <2>1, AfterNone DEF Init, Place, Pending, n
  <2>3. Ready("idle", ClientStart, Ring)
    BY <2>2 DEF Ready, ReadyHead, ReadyBody, ReadyError, Over, ClientStart
  <2>4. QED BY <2>1, <2>2, <2>3 DEF Framing, ClientStart
<1>2. Inv /\ Inv' /\ Framing /\ [Next]_vars => Framing'
  <2> SUFFICES ASSUME Inv, Inv', Framing, [Next]_vars PROVE Framing'
    OBVIOUS
  <2>1. Types'
    BY DEF Inv
  <2>2. CASE UNCHANGED vars
    <3>1. /\ UNCHANGED <<phase, after, torn, outfd, asked, status, keep, headers>>
          /\ Seen' = Seen /\ Place' = Place /\ Pending' = Pending /\ Ring' = Ring
      BY <2>2 DEF vars, Seen, Place, Pending, Ring, Lines, Body, Total, Token, n, rq
    <3>2. \A p, c, o : Ready(p, c, o)' <=> Ready(p, c, o)
      BY <3>1, ReadySame
    <3>3. Ready(Place, After(Seen, Pending), Ring)' <=> Ready(Place, After(Seen, Pending), Ring)
      BY <3>1, <3>2
    <3>4. QED BY <3>1, <3>3 DEF Framing
  <2>3. CASE ReadEnd \/ (\E r \in Requests : ReadRequest(r)) \/ (\E r \in Requests : ReadBad(r))
    BY <2>1, <2>3, FramedReads
  <2>4. CASE Handle
    BY <2>1, <2>4, FramedHead, FramedBody, FramedLines, FramedWrites DEF Handle
  <2>5. QED BY <2>2, <2>3, <2>4 DEF Next
<1>3. Inv /\ Framing => Framed
  <2> SUFFICES ASSUME Inv, Framing, torn = {}
               PROVE  /\ Seen.at # "bad"
                      /\ phase = "idle" /\ outfd => Seen.at = "over" /\ Seen.rq = n
                      /\ phase = "closed" /\ outfd =>
                            Seen.at \in {"stream", "over"} /\ Seen.rq = n /\ ~Seen.chunked
    BY DEF Framed
  <2>1. Seen.at # "bad"
    BY DEF Framing
  <2>2. ASSUME outfd, phase \in {"idle", "closed"} PROVE Ready(phase, Seen, out)
    <3>1. Place = phase /\ Pending = <<>> /\ Ring = out
      BY <2>2 DEF Place, Pending, Ring
    <3>2. After(Seen, Pending) = Seen
      BY <3>1, AfterNone
    <3>3. QED BY <2>2, <3>1, <3>2 DEF Framing
  <2>3. phase = "idle" /\ outfd => Over(Seen)
    BY <2>2 DEF Ready, ReadyBody
  <2>4. phase = "closed" /\ outfd => Ended(Seen)
    BY <2>2 DEF Ready, ReadyBody
  <2>5. QED BY <2>1, <2>3, <2>4 DEF Over, Ended
<1>4. QED BY <1>1, <1>2, <1>3, InvHolds, PTL DEF Spec
=============================================================================
