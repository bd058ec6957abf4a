--------------------------- MODULE HttpIn_proofs ---------------------------
(* What the application is given of the payload (Delivered), where the next *)
(* request begins (NextBegins) and the types of HttpIn, for every stream a  *)
(* client may send, size of the ring and of the application's buffer.       *)
EXTENDS HttpIn, SequenceTheorems, TLAPS

Streams == INSTANCE SeqFold_proofs WITH Step <- Follow
Scans   == INSTANCE SeqFold_proofs WITH Step <- EachChunkChar
Parses  == INSTANCE SeqFold_proofs WITH Step <- EachTrailerChar

---------------------------------------------------------------------------
(* The stream                                                              *)

Modes == LineMode \cup TailMode \cup {"data", "bad"}

StateType == [mode : Modes, after : {"previous", "over"}, left : Nat, val : Nat,
              n : Nat, body : Seq(Nat)]

\* What is known of the state after i characters.
Known(rq, i, s) ==
    /\ s \in StateType
    /\ s.after = IF rq.chunked THEN "previous" ELSE "over"
    /\ s.n <= i
    /\ s.mode \notin {"over", "t_bad", "bad"} => s.n = i
    /\ s.mode = "data" => s.left > 0
    /\ s.mode \in {"data", "previous", "previous_cr"} => s.val = 0
    /\ ~rq.chunked => s.mode \in {"data", "over"}

\* The fields of a request.
LEMMA RequestIs ==
    ASSUME NEW rq \in Requests
    PROVE  /\ rq.chunked \in BOOLEAN /\ rq.length \in Nat /\ rq.wire \in Seq(Char)
           /\ rq.body \in Seq(Nat) /\ rq.end \in Nat /\ rq.sound \in BOOLEAN
           /\ Len(rq.wire) \in Nat /\ Laid(rq)
BY HttpInAssumption DEF RequestType

\* Before the first character.
LEMMA AfterNone ==
    ASSUME NEW rq \in Requests
    PROVE  After(rq, 0) = Begin(rq)
<1>1. SubSeq(rq.wire, 1, 0) = <<>>
  BY RequestIs
<1>2. Streams!Fold(Begin(rq), <<>>) = Begin(rq)
  BY Streams!FoldEmpty
<1> QED BY <1>1, <1>2 DEF After, Stream!Fold, Streams!Fold

\* One character more is one step more.
LEMMA AfterNext ==
    ASSUME NEW rq \in Requests, NEW i \in 1 .. Len(rq.wire)
    PROVE  After(rq, i) = Follow(After(rq, i - 1), rq.wire[i])
<1> DEFINE w == rq.wire
           s == SubSeq(w, 1, i - 1)
           b == Begin(rq)
<1>1. w \in Seq(Char) /\ s \in Seq(Char) /\ w[i] \in Char
  BY RequestIs
<1>2. SubSeq(w, 1, i) = Append(s, w[i])
  BY RequestIs
<1> HIDE DEF s, w, b
<1>3. Streams!Fold(b, Append(s, w[i])) = Follow(Streams!Fold(b, s), w[i])
  BY <1>1, Streams!FoldAppend
<1>4. /\ After(rq, i) = Streams!Fold(b, SubSeq(w, 1, i))
      /\ After(rq, i - 1) = Streams!Fold(b, s)
  BY DEF After, Stream!Fold, Streams!Fold, b, s, w
<1> QED BY <1>2, <1>3, <1>4 DEF w

\* The cases of a step: a byte of a chunk,
LEMMA FollowData ==
    ASSUME NEW s, NEW c, s.mode = "data"
    PROVE  Follow(s, c) =
             [s EXCEPT !.mode = IF s.left = 1 THEN s.after ELSE "data",
                       !.left = @ - 1, !.n = @ + 1, !.body = Append(@, s.n + 1)]
BY Zenon DEF Follow, LineMode, TailMode

\* the end of a chunk line,
LEMMA FollowDone ==
    ASSUME NEW s, NEW c, s.mode \in LineMode, ChunkState(s.mode, c) = "done"
    PROVE  Follow(s, c) =
             [s EXCEPT !.mode = IF Digit(s, c) = 0 THEN "t_start" ELSE "data",
                       !.left = Digit(s, c), !.val = 0, !.n = @ + 1]
BY Zenon DEF Follow, LineMode, TailMode

\* what may not be in one,
LEMMA FollowError ==
    ASSUME NEW s, NEW c, s.mode \in LineMode, ChunkState(s.mode, c) = "error"
    PROVE  Follow(s, c) = [s EXCEPT !.mode = "bad"]
BY Zenon DEF Follow, LineMode, TailMode

\* what may,
LEMMA FollowLine ==
    ASSUME NEW s, NEW c, s.mode \in LineMode, ChunkState(s.mode, c) \in LineMode
    PROVE  Follow(s, c) =
             [s EXCEPT !.mode = ChunkState(s.mode, c), !.val = Digit(s, c), !.n = @ + 1]
BY Zenon DEF Follow, LineMode, TailMode

\* a character of the trailers,
LEMMA FollowTail ==
    ASSUME NEW s, NEW c, s.mode \in TailMode \ {"over", "t_bad"}
    PROVE  Follow(s, c) = [s EXCEPT !.mode = TailState(s.mode, c), !.n = @ + 1]
BY Zenon DEF Follow, LineMode, TailMode

\* and whatever comes after the end.
LEMMA FollowOver ==
    ASSUME NEW s, NEW c, s.mode \in {"over", "t_bad", "bad"}
    PROVE  Follow(s, c) = s
BY Zenon DEF Follow, LineMode, TailMode

\* What a chunk line goes on as.
LEMMA ChunkStateIs ==
    ASSUME NEW m, NEW c
    PROVE  /\ ChunkState(m, c) \in (LineMode \ {"previous"}) \cup {"done", "error"}
           /\ ChunkState(m, c) = "previous_cr" => m = "previous"
           /\ ChunkState(m, c) = "done" => m \in {"size", "extension", "cr"}
<1>1. ChunkState(m, c) \in {"previous_cr", "size", "extension", "cr", "done", "error"}
  BY Zenon DEF ChunkState
<1>2. ChunkState(m, c) = "previous_cr" => m = "previous"
  BY Zenon DEF ChunkState
<1>3. ChunkState(m, c) = "done" => m \in {"size", "extension", "cr"}
  BY Zenon DEF ChunkState
<1> QED BY <1>1, <1>2, <1>3 DEF LineMode

\* The trailers go on as trailers, and there is one more than the line end at most.
LEMMA TailStateIs ==
    ASSUME NEW m, NEW c
    PROVE  m \in TailMode => TailState(m, c) \in TailMode \ {"t_start"}
<1>1. m \in TailMode => TailState(m, c) \in {"t_line", "t_cr", "t_nl", "t_nlcr", "over", "t_bad"}
  BY Zenon DEF TailState, TailMode
<1> QED BY <1>1 DEF TailMode

\* The value of a chunk size is a number.
LEMMA DigitIs ==
    ASSUME NEW s, s.val \in Nat, NEW c \in Char
    PROVE  Digit(s, c) \in Nat /\ (s.mode # "size" => Digit(s, c) = s.val)
<1>1. Radix \in Nat /\ (c \in HexDigits => c \in Nat)
  BY HttpInAssumption DEF HexDigits
<1>2. c \in HexDigits => s.val * Radix + c \in Nat
  BY <1>1
<1> QED BY <1>2, Zenon DEF Digit

\* A changed state is one: after a byte of a chunk,
LEMMA ChangedData ==
    ASSUME NEW s \in StateType, NEW m \in Modes, NEW l \in Nat, NEW n \in Nat, NEW b \in Seq(Nat)
    PROVE  [s EXCEPT !.mode = m, !.left = l, !.n = n, !.body = b] \in StateType
BY DEF StateType

\* a chunk line,
LEMMA ChangedDone ==
    ASSUME NEW s \in StateType, NEW m \in Modes, NEW l \in Nat, NEW v \in Nat, NEW n \in Nat
    PROVE  [s EXCEPT !.mode = m, !.left = l, !.val = v, !.n = n] \in StateType
BY DEF StateType

\* a character of one,
LEMMA ChangedLine ==
    ASSUME NEW s \in StateType, NEW m \in Modes, NEW v \in Nat, NEW n \in Nat
    PROVE  [s EXCEPT !.mode = m, !.val = v, !.n = n] \in StateType
BY DEF StateType

\* and one of the trailers.
LEMMA ChangedTail ==
    ASSUME NEW s \in StateType, NEW m \in Modes, NEW n \in Nat
    PROVE  [s EXCEPT !.mode = m, !.n = n] \in StateType
BY DEF StateType

\* What is known of the state stays so.
LEMMA FollowKnown ==
    ASSUME NEW rq \in Requests, NEW i \in Nat, NEW s, Known(rq, i, s), NEW c \in Char
    PROVE  Known(rq, i + 1, Follow(s, c))
<1> DEFINE t == Follow(s, c)
<1>0. /\ s.mode \in Modes /\ s.after \in {"previous", "over"} /\ s.left \in Nat /\ s.val \in Nat
      /\ s.n \in Nat /\ s.body \in Seq(Nat) /\ s \in StateType
      /\ rq.chunked \in BOOLEAN
  BY RequestIs DEF Known, StateType
<1>1. CASE s.mode = "data"
  <2>1. t = [s EXCEPT !.mode = IF s.left = 1 THEN s.after ELSE "data",
                      !.left = @ - 1, !.n = @ + 1, !.body = Append(@, s.n + 1)]
    BY <1>1, FollowData, Zenon
  <2>2. Append(s.body, s.n + 1) \in Seq(Nat)
    BY <1>0
  <2> HIDE DEF t
  <2>3. /\ t.mode = IF s.left = 1 THEN s.after ELSE "data"
        /\ t.left = s.left - 1 /\ t.n = s.n + 1 /\ t.after = s.after /\ t.val = s.val
    BY <2>1, <1>0 DEF StateType
  <2>4. s.left > 0 /\ s.val = 0 /\ s.n = i
    BY <1>1 DEF Known
  <2>5. t \in StateType
    <3>1. (IF s.left = 1 THEN s.after ELSE "data") \in Modes /\ s.left - 1 \in Nat /\ s.n + 1 \in Nat
      BY <2>4, <1>0 DEF Modes, LineMode, TailMode
    <3>2. [s EXCEPT !.mode = IF s.left = 1 THEN s.after ELSE "data", !.left = s.left - 1,
                    !.n = s.n + 1, !.body = Append(s.body, s.n + 1)] \in StateType
      BY <3>1, <2>2, <1>0, ChangedData, Zenon
    <3> QED BY <3>2, <2>1, Zenon
  <2> QED BY <2>3, <2>4, <2>5, <1>0 DEF Known, t
<1>2. CASE s.mode \in LineMode
  <2> DEFINE m == ChunkState(s.mode, c)
             d == Digit(s, c)
  <2>1. /\ m \in (LineMode \ {"previous"}) \cup {"done", "error"}
        /\ m = "previous_cr" => s.mode = "previous"
    BY ChunkStateIs
  <2>2. d \in Nat /\ (s.mode # "size" => d = s.val)
    BY <1>0, DigitIs
  <2>3. s.n = i /\ rq.chunked
    BY <1>2 DEF Known, LineMode
  <2>4. CASE m = "done"
    <3>1. t = [s EXCEPT !.mode = IF d = 0 THEN "t_start" ELSE "data",
                        !.left = d, !.val = 0, !.n = @ + 1]
      BY <1>2, <2>4, FollowDone, Zenon
    <3> HIDE DEF t, d
    <3>2. /\ t.mode = IF d = 0 THEN "t_start" ELSE "data"
          /\ t.left = d /\ t.n = s.n + 1 /\ t.after = s.after /\ t.val = 0
      BY <3>1, <1>0 DEF StateType
    <3>3. t \in StateType
      <4>1. (IF d = 0 THEN "t_start" ELSE "data") \in Modes /\ s.n + 1 \in Nat /\ 0 \in Nat
        BY <1>0 DEF Modes, TailMode
      <4>2. [s EXCEPT !.mode = IF d = 0 THEN "t_start" ELSE "data",
                      !.left = d, !.val = 0, !.n = s.n + 1] \in StateType
        BY <4>1, <2>2, <1>0, ChangedDone, Zenon
      <4> QED BY <4>2, <3>1, Zenon
    <3> QED BY <3>2, <3>3, <2>2, <2>3, <1>0 DEF Known, t
  <2>5. CASE m = "error"
    <3>1. t = [s EXCEPT !.mode = "bad"]
      BY <1>2, <2>5, FollowError, Zenon
    <3> HIDE DEF t, d
    <3>2. t.mode = "bad" /\ t.n = s.n /\ t.after = s.after /\ t \in StateType
      BY <3>1, <1>0 DEF StateType, Modes
    <3> QED BY <3>2, <2>3, <1>0 DEF Known, t
  <2>6. CASE m \in LineMode
    <3>1. t = [s EXCEPT !.mode = m, !.val = d, !.n = @ + 1]
      BY <1>2, <2>6, FollowLine, Zenon
    <3> HIDE DEF t, d, m
    <3>a. m \in Modes /\ s.n + 1 \in Nat
      BY <2>6, <1>0 DEF Modes
    <3>2. t.mode = m /\ t.n = s.n + 1 /\ t.after = s.after /\ t.val = d /\ t \in StateType
      <4>1. t.mode = m /\ t.n = s.n + 1 /\ t.after = s.after /\ t.val = d
        BY <3>1, <1>0 DEF StateType
      <4>2. [s EXCEPT !.mode = m, !.val = d, !.n = s.n + 1] \in StateType
        BY <3>a, <2>2, <1>0, ChangedLine, Zenon
      <4> QED BY <4>1, <4>2, <3>1, Zenon
    <3>3. m # "data" /\ m \notin {"over", "t_bad", "bad"}
      BY <2>6 DEF LineMode
    <3>4. m \in {"previous", "previous_cr"} => s.mode = "previous"
      BY <2>1, <2>6 DEF LineMode
    <3>5. s.mode = "previous" => s.val = 0 /\ d = s.val
      BY <2>2 DEF Known
    <3> QED BY <3>2, <3>3, <3>4, <3>5, <2>3, <1>0 DEF Known, t
  <2> QED BY <2>1, <2>4, <2>5, <2>6
<1>3. CASE s.mode \in TailMode \ {"over", "t_bad"}
  <2> DEFINE m == TailState(s.mode, c)
  <2>1. m \in TailMode
    BY <1>3, TailStateIs
  <2>2. t = [s EXCEPT !.mode = m, !.n = @ + 1]
    BY <1>3, FollowTail, Zenon
  <2> HIDE DEF t, m
  <2>3. t.mode = m /\ t.n = s.n + 1 /\ t.after = s.after /\ t.val = s.val /\ t \in StateType
    <3>1. t.mode = m /\ t.n = s.n + 1 /\ t.after = s.after /\ t.val = s.val
      BY <2>2, <1>0 DEF StateType
    <3>2. m \in Modes /\ s.n + 1 \in Nat
      BY <2>1, <1>0 DEF Modes
    <3>3. t \in StateType
      <4>1. [s EXCEPT !.mode = m, !.n = s.n + 1] \in StateType
        BY <3>2, <1>0, ChangedTail, Zenon
      <4> QED BY <4>1, <2>2, Zenon
    <3> QED BY <3>1, <3>3
  <2>4. s.n = i /\ rq.chunked
    BY <1>3 DEF Known, TailMode
  <2>5. m # "data" /\ m \notin {"previous", "previous_cr"}
    BY <2>1 DEF TailMode
  <2> QED BY <2>1, <2>3, <2>4, <2>5, <1>0 DEF Known, t
<1>4. CASE s.mode \in {"over", "t_bad", "bad"}
  <2>1. t = s
    BY <1>4, FollowOver
  <2> QED BY <2>1, <1>4, <1>0 DEF Known
<1> QED BY <1>0, <1>1, <1>2, <1>3, <1>4 DEF Modes

\* After every character something is known of the state.
LEMMA AfterKnown ==
    ASSUME NEW rq \in Requests, NEW i \in 0 .. Len(rq.wire)
    PROVE  Known(rq, i, After(rq, i))
<1> DEFINE N == Len(rq.wire)
           S == {j \in Nat : j <= N => Known(rq, j, After(rq, j))}
<1>0. N \in Nat /\ \A j \in 1 .. N : rq.wire[j] \in Char
  BY RequestIs
<1>1. 0 \in S
  <2>1. Known(rq, 0, Begin(rq))
    <3>1. rq.chunked \in BOOLEAN /\ rq.length \in Nat /\ <<>> \in Seq(Nat)
      BY RequestIs
    <3>2. Begin(rq) \in StateType
      BY <3>1 DEF Begin, StateType, Modes, LineMode, TailMode
    <3> QED BY <3>1, <3>2 DEF Begin, Known
  <2> QED BY <2>1, AfterNone
<1>2. ASSUME NEW j \in Nat, j \in S PROVE j + 1 \in S
  <2> SUFFICES ASSUME j + 1 <= N PROVE Known(rq, j + 1, After(rq, j + 1))
    OBVIOUS
  <2>1. Known(rq, j, After(rq, j)) /\ rq.wire[j + 1] \in Char
    BY <1>0, <1>2
  <2>2. After(rq, j + 1) = Follow(After(rq, j), rq.wire[j + 1])
    <3>1. j + 1 \in 1 .. N /\ (j + 1) - 1 = j
      BY <1>0
    <3> QED BY <3>1, AfterNext
  <2> QED BY <2>1, <2>2, FollowKnown
<1> HIDE DEF S
<1>3. Nat \subseteq S
  BY <1>1, <1>2, Streams!Inductive
<1> QED BY <1>0, <1>3 DEF S

\* A sequence begins another when its elements are those of the other.
LEMMA PrefixIs ==
    ASSUME NEW a \in Seq(Nat), NEW b \in Seq(Nat)
    PROVE  IsPrefix(a, b) <=> Len(a) <= Len(b) /\ \A i \in 1 .. Len(a) : a[i] = b[i]
<1>0. Len(a) \in Nat /\ Len(b) \in Nat
  OBVIOUS
<1>1. SubSeq(a, 1, Len(a)) = a
  BY SubSeqFull
<1>2. ASSUME Len(a) <= Len(b)
      PROVE  a = SubSeq(b, 1, Len(a)) <=> \A i \in 1 .. Len(a) : a[i] = b[i]
  <2> DEFINE t == SubSeq(b, 1, Len(a))
  <2>1. t \in Seq(Nat) /\ Len(t) = Len(a) /\ \A i \in 1 .. Len(a) : t[i] = b[i]
    BY <1>0, <1>2
  <2> HIDE DEF t
  <2>2. (\A i \in 1 .. Len(a) : a[i] = b[i]) => a = t
    BY <2>1, SeqEqual
  <2>3. a = t => \A i \in 1 .. Len(a) : a[i] = b[i]
    BY <2>1
  <2> QED BY <2>2, <2>3 DEF t
<1> QED BY <1>1, <1>2 DEF IsPrefix

\* Prefixes are ordered, and one more element makes a longer one.
LEMMA PrefixOrder ==
    ASSUME NEW a \in Seq(Nat), NEW b \in Seq(Nat), NEW c \in Seq(Nat)
    PROVE  /\ IsPrefix(a, a)
           /\ IsPrefix(a, b) /\ IsPrefix(b, c) => IsPrefix(a, c)
           /\ \A x \in Nat : IsPrefix(a, Append(a, x))
<1>0. Len(a) \in Nat /\ Len(b) \in Nat /\ Len(c) \in Nat
  OBVIOUS
<1>1. IsPrefix(a, a)
  BY PrefixIs, <1>0
<1>2. IsPrefix(a, b) /\ IsPrefix(b, c) => IsPrefix(a, c)
  BY PrefixIs, <1>0
<1>3. ASSUME NEW x \in Nat PROVE IsPrefix(a, Append(a, x))
  <2> DEFINE t == Append(a, x)
  <2>1. t \in Seq(Nat) /\ Len(t) = Len(a) + 1 /\ \A i \in 1 .. Len(a) : t[i] = a[i]
    OBVIOUS
  <2> HIDE DEF t
  <2>a. Len(a) <= Len(t) /\ \A i \in 1 .. Len(a) : a[i] = t[i]
    BY <1>0, <2>1
  <2>2. IsPrefix(a, t)
    BY <2>1, <2>a, PrefixIs
  <2> QED BY <2>2 DEF t
<1> QED BY <1>1, <1>2, <1>3

\* What k more characters may change.
Later(s, t, k) ==
    /\ IsPrefix(s.body, t.body)
    /\ s.n <= t.n /\ t.n <= s.n + k
    /\ s.mode \in TailMode => t.mode \in TailMode /\ t.body = s.body
    /\ s.mode \in {"over", "t_bad", "bad"} => t = s

\* One more.
LEMMA FollowLater ==
    ASSUME NEW s \in StateType, NEW c
    PROVE  Later(s, Follow(s, c), 1)
<1> DEFINE t == Follow(s, c)
<1>0. s.mode \in Modes /\ s.n \in Nat /\ s.body \in Seq(Nat) /\ s.n + 1 \in Nat
  BY DEF StateType
<1>a. IsPrefix(s.body, s.body) /\ IsPrefix(s.body, Append(s.body, s.n + 1))
  BY <1>0, PrefixOrder
<1>1. CASE s.mode = "data"
  <2>1. t = [s EXCEPT !.mode = IF s.left = 1 THEN s.after ELSE "data",
                      !.left = @ - 1, !.n = @ + 1, !.body = Append(@, s.n + 1)]
    BY <1>1, FollowData, Zenon
  <2> HIDE DEF t
  <2>2. t.n = s.n + 1 /\ t.body = Append(s.body, s.n + 1)
    BY <2>1 DEF StateType
  <2> QED BY <2>2, <1>a, <1>0, <1>1 DEF Later, t, TailMode
<1>2. CASE s.mode \in LineMode
  <2> DEFINE m == ChunkState(s.mode, c)
  <2>1. m \in LineMode \cup {"done", "error"}
    BY ChunkStateIs
  <2>2. CASE m = "done"
    <3>1. t = [s EXCEPT !.mode = IF Digit(s, c) = 0 THEN "t_start" ELSE "data",
                        !.left = Digit(s, c), !.val = 0, !.n = @ + 1]
      BY <1>2, <2>2, FollowDone, Zenon
    <3> HIDE DEF t
    <3>2. t.n = s.n + 1 /\ t.body = s.body
      BY <3>1 DEF StateType
    <3> QED BY <3>2, <1>a, <1>0, <1>2 DEF Later, t, TailMode, LineMode
  <2>3. CASE m = "error"
    <3>1. t = [s EXCEPT !.mode = "bad"]
      BY <1>2, <2>3, FollowError, Zenon
    <3> HIDE DEF t
    <3>2. t.n = s.n /\ t.body = s.body
      BY <3>1 DEF StateType
    <3> QED BY <3>2, <1>a, <1>0, <1>2 DEF Later, t, TailMode, LineMode
  <2>4. CASE m \in LineMode
    <3>1. t = [s EXCEPT !.mode = m, !.val = Digit(s, c), !.n = @ + 1]
      BY <1>2, <2>4, FollowLine, Zenon
    <3> HIDE DEF t, m
    <3>2. t.n = s.n + 1 /\ t.body = s.body
      BY <3>1 DEF StateType
    <3> QED BY <3>2, <1>a, <1>0, <1>2 DEF Later, t, TailMode, LineMode
  <2> QED BY <2>1, <2>2, <2>3, <2>4
<1>3. CASE s.mode \in TailMode \ {"over", "t_bad"}
  <2> DEFINE m == TailState(s.mode, c)
  <2>1. m \in TailMode
    BY <1>3, TailStateIs
  <2>2. t = [s EXCEPT !.mode = m, !.n = @ + 1]
    BY <1>3, FollowTail, Zenon
  <2> HIDE DEF t, m
  <2>3. t.mode = m /\ t.n = s.n + 1 /\ t.body = s.body
    BY <2>2 DEF StateType
  <2> QED BY <2>3, <2>1, <1>a, <1>0, <1>3 DEF Later, t, TailMode
<1>4. CASE s.mode \in {"over", "t_bad", "bad"}
  <2>1. t = s
    BY <1>4, FollowOver
  <2> HIDE DEF t
  <2> QED BY <2>1, <1>4, <1>a, <1>0 DEF Later, t
<1> QED BY <1>0, <1>1, <1>2, <1>3, <1>4 DEF Modes

\* From one position to a later one.
LEMMA AfterLater ==
    ASSUME NEW rq \in Requests, NEW i \in 0 .. Len(rq.wire), NEW j \in i .. Len(rq.wire)
    PROVE  Later(After(rq, i), After(rq, j), j - i)
<1> DEFINE N == Len(rq.wire)
           S == {k \in Nat : i + k <= N => Later(After(rq, i), After(rq, i + k), k)}
<1>0. N \in Nat /\ \A k \in 0 .. N : After(rq, k) \in StateType
  BY RequestIs, AfterKnown DEF Known
<1>1. 0 \in S
  <2>1. i + 0 = i /\ After(rq, i) \in StateType
    BY <1>0
  <2>2. Later(After(rq, i), After(rq, i), 0)
    BY <2>1, PrefixOrder DEF StateType, Later
  <2> QED BY <2>1, <2>2
<1>2. ASSUME NEW k \in Nat, k \in S PROVE k + 1 \in S
  <2> SUFFICES ASSUME i + (k + 1) <= N PROVE Later(After(rq, i), After(rq, i + (k + 1)), k + 1)
    OBVIOUS
  <2> DEFINE r == After(rq, i)
             s == After(rq, i + k)
             t == After(rq, i + (k + 1))
  <2>1. Later(r, s, k)
    BY <1>0, <1>2
  <2>2. r \in StateType /\ s \in StateType /\ t \in StateType
    BY <1>0
  <2>3. t = Follow(s, rq.wire[i + (k + 1)])
    <3>1. i + (k + 1) \in 1 .. N /\ (i + (k + 1)) - 1 = i + k
      BY <1>0
    <3> QED BY <3>1, AfterNext
  <2> HIDE DEF r, s, t
  <2>4. Later(s, t, 1)
    BY <2>2, <2>3, FollowLater
  <2>5. IsPrefix(r.body, t.body)
    <3>1. r.body \in Seq(Nat) /\ s.body \in Seq(Nat) /\ t.body \in Seq(Nat)
      BY <2>2 DEF StateType
    <3>2. IsPrefix(r.body, s.body) /\ IsPrefix(s.body, t.body)
      BY <2>1, <2>4 DEF Later
    <3> QED BY <3>1, <3>2, PrefixOrder
  <2>6. r.n \in Nat /\ s.n \in Nat /\ t.n \in Nat
    BY <2>2 DEF StateType
  <2>7. Later(r, t, k + 1)
    BY <2>1, <2>4, <2>5, <2>6 DEF Later
  <2> QED BY <2>7 DEF r, t
<1> HIDE DEF S
<1>3. Nat \subseteq S
  BY <1>1, <1>2, Streams!Inductive
<1>4. j - i \in Nat /\ i + (j - i) = j /\ j <= N
  BY <1>0
<1> QED BY <1>3, <1>4 DEF S

\* r bytes of a chunk.
LEMMA AfterData ==
    ASSUME NEW rq \in Requests, NEW i \in 0 .. Len(rq.wire), NEW r \in Nat, i + r <= Len(rq.wire),
           After(rq, i).mode = "data", r <= After(rq, i).left
    PROVE  LET s == After(rq, i)
               t == After(rq, i + r)
           IN  /\ t.body = s.body \o [k \in 1 .. r |-> i + k]
               /\ t.left = s.left - r
               /\ t.mode = IF r = s.left THEN s.after ELSE "data"
               /\ t.after = s.after /\ t.val = 0 /\ t.n = i + r
<1> DEFINE N == Len(rq.wire)
           s == After(rq, i)
           Run(k) == [x \in 1 .. k |-> i + x]
           Good(k, t) == /\ t.body = s.body \o Run(k)
                         /\ t.left = s.left - k
                         /\ t.mode = IF k = s.left THEN s.after ELSE "data"
                         /\ t.after = s.after /\ t.val = 0 /\ t.n = i + k
           S == {k \in Nat : k <= r => Good(k, After(rq, i + k))}
<1>0. N \in Nat /\ \A k \in 0 .. N : Known(rq, k, After(rq, k)) /\ After(rq, k) \in StateType
  BY RequestIs, AfterKnown DEF Known
<1>a. s \in StateType /\ s.left \in Nat /\ s.left > 0 /\ s.n = i /\ s.val = 0 /\ s.body \in Seq(Nat)
      /\ s.mode = "data"
  BY <1>0 DEF Known, StateType
<1> HIDE DEF s, Run
<1>1. 0 \in S
  <2>1. i + 0 = i /\ Run(0) = <<>>
    BY DEF Run
  <2>2. s.body \o <<>> = s.body
    BY <1>a
  <2>3. Good(0, s)
    BY <1>a, <2>1, <2>2
  <2> HIDE DEF Good
  <2> QED BY <2>1, <2>3 DEF s
<1>2. ASSUME NEW k \in Nat, k \in S PROVE k + 1 \in S
  <2> DEFINE t == After(rq, i + k)
             u == After(rq, i + (k + 1))
  <2>0. ASSUME k + 1 <= r PROVE Good(k + 1, u)
    <3>1. Good(k, t)
      <4> HIDE DEF Good
      <4> QED BY <1>2, <2>0
    <3>2. i + (k + 1) \in 1 .. N /\ (i + (k + 1)) - 1 = i + k /\ i + k \in 0 .. N
      BY <1>0, <2>0
    <3>3. u = Follow(t, rq.wire[i + (k + 1)])
      BY <3>2, AfterNext
    <3>4. t \in StateType
      BY <3>2, <1>0
    <3>a. k # s.left /\ k \in Nat
      BY <1>a, <2>0 DEF s
    <3> HIDE DEF t, u
    <3>5. t.mode = "data"
      BY <3>1, <3>a
    <3>6. u = [t EXCEPT !.mode = IF t.left = 1 THEN t.after ELSE "data",
                        !.left = @ - 1, !.n = @ + 1, !.body = Append(@, t.n + 1)]
      BY <3>3, <3>5, FollowData, Zenon
    <3>7. /\ u.mode = (IF t.left = 1 THEN t.after ELSE "data") /\ u.left = t.left - 1
          /\ u.n = t.n + 1 /\ u.body = Append(t.body, t.n + 1)
          /\ u.after = t.after /\ u.val = t.val
      BY <3>6, <3>4 DEF StateType
    <3>8. u.body = s.body \o Run(k + 1)
      <4>1. Run(k) \in Seq(Nat) /\ i + (k + 1) \in Nat
        BY DEF Run
      <4>2. Run(k + 1) = Append(Run(k), i + (k + 1))
        BY DEF Run
      <4>3. s.body \o Append(Run(k), i + (k + 1)) = Append(s.body \o Run(k), i + (k + 1))
        <5> DEFINE x == i + (k + 1)
                   q == Run(k)
                   b == s.body
        <5>1. x \in Nat /\ q \in Seq(Nat) /\ b \in Seq(Nat)
          BY <4>1, <1>a
        <5> HIDE DEF x, q, b
        <5>2. b \o Append(q, x) = Append(b \o q, x)
          BY <5>1
        <5> QED BY <5>2 DEF x, q, b
      <4>4. t.n + 1 = i + (k + 1)
        BY <3>1
      <4>5. t.body = s.body \o Run(k)
        BY <3>1
      <4> QED BY <4>2, <4>3, <4>4, <4>5, <3>7
    <3>9. k + 1 = s.left <=> t.left = 1
      BY <3>1, <1>a
    <3>b. t.left = s.left - k /\ t.after = s.after /\ t.val = 0 /\ t.n = i + k
      BY <3>1
    <3>10. /\ u.left = s.left - (k + 1) /\ u.n = i + (k + 1)
           /\ u.after = s.after /\ u.val = 0
           /\ u.mode = IF k + 1 = s.left THEN s.after ELSE "data"
      BY <3>7, <3>9, <3>b, <1>a
    <3> QED BY <3>8, <3>10
  <2> HIDE DEF Good
  <2> QED BY <2>0
<1>3. Nat \subseteq S
  <2> HIDE DEF S
  <2> QED BY <1>1, <1>2, Streams!Inductive
<1>4. Good(r, After(rq, i + r))
  <2> HIDE DEF Good
  <2> QED BY <1>3
<1> QED BY <1>4 DEF s, Run

---------------------------------------------------------------------------
(* The inductive invariant                                                 *)

\* The state of the stream at the first byte that is unread.
Here == After(req, read - start)

\* The ring is a window on the stream; the offsets do not wrap.
Window ==
    /\ start <= read /\ read <= write /\ write = start + arrived /\ write - read <= Size
    /\ \A o \in read .. write - 1 : data[o % Size] = o - start + 1

\* `pending' says where in the payload the ring stands.
Inside ==
    /\ pending > 0 => Here.mode = "data" /\ Here.left = pending
    /\ pending = 0 => Here.mode = Here.after
    /\ pending = PENDING_INIT => req.chunked /\ Here.mode = "size" /\ Here.val = 0
    /\ pending = PENDING_EOF => Here.mode \in TailMode \/ eof
    /\ pending = PENDING_ERROR => failed
    /\ pending >= PENDING_ERROR

\* What the application has been given is what the stream has come to.
Given ==
    /\ IsPrefix(delivered, Here.body)
    /\ at = "app" \/ buf > 0 => delivered = Here.body
    /\ ended => pending <= PENDING_EOF /\ (delivered = req.body \/ eof \/ failed)

\* The parser of the trailers keeps at most two bytes.
Parser(p) ==
    /\ ~ParserOver(p)
    /\ p.b <= p.m /\ p.m <= p.b + 2 /\ (p.st = "cr" => p.m <= p.b + 1)

InTrailers == at \in {"trailer", "trailerfd"}

Where ==
    /\ InTrailers => /\ pending = PENDING_EOF /\ Here.mode \in TailMode
                     /\ Parser(rqs) /\ rqs.b = read /\ rqs.m <= write
    /\ at = "trailerfd" => rqs.m = write
    /\ at = "readfd" => pending >= PENDING_INIT

\* It is in step with the stream.
Matches(p, m) ==
    \/ p.nl = 0 /\ p.st = "line" /\ m \in {"t_start", "t_line"}
    \/ p.nl = 0 /\ p.st = "cr" /\ m = "t_cr"
    \/ p.nl = 1 /\ p.st = "nl" /\ m = "t_nl"
    \/ p.nl = 1 /\ p.st = "cr" /\ m = "t_nlcr"
    \/ p.nl = 2 /\ p.st = "nl" /\ m = "over"
    \/ p.st = "error" /\ m = "t_bad"

Synced(p) == LET s == After(req, p.m - start) IN Matches(p, s.mode) /\ s.n = p.m - start

\* A sound request is not passed over, and given up only when the client closes.
Placed ==
    req.sound =>
    /\ Here.n = read - start
    /\ failed => eof
    /\ pending # PENDING_ERROR
    /\ InTrailers => Synced(rqs)
    /\ pending = PENDING_EOF /\ ~InTrailers /\ ~eof => Here.mode = "over"
    /\ at = "done" => pending = PENDING_EOF

Good == Window /\ Inside /\ Given /\ Where

\* The inductive invariant: nothing is said of a ring that is broken.
IInv == TypeOK /\ (~broken => Good)

---------------------------------------------------------------------------
(* The ring                                                                *)

Segments == {s \in Seq(Nat) : Len(s) <= Size}
RingIs == INSTANCE IoBuf_proofs WITH Byte <- Nat, Strings <- Segments, ReadSizes <- Nat

\* The sizes are as the ring needs them.
LEMMA Sizes ==
    /\ Size \in Nat \ {0} /\ Modulus \in Nat \ {0} /\ 2 * Size < Modulus
    /\ RingIs!IoBufAssumption
BY HttpInAssumption DEF Segments, RingIs!IoBufAssumption

\* Where things are.
LEMMA Bounds ==
    ASSUME TypeOK, Window
    PROVE  /\ start \in Nat /\ arrived \in Nat /\ read \in Nat /\ write \in Nat
           /\ req \in Requests /\ Len(req.wire) \in Nat /\ arrived <= Len(req.wire)
           /\ start + Len(req.wire) < Modulus /\ write < Modulus
           /\ data \in [0 .. Size - 1 -> Nat] /\ eof \in BOOLEAN
           /\ read - start \in 0 .. arrived /\ arrived = write - start
           /\ start <= read /\ read <= write /\ write - read \in 0 .. Size
<1>1. start \in Starts /\ req \in Requests /\ arrived \in 0 .. Len(req.wire)
  BY DEF TypeOK
<1>2. start \in Nat /\ start + Len(req.wire) < Modulus
  BY <1>1, HttpInAssumption
<1>3. read \in Nat /\ write \in Nat /\ data \in [0 .. Size - 1 -> Nat] /\ eof \in BOOLEAN
  BY Sizes DEF TypeOK, Ring!TypeOK
<1>4. Len(req.wire) \in Nat
  BY <1>1, RequestIs
<1> QED BY <1>1, <1>2, <1>3, <1>4, Sizes DEF Window

\* The ring is the one that is proved to be a queue, and what it holds are
\* consecutive bytes of the stream.
LEMMA Holds ==
    ASSUME TypeOK, Window, ~broken
    PROVE  /\ RingIs!Sound /\ RingIs!Used = write - read
           /\ RingIs!Contents = [i \in 1 .. write - read |-> read - start + i]
           /\ Len(RingIs!Contents) = write - read
<1>1. RingIs!TypeOK
  BY Zenon DEF TypeOK, Ring!TypeOK, RingIs!TypeOK
<1>2. RingIs!Used = write - read
  <2> DEFINE u == write - read
  <2>1. u \in 0 .. Modulus - 1 /\ u \in Int
    BY Bounds, Sizes
  <2>2. u % Modulus = u
    BY <2>1, Sizes, RingIs!ModNear
  <2> QED BY <2>2 DEF RingIs!Used
<1>3. RingIs!Sound
  <2>1. RingIs!Used <= Size
    BY <1>2, Bounds, Sizes
  <2> QED BY <1>1, <2>1 DEF RingIs!Sound, RingIs!WithinSize
<1>4. RingIs!Contents = [i \in 1 .. write - read |-> read - start + i]
  <2>1. \A i \in 1 .. write - read : data[(read + i - 1) % Size] = read - start + i
    <3> TAKE i \in 1 .. write - read
    <3> DEFINE o == read + i - 1
    <3>1. o \in read .. write - 1 /\ o - start + 1 = read - start + i
      BY Bounds
    <3> HIDE DEF o
    <3>2. data[o % Size] = o - start + 1
      BY <3>1 DEF Window
    <3> QED BY <3>1, <3>2 DEF o
  <2> QED BY <1>2, <2>1 DEF RingIs!Contents, RingIs!Index
<1>5. Len([i \in 1 .. write - read |-> read - start + i]) = write - read
  BY Bounds
<1> QED BY <1>2, <1>3, <1>4, <1>5

\* No offset wraps.
LEMMA NoWrap ==
    ASSUME TypeOK, Window, NEW r \in 0 .. write - read
    PROVE  Ring!Plus(read, r) = read + r /\ RingIs!Plus(read, r) = read + r
<1> DEFINE x == read + r
<1>0. read \in Nat /\ write \in Nat /\ write < Modulus /\ Modulus \in Nat
  BY Bounds, Sizes
<1>1. x \in 0 .. Modulus - 1 /\ x \in Int
  BY <1>0
<1> HIDE DEF x
<1>2. x % Modulus = x
  BY <1>1, Sizes, RingIs!ModNear
<1> QED BY <1>2 DEF Ring!Plus, RingIs!Plus, x

\* Passing bytes over leaves a window.
LEMMA Advance ==
    ASSUME TypeOK, Window, NEW r \in 0 .. write - read, read' = read + r,
           UNCHANGED <<write, data, eof, out, broken, start, arrived>>
    PROVE  Ring!TypeOK' /\ Window'
<1>0. read \in Nat /\ write \in Nat /\ write < Modulus /\ Modulus \in Nat /\ start \in Nat
      /\ start <= read /\ write = start + arrived /\ write - read <= Size /\ Size \in Nat
      /\ arrived \in Nat
  BY Bounds, Sizes DEF Window
<1>1. read' \in 0 .. Modulus - 1
  BY <1>0
<1>2. Ring!TypeOK'
  BY <1>1, Zenon DEF TypeOK, Ring!TypeOK
<1>3. Window'
  <2>1. \A o \in read' .. write' - 1 : data'[o % Size] = o - start' + 1
    <3>1. \A o \in read' .. write' - 1 : o \in read .. write - 1
      BY <1>0
    <3> QED BY <3>1 DEF Window
  <2>2. start' <= read' /\ read' <= write' /\ write' = start' + arrived' /\ write' - read' <= Size
    BY <1>0
  <2> QED BY <2>1, <2>2 DEF Window
<1> QED BY <1>2, <1>3

\* minute_iobuf_read.
LEMMA RingRead ==
    ASSUME TypeOK, Window, ~broken, NEW n \in Nat \ {0}, read < write, Ring!Read(n),
           UNCHANGED <<start, arrived>>
    PROVE  /\ Ring!TypeOK' /\ eof' = eof /\ write' = write
           /\ out'.ret \in 1 .. n /\ out'.data \in Seq(Nat)
           /\ ~broken' =>
                LET l == Least(n, write - read)
                IN  /\ Window' /\ read' = read + l
                    /\ out' = Ring!Result(l, [k \in 1 .. l |-> read - start + k])
<1> DEFINE l == Least(n, write - read)
           u == write - read
           e == IF RingIs!Used > n THEN RingIs!Plus(read, n) ELSE write
<1>b. /\ read \in Nat /\ write \in Nat /\ start \in Nat /\ arrived \in Nat /\ Size \in Nat
      /\ start <= read /\ write = start + arrived /\ write - read <= Size /\ 2 * Size < Modulus
      /\ Modulus \in Nat
  BY Bounds, Sizes DEF Window
<1>0. u \in 1 .. Size /\ l \in 1 .. u /\ l <= n /\ u \in Nat /\ l \in Nat
      /\ (u > n => l = n) /\ (~(u > n) => l = u)
  BY <1>b DEF Least
<1>1. RingIs!Read(n)
  BY Zenon DEF Ring!Read, RingIs!Read, Ring!Used, RingIs!Used, Ring!Plus, RingIs!Plus,
     Ring!Index, RingIs!Index, Ring!bi, RingIs!bi, Ring!CopyOut, RingIs!CopyOut,
     Ring!Result, RingIs!Result, Ring!Fine, RingIs!Fine, Ring!Break, RingIs!Break
<1>2. RingIs!Sound' /\ (RingIs!Fifo!Read(n) \/ RingIs!Fifo!Break)
  BY <1>1, Holds, Sizes, RingIs!ReadStep
<1>3. e = read + l
  <2>1. RingIs!Used = u
    BY Holds
  <2>2. CASE u > n
    <3>0. n \in 0 .. write - read
      BY <2>2, <1>b
    <3>1. RingIs!Plus(read, n) = read + n
      BY <3>0, NoWrap
    <3> HIDE DEF l
    <3> QED BY <2>1, <2>2, <3>1, <1>0
  <2>3. CASE ~(u > n)
    <3> HIDE DEF l
    <3> QED BY <2>1, <2>3, <1>0, <1>b
  <2> QED BY <2>2, <2>3
<1>4. read' = e /\ UNCHANGED <<write, data, eof>> /\ out'.ret = (e - read) % Modulus
  BY <1>1 DEF RingIs!Read, RingIs!Result
<1>5. out'.ret = l
  <2>1. e - read = l
    <3> HIDE DEF l
    <3> QED BY <1>3, <1>b, <1>0
  <2>2. l % Modulus = l
    <3> HIDE DEF l
    <3>1. l \in 0 .. Modulus - 1 /\ l \in Int
      BY <1>0, <1>b
    <3> QED BY <3>1, Sizes, RingIs!ModNear
  <2> QED BY <1>4, <2>1, <2>2
<1>6. RingIs!TypeOK'
  BY <1>2 DEF RingIs!Sound
<1>7. Ring!TypeOK'
  BY <1>6, Zenon DEF Ring!TypeOK, RingIs!TypeOK
<1>8. out'.data \in Seq(Nat)
  BY <1>6 DEF RingIs!TypeOK
<1>9. ASSUME ~broken'
      PROVE  /\ Window' /\ read' = read + l
             /\ out' = Ring!Result(l, [k \in 1 .. l |-> read - start + k])
  <2>1. RingIs!Fifo!Read(n)
    BY <1>2, <1>9 DEF RingIs!Fifo!Break
  <2> DEFINE C == [i \in 1 .. u |-> read - start + i]
             p == read - start
  <2>a. p \in Nat
    BY <1>b
  <2>0. p \in Nat /\ C \in Seq(Nat) /\ Len(C) = u
    <3> HIDE DEF p, u
    <3>1. C = [i \in 1 .. u |-> p + i]
      BY DEF p
    <3> HIDE DEF C
    <3> QED BY <2>a, <1>0, <3>1
  <2>2. RingIs!Contents = C /\ Len(RingIs!Contents) = u
    BY Holds
  <2>3. /\ RingIs!Contents' = SubSeq(C, l + 1, u)
        /\ out' = RingIs!Fifo!Result(l, SubSeq(C, 1, l))
    <3> HIDE DEF l, u, C
    <3>1. (IF n < Len(RingIs!Contents) THEN n ELSE Len(RingIs!Contents)) = l
      BY <2>2, <1>0
    <3> QED BY <2>1, <2>2, <3>1 DEF RingIs!Fifo!Read, RingIs!Fifo!Out
  <2>4. SubSeq(C, 1, l) = [k \in 1 .. l |-> p + k]
    <3> DEFINE D == [k \in 1 .. l |-> p + k]
               E == SubSeq(C, 1, l)
    <3> HIDE DEF l, u, p
    <3>1. D \in Seq(Nat) /\ Len(D) = l /\ \A k \in 1 .. l : D[k] = p + k
      BY <1>0, <2>0
    <3>2. E \in Seq(Nat) /\ Len(E) = l /\ \A k \in 1 .. l : E[k] = C[k]
      BY <1>0, <2>0
    <3>3. \A k \in 1 .. l : C[k] = p + k
      BY <1>0 DEF p
    <3> HIDE DEF D, E, C
    <3>4. E = D
      BY <3>1, <3>2, <3>3, SeqEqual
    <3> QED BY <3>4 DEF D, E
  <2>5. out' = Ring!Result(l, [k \in 1 .. l |-> p + k])
    BY <2>3, <2>4, Zenon DEF Ring!Result, RingIs!Fifo!Result
  <2>6. Window'
    <3>1. read' = read + l /\ UNCHANGED <<write, data, start, arrived>>
      BY <1>3, <1>4
    <3> HIDE DEF l
    <3>2. \A o \in read' .. write' - 1 : o \in read .. write - 1
      BY <3>1, <1>0, <1>b
    <3>3. \A o \in read' .. write' - 1 : data'[o % Size] = o - start' + 1
      BY <3>1, <3>2 DEF Window
    <3>4. start' <= read' /\ read' <= write' /\ write' = start' + arrived' /\ write' - read' <= Size
      BY <3>1, <1>0, <1>b
    <3> QED BY <3>3, <3>4 DEF Window
  <2> QED BY <1>3, <1>4, <2>5, <2>6
<1> QED BY <1>0, <1>4, <1>5, <1>7, <1>8, <1>9

\* minute_iobuf_readfd, with bytes.
LEMMA RingReadFd ==
    ASSUME TypeOK, Window, ~broken, NEW n \in 1 .. Size, arrived + n <= Len(req.wire),
           Ring!ReadFd([i \in 1 .. n |-> arrived + i]), arrived' = arrived + n, start' = start
    PROVE  Ring!TypeOK' /\ Window' /\ UNCHANGED <<read, eof, broken>> /\ write' = write + n
<1> DEFINE s == [i \in 1 .. n |-> arrived + i]
           p == read - start
           u == write - read
<1>b. /\ read \in Nat /\ write \in Nat /\ start \in Nat /\ arrived \in Nat /\ Size \in Nat
      /\ start <= read /\ read <= write /\ write = start + arrived /\ write - read <= Size
      /\ 2 * Size < Modulus /\ Modulus \in Nat /\ n \in Nat /\ n <= Size
      /\ write + n < Modulus
  <2>1. /\ start \in Nat /\ arrived \in Nat /\ read \in Nat /\ write \in Nat
        /\ Len(req.wire) \in Nat /\ start + Len(req.wire) < Modulus
    BY Bounds
  <2>2. /\ Size \in Nat /\ Modulus \in Nat /\ 2 * Size < Modulus
    BY Sizes
  <2>3. /\ start <= read /\ read <= write /\ write = start + arrived /\ write - read <= Size
    BY DEF Window
  <2> QED BY <2>1, <2>2, <2>3
<1>a. p \in Nat /\ u \in Nat /\ arrived = p + u
  BY <1>b
<1>0. s \in Seq(Nat) /\ Len(s) = n /\ s \in Segments /\ p \in Nat /\ u \in Nat /\ n \in Nat
      /\ arrived = p + u
  <2>1. s \in Seq(Nat) /\ Len(s) = n
    BY <1>b
  <2> HIDE DEF s
  <2> QED BY <1>a, <1>b, <2>1 DEF Segments
<1> HIDE DEF s
<1>1. RingIs!ReadFd(s)
  BY Zenon DEF s, Ring!ReadFd, RingIs!ReadFd, Ring!Full, RingIs!Full, Ring!Fine, RingIs!Fine,
     Ring!bi, RingIs!bi, Ring!ei, RingIs!ei, Ring!Index, RingIs!Index, Ring!Room1, RingIs!Room1,
     Ring!Room2, RingIs!Room2, Ring!Result, RingIs!Result, Ring!CopySplit, RingIs!CopySplit,
     Ring!CopyIn, RingIs!CopyIn, Ring!Plus, RingIs!Plus
<1>2. RingIs!Sound' /\ RingIs!Fifo!ReadFd(s)
  BY <1>0, <1>1, Holds, Sizes, RingIs!ReadFdStep
<1>3. UNCHANGED <<read, eof, broken>> /\ write' = write + n
  <2>1. UNCHANGED <<read, eof, broken>> /\ write' = (write + n) % Modulus
    BY <1>0, <1>1 DEF RingIs!ReadFd, RingIs!Plus, RingIs!Fine
  <2> DEFINE x == write + n
  <2>2. x \in 0 .. Modulus - 1 /\ x \in Int
    BY <1>b
  <2> HIDE DEF x
  <2>3. x % Modulus = x
    BY <2>2, Sizes, RingIs!ModNear
  <2> QED BY <2>1, <2>3 DEF x
<1>4. RingIs!TypeOK'
  BY <1>2 DEF RingIs!Sound
<1>5. Ring!TypeOK'
  BY <1>4, Zenon DEF Ring!TypeOK, RingIs!TypeOK
<1>6. RingIs!Contents' = RingIs!Contents \o s /\ RingIs!Fifo!Fits(n)
  BY <1>0, <1>2 DEF RingIs!Fifo!ReadFd, RingIs!Fifo!In
<1>7. u + n <= Size
  <2>1. Len(RingIs!Contents) = u
    BY Holds
  <2> QED BY <1>6, <2>1 DEF RingIs!Fifo!Fits
<1>8. RingIs!Contents' = [i \in 1 .. u + n |-> p + i]
  <2> DEFINE C == [i \in 1 .. u |-> p + i]
             D == [i \in 1 .. u + n |-> p + i]
  <2> HIDE DEF p, u
  <2>1. C \in Seq(Nat) /\ Len(C) = u /\ \A i \in 1 .. u : C[i] = p + i
    BY <1>0
  <2>2. D \in Seq(Nat) /\ Len(D) = u + n /\ \A i \in 1 .. u + n : D[i] = p + i
    BY <1>0
  <2>3. \A i \in 1 .. n : s[i] = p + u + i
    BY <1>0 DEF s
  <2> HIDE DEF C, D
  <2>4. /\ C \o s \in Seq(Nat) /\ Len(C \o s) = u + n
        /\ \A i \in 1 .. u + n : (C \o s)[i] = IF i <= u THEN C[i] ELSE s[i - u]
    <3>1. /\ C \o s \in Seq(Nat) /\ Len(C \o s) = Len(C) + Len(s)
          /\ \A i \in 1 .. Len(C) + Len(s) : (C \o s)[i] = IF i <= Len(C) THEN C[i] ELSE s[i - Len(C)]
      BY <1>0, <2>1, ConcatProperties, Zenon
    <3> QED BY <3>1, <2>1, <1>0
  <2>5. \A i \in 1 .. u + n : (C \o s)[i] = D[i]
    <3> TAKE i \in 1 .. u + n
    <3>1. CASE i <= u
      BY <3>1, <1>0, <2>1, <2>2, <2>4
    <3>2. CASE ~(i <= u)
      <4>1. i - u \in 1 .. n /\ p + u + (i - u) = p + i
        BY <3>2, <1>0
      <4> QED BY <4>1, <3>2, <2>2, <2>3, <2>4
    <3> QED BY <3>1, <3>2
  <2>6. C \o s = D
    BY <2>2, <2>4, <2>5, SeqEqual
  <2>7. RingIs!Contents = C
    BY Holds DEF C, p, u
  <2> QED BY <1>6, <2>6, <2>7 DEF D
<1>9. RingIs!Used' = u + n
  <2> DEFINE x == u + n
  <2>1. write' - read' = x /\ x \in 0 .. Modulus - 1 /\ x \in Int
    BY <1>3, <1>7, <1>b
  <2> HIDE DEF x
  <2>2. x % Modulus = x
    BY <2>1, Sizes, RingIs!ModNear
  <2> QED BY <2>1, <2>2 DEF RingIs!Used, x
<1>10. \A o \in read' .. read' + (u + n) - 1 : data'[o % Size] = p + (o - read') + 1
  <2> HIDE DEF p, u
  <2>1. u + n \in Nat
    BY <1>0
  <2>2. read' \in Nat
    BY <1>4, Sizes DEF RingIs!TypeOK
  <2> TAKE o \in read' .. read' + (u + n) - 1
  <2> DEFINE i == o - read' + 1
  <2>3. i \in 1 .. u + n /\ read' + i - 1 = o /\ p + i = p + (o - read') + 1
    <3>1. p \in Nat /\ u \in Nat /\ n \in Nat
      BY <1>0
    <3>2. ASSUME NEW q \in Nat, NEW y \in q .. q + (u + n) - 1
          PROVE  /\ y - q + 1 \in 1 .. u + n /\ q + (y - q + 1) - 1 = y
                 /\ p + (y - q + 1) = p + (y - q) + 1
      BY <3>1
    <3> QED BY <2>2, <3>2
  <2> HIDE DEF i
  <2>4. RingIs!Contents'[i] = data'[o % Size]
    BY <1>9, <2>3 DEF RingIs!Contents, RingIs!Index
  <2>5. RingIs!Contents'[i] = p + i
    BY <1>8, <2>3
  <2> QED BY <2>3, <2>4, <2>5
<1>11. Window'
  <2>1. \A o \in read' .. write' - 1 : data'[o % Size] = o - start' + 1
    <3> TAKE o \in read' .. write' - 1
    <3>1. o \in read' .. read' + (u + n) - 1 /\ p + (o - read') + 1 = o - start' + 1
      BY <1>3, <1>b
    <3>2. data'[o % Size] = p + (o - read') + 1
      <4> HIDE DEF p, u
      <4> QED BY <3>1, <1>10
    <3> QED BY <3>1, <3>2
  <2>2. start' <= read' /\ read' <= write' /\ write' = start' + arrived' /\ write' - read' <= Size
    BY <1>3, <1>7, <1>b
  <2> QED BY <2>1, <2>2 DEF Window
<1> QED BY <1>3, <1>5, <1>11

\* minute_iobuf_readfd, without.
LEMMA RingReadFdElse ==
    ASSUME TypeOK, Window, ~broken, UNCHANGED <<start, arrived>>,
           Ring!ReadFdFull \/ Ring!ReadFdEnd \/ Ring!ReadFdError
    PROVE  /\ Ring!TypeOK'
           /\ ~broken' => Window' /\ UNCHANGED <<read, write>>
           /\ Ring!ReadFdEnd => eof' = TRUE /\ ~broken'
           /\ ~Ring!ReadFdEnd => eof' = eof
           /\ Ring!ReadFdError => broken'
<1>1. RingIs!ReadFdFull \/ RingIs!ReadFdEnd \/ RingIs!ReadFdError
  BY Zenon DEF Ring!ReadFdFull, RingIs!ReadFdFull, Ring!ReadFdEnd, RingIs!ReadFdEnd,
     Ring!ReadFdError, RingIs!ReadFdError, Ring!Full, RingIs!Full, Ring!Fine, RingIs!Fine,
     Ring!bi, RingIs!bi, Ring!ei, RingIs!ei, Ring!Index, RingIs!Index, Ring!Result,
     RingIs!Result, Ring!Break, RingIs!Break, Ring!Plus, RingIs!Plus
<1>2. RingIs!Sound'
  BY <1>1, Holds, Sizes, RingIs!ReadFdElseStep
<1>3. Ring!TypeOK'
  BY <1>2, Zenon DEF RingIs!Sound, Ring!TypeOK, RingIs!TypeOK
<1>4. Ring!ReadFdFull \/ Ring!ReadFdEnd => UNCHANGED <<read, write, data, broken>>
  BY DEF Ring!ReadFdFull, Ring!ReadFdEnd, Ring!Fine
<1>5. Ring!ReadFdError => broken' /\ eof' = eof
  BY DEF Ring!ReadFdError, Ring!Break
<1>6. Ring!ReadFdEnd => eof' = TRUE
  BY DEF Ring!ReadFdEnd
<1>7. Ring!ReadFdFull => eof' = eof
  BY DEF Ring!ReadFdFull
<1>8. UNCHANGED <<read, write, data>> => Window'
  BY DEF Window
<1> QED BY <1>3, <1>4, <1>5, <1>6, <1>7, <1>8

---------------------------------------------------------------------------
(* The loops over what the ring holds                                      *)

\* What a loop sees are the characters of the stream.
LEMMA UnreadIs ==
    ASSUME TypeOK, Window, NEW o \in read .. write
    PROVE  /\ Unread(o) \in Seq(Char) /\ Len(Unread(o)) = write - o
           /\ \A i \in 1 .. write - o : Unread(o)[i] = req.wire[o - start + i]
           /\ write - o \in Nat
<1> DEFINE k == write - o
           w == req.wire
           f == [i \in 1 .. k |-> CharAt(data[Ring!Index(o + i - 1)])]
<1>1. /\ start \in Nat /\ read \in Nat /\ write \in Nat /\ start <= read
      /\ write = start + arrived /\ arrived <= Len(w) /\ Len(w) \in Nat /\ arrived \in Nat
  BY Bounds DEF Window
<1>2. o \in Nat /\ k \in Nat /\ o <= write /\ read <= o
  BY <1>1
<1>3. w \in Seq(Char)
  BY Bounds, RequestIs
<1> HIDE DEF w
<1>4. ASSUME NEW i \in 1 .. k
      PROVE  /\ CharAt(data[Ring!Index(o + i - 1)]) = w[o - start + i]
             /\ w[o - start + i] \in Char
  <2> DEFINE x == o + i - 1
  <2>1. x \in read .. write - 1 /\ x - start + 1 = o - start + i
    BY <1>1, <1>2
  <2>2. o - start + i \in 1 .. Len(w)
    BY <1>1, <1>2
  <2> HIDE DEF x
  <2>3. data[x % Size] = x - start + 1
    BY <2>1 DEF Window
  <2>4. data[Ring!Index(x)] = o - start + i
    BY <2>1, <2>3 DEF Ring!Index
  <2>5. DOMAIN w = 1 .. Len(w) /\ w[o - start + i] \in Char
    BY <1>3, <2>2
  <2>6. CharAt(o - start + i) = w[o - start + i]
    BY <2>2, <2>5 DEF CharAt, w
  <2> QED BY <2>4, <2>5, <2>6 DEF x
<1>5. Unread(o) = f
  <2>1. CASE o < write
    BY <2>1 DEF Unread
  <2>2. CASE ~(o < write)
    <3>1. k = 0
      BY <2>2, <1>1, <1>2
    <3> QED BY <2>2, <3>1 DEF Unread
  <2> QED BY <2>1, <2>2
<1> HIDE DEF k
<1>6. f \in Seq(Char) /\ Len(f) = k /\ \A i \in 1 .. k : f[i] = w[o - start + i]
  BY <1>2, <1>4
<1> HIDE DEF f
<1> QED BY <1>2, <1>5, <1>6 DEF k, w

\* No size wraps.
LEMMA LaidIs ==
    ASSUME NEW rq \in Requests, NEW i \in 0 .. Len(rq.wire)
    PROVE  After(rq, i).val < Modulus \div 2 /\ After(rq, i).left < Modulus \div 2
<1>1. Laid(rq)
  BY RequestIs
<1> QED BY <1>1, Zenon DEF Laid

\* What the scan of a chunk line has come to, i characters after position p.
ChunkType == [cs : LineMode \cup {"done", "error"}, val : Nat, n : Nat]

LineOpen(p, i, s) ==
    /\ s.n = i /\ After(req, p + i).mode = s.cs /\ After(req, p + i).val = s.val
    /\ After(req, p + i).body = After(req, p).body

LineDone(p, i, s) ==
    /\ s.n \in 1 .. i /\ s.val < Modulus \div 2
    /\ After(req, p + s.n).mode = (IF s.val = 0 THEN "t_start" ELSE "data")
    /\ After(req, p + s.n).left = s.val
    /\ After(req, p + s.n).body = After(req, p).body

LineBad(p, i) == \E j \in 0 .. i : After(req, p + j).mode = "bad"

LineAt(p, i) ==
    {s \in ChunkType : \/ s.cs \in LineMode /\ LineOpen(p, i, s)
                       \/ s.cs = "done" /\ LineDone(p, i, s)
                       \/ s.cs = "error" /\ LineBad(p, i)}

\* One more character of a chunk line.
LEMMA ChunkCharReads ==
    ASSUME req \in Requests, NEW p \in Nat, NEW i \in Nat, p + i + 1 <= Len(req.wire),
           NEW s \in LineAt(p, i)
    PROVE  ChunkChar(s, req.wire[p + i + 1]) \in LineAt(p, i + 1)
<1> DEFINE w == req.wire
           c == w[p + i + 1]
           t == ChunkChar(s, c)
           a == After(req, p + i)
           e == After(req, p + i + 1)
<1>0. Len(w) \in Nat /\ c \in Char /\ s \in ChunkType /\ p + (i + 1) = p + i + 1
  <2>1. w \in Seq(Char) /\ Len(w) \in Nat
    BY RequestIs
  <2>2. p + i + 1 \in 1 .. Len(w)
    BY <2>1
  <2> QED BY <2>1, <2>2 DEF LineAt
<1>1. CASE s.cs \in {"done", "error"}
  <2>1. t = s
    BY <1>1 DEF ChunkChar
  <2>2. s.cs \notin LineMode
    BY <1>1 DEF LineMode
  <2> HIDE DEF t, c, w
  <2>3. LineDone(p, i, s) => LineDone(p, i + 1, s)
    <3>1. s.n \in 1 .. i => s.n \in 1 .. i + 1
      OBVIOUS
    <3> QED BY <3>1, Zenon DEF LineDone
  <2>4. LineBad(p, i) => LineBad(p, i + 1)
    <3>1. \A j \in 0 .. i : j \in 0 .. i + 1
      OBVIOUS
    <3> QED BY <3>1, Zenon DEF LineBad
  <2>5. (s.cs = "done" /\ LineDone(p, i, s)) \/ (s.cs = "error" /\ LineBad(p, i))
    BY <2>2, Zenon DEF LineAt
  <2>6. (s.cs = "done" /\ LineDone(p, i + 1, s)) \/ (s.cs = "error" /\ LineBad(p, i + 1))
    BY <2>3, <2>4, <2>5
  <2>7. s \in LineAt(p, i + 1)
    BY <1>0, <2>6, Zenon DEF LineAt
  <2> QED BY <2>1, <2>7 DEF t, c, w
<1>2. CASE s.cs \in LineMode
  <2> DEFINE m == ChunkState(s.cs, c)
             d == Digit(a, c)
  <2>0. s.cs \notin {"done", "error"}
    BY <1>2 DEF LineMode
  <2>1. s.n = i /\ a.mode = s.cs /\ a.val = s.val /\ a.body = After(req, p).body
    BY <1>2, <2>0 DEF LineAt, LineOpen
  <2>2. a \in StateType /\ e \in StateType /\ a.val \in Nat
    <3>1. p + i \in 0 .. Len(w) /\ p + i + 1 \in 0 .. Len(w)
      BY <1>0
    <3> QED BY <3>1, AfterKnown DEF Known, StateType
  <2>3. e = Follow(a, c)
    <3>1. p + i + 1 \in 1 .. Len(w) /\ (p + i + 1) - 1 = p + i
      BY <1>0
    <3> QED BY <3>1, AfterNext
  <2>4. e.val < Modulus \div 2 /\ e.left < Modulus \div 2
    <3>1. p + i + 1 \in 0 .. Len(w)
      BY <1>0
    <3> QED BY <3>1, LaidIs
  <2>5. d \in Nat
    BY <1>0, <2>2, DigitIs
  <2>6. t.cs = m /\ t.n = i + 1 /\ t.val \in Nat /\ t \in ChunkType /\ (d < Modulus => t.val = d)
    <3>1. m \in LineMode \cup {"done", "error"}
      BY ChunkStateIs
    <3>2. t = [cs |-> m, n |-> s.n + 1,
               val |-> IF s.cs = "size" /\ c \in HexDigits
                       THEN (s.val * Radix + c) % Modulus ELSE s.val]
      BY <2>0 DEF ChunkChar
    <3> DEFINE v == IF s.cs = "size" /\ c \in HexDigits
                    THEN (s.val * Radix + c) % Modulus ELSE s.val
    <3>3. v \in Nat /\ (d < Modulus => v = d)
      <4>1. CASE s.cs = "size" /\ c \in HexDigits
        <5> DEFINE x == s.val * Radix + c
        <5>1. x = d
          BY <4>1, <2>1 DEF Digit
        <5> HIDE DEF d, x
        <5>a. x \in Nat /\ x \in Int /\ Modulus \in Nat \ {0}
          BY <5>1, <2>5, Sizes
        <5>2. x % Modulus \in 0 .. Modulus - 1
          BY <5>a, RingIs!Mod
        <5>b. x \in 0 .. Modulus - 1 => x % Modulus = x
          BY <5>a, RingIs!ModNear
        <5>3. v = x % Modulus
          BY <4>1 DEF x
        <5> HIDE DEF v
        <5>4. Modulus \in Nat
          BY Sizes
        <5> QED BY <5>1, <5>a, <5>2, <5>b, <5>3, <5>4
      <4>2. CASE ~(s.cs = "size" /\ c \in HexDigits)
        <5>1. v = s.val
          BY <4>2
        <5>2. d = s.val
          BY <4>2, <2>1 DEF Digit
        <5> QED BY <5>1, <5>2, <2>1, <2>2
      <4> QED BY <4>1, <4>2
    <3> HIDE DEF t, m, v, d, c
    <3>4. i + 1 \in Nat
      OBVIOUS
    <3> QED BY <3>1, <3>2, <3>3, <3>4, <2>1 DEF ChunkType, v
  <2>7. m \in LineMode \cup {"done", "error"}
    BY ChunkStateIs
  <2>8. Modulus \div 2 <= Modulus /\ Modulus \in Nat /\ Modulus \div 2 \in Nat
    BY Sizes
  <2>a. a.mode \in LineMode /\ ChunkState(a.mode, c) = m
    BY <1>2, <2>1, Zenon
  <2>b. /\ m = "done" => e = [a EXCEPT !.mode = IF d = 0 THEN "t_start" ELSE "data",
                                       !.left = d, !.val = 0, !.n = @ + 1]
        /\ m = "error" => e = [a EXCEPT !.mode = "bad"]
        /\ m \in LineMode => e = [a EXCEPT !.mode = m, !.val = d, !.n = @ + 1]
    <3> HIDE DEF e, a, m
    <3>1. m = "done" => e = [a EXCEPT !.mode = IF d = 0 THEN "t_start" ELSE "data",
                                      !.left = d, !.val = 0, !.n = @ + 1]
      BY <2>3, <2>a, FollowDone, Zenon
    <3>2. m = "error" => e = [a EXCEPT !.mode = "bad"]
      BY <2>3, <2>a, FollowError, Zenon
    <3>3. m \in LineMode => e = [a EXCEPT !.mode = m, !.val = d, !.n = @ + 1]
      BY <2>3, <2>a, FollowLine, Zenon
    <3> QED BY <3>1, <3>2, <3>3
  <2> HIDE DEF a, t, d, m, c
  <2>9. CASE m = "done"
    <3> HIDE DEF e
    <3>2. e.mode = (IF d = 0 THEN "t_start" ELSE "data") /\ e.left = d /\ e.body = a.body
      BY <2>b, <2>9, <2>2 DEF StateType
    <3>3. t.val = d
      BY <3>2, <2>4, <2>5, <2>6, <2>8
    <3>4. LineDone(p, i + 1, t)
      <4>1. After(req, p + t.n) = e /\ t.n \in 1 .. i + 1
        BY <1>0, <2>6 DEF e
      <4> QED BY <4>1, <3>2, <3>3, <2>1, <2>4 DEF LineDone
    <3> QED BY <3>4, <2>6, <2>9 DEF LineAt, t, c
  <2>10. CASE m = "error"
    <3> HIDE DEF e
    <3>2. e.mode = "bad"
      BY <2>b, <2>10, <2>2 DEF StateType
    <3>3. i + 1 \in 0 .. i + 1 /\ After(req, p + (i + 1)).mode = "bad"
      BY <3>2, <1>0 DEF e
    <3>4. LineBad(p, i + 1)
      BY <3>3, Zenon DEF LineBad
    <3> QED BY <3>4, <2>6, <2>10 DEF LineAt, t, c
  <2>11. CASE m \in LineMode
    <3> HIDE DEF e
    <3>2. e.mode = m /\ e.val = d /\ e.body = a.body
      BY <2>b, <2>11, <2>2 DEF StateType
    <3>3. t.val = d
      BY <3>2, <2>4, <2>5, <2>6, <2>8
    <3>4. LineOpen(p, i + 1, t)
      <4>1. After(req, p + (i + 1)) = e
        BY <1>0 DEF e
      <4> QED BY <4>1, <3>2, <3>3, <2>1, <2>6 DEF LineOpen
    <3> QED BY <3>4, <2>6, <2>11 DEF LineAt, t, c
  <2> QED BY <2>7, <2>9, <2>10, <2>11
<1> QED BY <1>0, <1>1, <1>2 DEF ChunkType

\* The scan of a chunk line comes to what the stream comes to there.
LEMMA ChunkLineReads ==
    ASSUME TypeOK, Window, Inside, InLine, req.chunked
    PROVE  ChunkLine \in LineAt(read - start, write - read)
<1> DEFINE p == read - start
           L == write - read
           U == Unread(read)
           first == [cs |-> IF pending = 0 THEN "previous" ELSE "size", val |-> 0, n |-> 0]
           I == [i \in 0 .. L |-> {S \in SUBSET LineAt(p, i) : S # {}}]
<1>0. /\ req \in Requests /\ read \in Nat /\ start \in Nat /\ write \in Nat /\ read <= write
      /\ p \in Nat /\ p + L <= Len(req.wire) /\ Len(req.wire) \in Nat /\ p \in 0 .. Len(req.wire)
  <2>1. /\ start \in Nat /\ arrived \in Nat /\ read \in Nat /\ write \in Nat /\ req \in Requests
        /\ Len(req.wire) \in Nat /\ arrived <= Len(req.wire) /\ arrived = write - start
        /\ start <= read /\ read <= write
    BY Bounds
  <2> QED BY <2>1
<1>1. L \in Nat /\ Len(U) = L /\ \A i \in 1 .. L : U[i] = req.wire[p + i]
  <2>1. read \in read .. write
    BY <1>0
  <2> QED BY <2>1, UnreadIs
<1> HIDE DEF U, p, L
<1>2. first \in LineAt(p, 0)
  <2>1. /\ pending = 0 => Here.mode = "previous" /\ Here.val = 0
        /\ pending # 0 => Here.mode = "size" /\ Here.val = 0
    <3>1. Known(req, p, Here)
      BY <1>0, AfterKnown DEF Here, p
    <3>2. pending = 0 => Here.mode = Here.after /\ Here.after = "previous"
      BY <3>1 DEF Inside, Known
    <3>3. pending = 0 => Here.val = 0
      BY <3>1, <3>2 DEF Known
    <3>4. pending # 0 => pending = PENDING_INIT
      BY DEF InLine
    <3> QED BY <3>2, <3>3, <3>4 DEF Inside
  <2>2. first \in ChunkType /\ first.cs \in LineMode /\ first.n = 0 /\ first.val = 0
    BY DEF ChunkType, LineMode
  <2>3. Here = After(req, p + 0) /\ Here = After(req, p) /\ first.cs = Here.mode
    BY <1>0, <2>1 DEF Here, p
  <2> HIDE DEF first
  <2>4. LineOpen(p, 0, first)
    BY <2>1, <2>2, <2>3, Zenon DEF LineOpen
  <2> QED BY <2>2, <2>4, Zenon DEF LineAt
<1> HIDE DEF first
<1>3. {first} \in I[0]
  BY <1>1, <1>2
<1>4. ASSUME NEW i \in 1 .. L, NEW S \in I[i - 1]
      PROVE  EachChunkChar(S, U[i]) \in I[i]
  <2> DEFINE j == i - 1
  <2>1. j \in Nat /\ j + 1 = i /\ p + j + 1 = p + i /\ p + j + 1 <= Len(req.wire) /\ j \in 0 .. L
        /\ i \in 0 .. L
    BY <1>0, <1>1
  <2>2. S \subseteq LineAt(p, j) /\ S # {}
    BY <2>1
  <2> HIDE DEF I, j
  <2>3. \A s \in LineAt(p, j) : ChunkChar(s, req.wire[p + j + 1]) \in LineAt(p, j + 1)
    BY <1>0, <2>1, ChunkCharReads
  <2>4. \A s \in S : ChunkChar(s, U[i]) \in LineAt(p, i)
    BY <1>1, <2>1, <2>2, <2>3
  <2>5. EachChunkChar(S, U[i]) \in SUBSET LineAt(p, i) /\ EachChunkChar(S, U[i]) # {}
    BY <2>2, <2>4, Zenon DEF EachChunkChar
  <2> QED BY <2>1, <2>5, Zenon DEF I
<1>5. Scans!Fold({first}, U) \in I[L]
  <2> HIDE DEF I
  <2>1. \A i \in 1 .. Len(U) : \A S \in I[i - 1] : EachChunkChar(S, U[i]) \in I[i]
    BY <1>1, <1>4
  <2> QED BY <1>1, <1>3, <2>1, Scans!FoldInvariant
<1>6. Scan!Fold({first}, U) = Scans!Fold({first}, U)
  BY DEF Scan!Fold, Scans!Fold
<1>7. ChunkLine = CHOOSE s \in Scan!Fold({first}, U) : TRUE
  BY Zenon DEF ChunkLine, first, U
<1>8. Scan!Fold({first}, U) \subseteq LineAt(p, L) /\ Scan!Fold({first}, U) # {}
  <2>1. L \in 0 .. L
    BY <1>1
  <2>2. Scan!Fold({first}, U) \in {S \in SUBSET LineAt(p, L) : S # {}}
    BY <1>5, <1>6, <2>1, Zenon
  <2> QED BY <2>2, Zenon
<1>9. ChunkLine \in Scan!Fold({first}, U)
  BY <1>7, <1>8, Zenon
<1> QED BY <1>8, <1>9 DEF p, L

---------------------------------------------------------------------------
(* The trailers                                                            *)

TrailerType == [st : {"line", "cr", "nl", "error"}, nl : 0 .. 2, m : Nat, b : Nat]

\* The characters are different.
LEMMA Characters == CR # LF
BY DEF CR, LF

\* The cases of a step of the parser.
LEMMA TrailerCases ==
    ASSUME NEW s, ~ParserOver(s), NEW c
    PROVE  LET t == TrailerChar(s, c)
           IN  /\ t = [st |-> t.st, nl |-> t.nl, m |-> s.m + 1, b |-> t.b]
               /\ t.b = IF s.st = "cr" THEN s.b ELSE s.m
               /\ c = LF => t.st = "nl" /\ t.nl = s.nl + 1
               /\ s.st = "cr" /\ c # LF => t.st = "error" /\ t.nl = s.nl
               /\ s.st # "cr" /\ c = CR => t.st = "cr" /\ t.nl = s.nl
               /\ s.st # "cr" /\ c \notin {CR, LF} =>
                     t.st = "line" /\ t.nl = IF s.st = "nl" THEN 0 ELSE s.nl
<1> DEFINE t == TrailerChar(s, c)
           x == CASE c = LF -> "nl"
                  [] s.st = "cr" /\ c # LF -> "error"
                  [] s.st # "cr" /\ c = CR -> "cr"
                  [] OTHER -> "line"
           y == IF c = LF THEN s.nl + 1 ELSE IF s.st = "nl" /\ c # CR THEN 0 ELSE s.nl
           z == IF s.st = "cr" THEN s.b ELSE s.m
<1>1. t = [st |-> x, nl |-> y, m |-> s.m + 1, b |-> z]
  BY Zenon DEF TrailerChar
<1>2. c = LF => x = "nl"
  BY Zenon, Characters
<1>3. s.st = "cr" /\ c # LF => x = "error"
  BY Zenon
<1>4. s.st # "cr" /\ c = CR => x = "cr"
  BY Zenon, Characters
<1>5. s.st # "cr" /\ c \notin {CR, LF} => x = "line"
  BY Zenon
<1> HIDE DEF x, t
<1>6. t.st = x /\ t.nl = y /\ t.m = s.m + 1 /\ t.b = z
  BY <1>1
<1>7. /\ c = LF => y = s.nl + 1
      /\ s.st = "cr" /\ c # LF => y = s.nl
      /\ s.st # "cr" /\ c = CR => y = s.nl
      /\ s.st # "cr" /\ c \notin {CR, LF} => y = IF s.st = "nl" THEN 0 ELSE s.nl
  BY Characters
<1> HIDE DEF y, z
<1>8. t = [st |-> t.st, nl |-> t.nl, m |-> s.m + 1, b |-> t.b]
  BY <1>1, <1>6
<1> QED BY <1>2, <1>3, <1>4, <1>5, <1>6, <1>7, <1>8 DEF t, z

\* What the parser of the trailers has come to, i characters after state r.
TrailerAt(r, i) ==
    {s \in TrailerType :
        /\ r.m <= s.m /\ s.m <= r.m + i /\ r.b <= s.b /\ s.b <= s.m
        /\ ~ParserOver(s) => s.m = r.m + i
        /\ s.m <= s.b + 2 /\ (s.st = "cr" => s.m <= s.b + 1)
        /\ req.sound /\ Trailed(req) /\ Synced(r) => Synced(s)}

\* The cases of the stream.
LEMMA TailCases ==
    ASSUME NEW m, NEW c
    PROVE  /\ c = LF /\ m \in {"t_line", "t_cr"} => TailState(m, c) = "t_nl"
           /\ c = LF /\ m \in {"t_start", "t_nl", "t_nlcr"} => TailState(m, c) = "over"
           /\ c # LF /\ m \in {"t_cr", "t_nlcr"} => TailState(m, c) = "t_bad"
           /\ c = CR /\ m = "t_line" => TailState(m, c) = "t_cr"
           /\ c = CR /\ m \in {"t_start", "t_nl"} => TailState(m, c) = "t_nlcr"
           /\ c \notin {CR, LF} /\ m \in {"t_start", "t_line", "t_nl"} => TailState(m, c) = "t_line"
<1>1. c = LF /\ m \in {"t_line", "t_cr"} => TailState(m, c) = "t_nl"
  BY Characters, Zenon DEF TailState
<1>2. c = LF /\ m \in {"t_start", "t_nl", "t_nlcr"} => TailState(m, c) = "over"
  BY Characters, Zenon DEF TailState
<1>3. c # LF /\ m \in {"t_cr", "t_nlcr"} => TailState(m, c) = "t_bad"
  BY Zenon DEF TailState
<1>4. c = CR /\ m = "t_line" => TailState(m, c) = "t_cr"
  BY Characters, Zenon DEF TailState
<1>5. c = CR /\ m \in {"t_start", "t_nl"} => TailState(m, c) = "t_nlcr"
  BY Characters, Zenon DEF TailState
<1>6. c \notin {CR, LF} /\ m \in {"t_start", "t_line", "t_nl"} => TailState(m, c) = "t_line"
  BY Zenon DEF TailState
<1> QED BY <1>1, <1>2, <1>3, <1>4, <1>5, <1>6

\* The parser goes on as the stream does.
LEMMA MatchesNext ==
    ASSUME NEW s, s.nl \in {0, 1}, s.st \in {"line", "cr", "nl"}, NEW m, Matches(s, m), NEW c,
           m = "t_start" => c \notin {CR, LF}, ~ParserOver(s)
    PROVE  /\ m \in TailMode \ {"over", "t_bad"}
           /\ Matches(TrailerChar(s, c), TailState(m, c))
<1> DEFINE t == TrailerChar(s, c)
           k == TailState(m, c)
<1>1. /\ c = LF => t.st = "nl" /\ t.nl = s.nl + 1
      /\ s.st = "cr" /\ c # LF => t.st = "error" /\ t.nl = s.nl
      /\ s.st # "cr" /\ c = CR => t.st = "cr" /\ t.nl = s.nl
      /\ s.st # "cr" /\ c \notin {CR, LF} =>
            t.st = "line" /\ t.nl = IF s.st = "nl" THEN 0 ELSE s.nl
  BY TrailerCases
<1>2. \/ s.nl = 0 /\ s.st = "line" /\ m \in {"t_start", "t_line"}
      \/ s.nl = 0 /\ s.st = "cr" /\ m = "t_cr"
      \/ s.nl = 1 /\ s.st = "nl" /\ m = "t_nl"
      \/ s.nl = 1 /\ s.st = "cr" /\ m = "t_nlcr"
  BY DEF Matches
<1>3. m \in TailMode \ {"over", "t_bad"}
  BY <1>2 DEF TailMode
<1>4. /\ c = LF /\ m \in {"t_line", "t_cr"} => k = "t_nl"
      /\ c = LF /\ m \in {"t_start", "t_nl", "t_nlcr"} => k = "over"
      /\ c # LF /\ m \in {"t_cr", "t_nlcr"} => k = "t_bad"
      /\ c = CR /\ m = "t_line" => k = "t_cr"
      /\ c = CR /\ m \in {"t_start", "t_nl"} => k = "t_nlcr"
      /\ c \notin {CR, LF} /\ m \in {"t_start", "t_line", "t_nl"} => k = "t_line"
  BY TailCases
<1> HIDE DEF t, k
<1>5. CASE c = LF
  BY <1>1, <1>2, <1>3, <1>4, <1>5 DEF Matches, t, k
<1>6. CASE c = CR
  BY <1>1, <1>2, <1>3, <1>4, <1>6, Characters DEF Matches, t, k
<1>7. CASE c \notin {CR, LF}
  BY <1>1, <1>2, <1>3, <1>4, <1>7 DEF Matches, t, k
<1> QED BY <1>5, <1>6, <1>7

\* One more character, in step with the stream.
LEMMA TrailerSynced ==
    ASSUME req \in Requests, start \in Nat, NEW s \in TrailerType, ~ParserOver(s), start <= s.m,
           s.m - start + 1 <= Len(req.wire), Trailed(req), Synced(s)
    PROVE  Synced(TrailerChar(s, req.wire[s.m - start + 1]))
<1> DEFINE p == s.m - start
           c == req.wire[p + 1]
           t == TrailerChar(s, c)
           a == After(req, p)
           e == After(req, p + 1)
<1>0. /\ p \in Nat /\ Len(req.wire) \in Nat /\ p + 1 \in 1 .. Len(req.wire) /\ p \in 0 .. Len(req.wire)
      /\ (p + 1) - 1 = p /\ s.m + 1 - start = p + 1
  BY RequestIs DEF TrailerType
<1>1. Matches(s, a.mode) /\ a.n = p
  BY DEF Synced
<1>2. a \in StateType
  BY <1>0, AfterKnown DEF Known
<1>3. e = Follow(a, c)
  BY <1>0, AfterNext
<1>4. a.mode = "t_start" => c \notin {CR, LF}
  BY <1>0 DEF Trailed
<1>5. s.nl \in {0, 1} /\ s.st \in {"line", "cr", "nl"}
  BY DEF ParserOver, ParserDone, TrailerType
<1>6. t.m = s.m + 1
  <2>1. t = [st |-> t.st, nl |-> t.nl, m |-> s.m + 1, b |-> t.b]
    BY TrailerCases
  <2> HIDE DEF t
  <2> QED BY <2>1
<1> DEFINE m == TailState(a.mode, c)
<1> HIDE DEF a, e, c, p
<1>7. a.mode \in TailMode \ {"over", "t_bad"} /\ Matches(t, m)
  BY <1>1, <1>4, <1>5, MatchesNext
<1>8. e = [a EXCEPT !.mode = m, !.n = @ + 1]
  BY <1>3, <1>7, FollowTail, Zenon
<1> HIDE DEF m, t
<1>9. e.mode = m /\ e.n = p + 1
  BY <1>1, <1>2, <1>8 DEF StateType
<1>10. t.m - start = p + 1
  <2>1. s.m \in Nat
    BY DEF TrailerType
  <2> QED BY <1>6, <2>1 DEF p
<1>11. Synced(t)
  BY <1>7, <1>9, <1>10 DEF Synced, e
<1> QED BY <1>11 DEF t, c, p

\* One more character of the trailers.
LEMMA TrailerCharReads ==
    ASSUME req \in Requests, start \in Nat, NEW r \in TrailerType, start <= r.m, NEW i \in Nat,
           r.m - start + i + 1 <= Len(req.wire), NEW s \in TrailerAt(r, i)
    PROVE  TrailerChar(s, req.wire[r.m - start + i + 1]) \in TrailerAt(r, i + 1)
<1> DEFINE c == req.wire[r.m - start + i + 1]
           t == TrailerChar(s, c)
<1>0. /\ s \in TrailerType /\ r.m <= s.m /\ s.m <= r.m + i /\ r.b <= s.b /\ s.b <= s.m
      /\ ~ParserOver(s) => s.m = r.m + i
      /\ s.m <= s.b + 2 /\ (s.st = "cr" => s.m <= s.b + 1)
      /\ req.sound /\ Trailed(req) /\ Synced(r) => Synced(s)
  BY Zenon DEF TrailerAt
<1>a. /\ s.m \in Nat /\ s.b \in Nat /\ s.nl \in 0 .. 2 /\ r.m \in Nat /\ r.b \in Nat
      /\ s.st \in {"line", "cr", "nl", "error"}
  BY <1>0 DEF TrailerType
<1>1. CASE ParserOver(s)
  <2>1. t = s
    BY <1>1 DEF TrailerChar
  <2>2. s.m <= r.m + (i + 1)
    BY <1>0, <1>a
  <2> HIDE DEF t
  <2>3. s \in TrailerAt(r, i + 1)
    BY <1>0, <1>1, <2>2, Zenon DEF TrailerAt
  <2> QED BY <2>1, <2>3 DEF t, c
<1>2. CASE ~ParserOver(s)
  <2>1. /\ t = [st |-> t.st, nl |-> t.nl, m |-> s.m + 1, b |-> t.b]
        /\ t.b = IF s.st = "cr" THEN s.b ELSE s.m
        /\ c = LF => t.st = "nl" /\ t.nl = s.nl + 1
        /\ s.st = "cr" /\ c # LF => t.st = "error" /\ t.nl = s.nl
        /\ s.st # "cr" /\ c = CR => t.st = "cr" /\ t.nl = s.nl
        /\ s.st # "cr" /\ c \notin {CR, LF} =>
              t.st = "line" /\ t.nl = IF s.st = "nl" THEN 0 ELSE s.nl
    BY <1>2, TrailerCases
  <2>2. s.nl \in {0, 1}
    BY <1>2, <1>a DEF ParserOver, ParserDone
  <2>3. s.m = r.m + i
    BY <1>0, <1>2
  <2>4. req.sound /\ Trailed(req) /\ Synced(r) => Synced(t)
    <3>1. start <= s.m /\ s.m - start + 1 = r.m - start + i + 1
      BY <2>3, <1>a
    <3> HIDE DEF t
    <3>2. req.sound /\ Trailed(req) /\ Synced(r) => Synced(TrailerChar(s, req.wire[s.m - start + 1]))
      BY <1>0, <1>2, <3>1, TrailerSynced
    <3> QED BY <3>1, <3>2 DEF t
  <2> HIDE DEF t, c
  <2>5. t.m = s.m + 1
    BY <2>1
  <2>6. t.st \in {"line", "cr", "nl", "error"} /\ t.nl \in 0 .. 2 /\ t.b \in Nat
    BY <2>1, <2>2, <1>a
  <2>7. t \in TrailerType
    <3>1. s.m + 1 \in Nat
      BY <1>a
    <3> QED BY <2>1, <2>6, <3>1 DEF TrailerType
  <2>8. /\ r.m <= t.m /\ t.m <= r.m + (i + 1) /\ r.b <= t.b /\ t.b <= t.m /\ t.m = r.m + (i + 1)
        /\ t.m <= t.b + 2
    <3>1. (t.b = s.b /\ s.m <= s.b + 1) \/ t.b = s.m
      <4>1. s.st = "cr" => s.m <= s.b + 1
        BY <1>0
      <4>2. t.b = IF s.st = "cr" THEN s.b ELSE s.m
        BY <2>1
      <4> QED BY <4>1, <4>2, Zenon
    <3>2. r.b <= s.b /\ s.b <= s.m /\ r.m <= s.m
      BY <1>0
    <3>3. s.m \in Nat /\ s.b \in Nat /\ t.b \in Nat /\ r.m \in Nat /\ r.b \in Nat
      BY <1>a, <2>6
    <3>4. s.m <= s.b + 2
      BY <1>0
    <3>5. /\ r.m <= s.m + 1 /\ s.m + 1 <= r.m + (i + 1) /\ r.b <= t.b /\ t.b <= s.m + 1
          /\ s.m + 1 = r.m + (i + 1) /\ s.m + 1 <= t.b + 2
      <4> DEFINE q == r.m
                 k == r.b
                 x == s.m
                 y == s.b
                 z == t.b
      <4>1. /\ x \in Nat /\ y \in Nat /\ z \in Nat /\ q \in Nat /\ k \in Nat /\ i \in Nat
            /\ x = q + i /\ k <= y /\ y <= x /\ ((z = y /\ x <= y + 1) \/ z = x)
        BY <2>3, <3>1, <3>2, <3>3
      <4> HIDE DEF q, k, x, y, z
      <4>2. /\ q <= x + 1 /\ x + 1 <= q + (i + 1) /\ k <= z /\ z <= x + 1
            /\ x + 1 = q + (i + 1) /\ x + 1 <= z + 2
        BY <4>1
      <4> QED BY <4>2 DEF q, k, x, y, z
    <3> QED BY <2>5, <3>5, Zenon
  <2>9. t.st = "cr" => t.m <= t.b + 1
    <3>1. t.st = "cr" => s.st # "cr"
      BY <2>1
    <3> QED BY <1>a, <2>1, <2>5, <3>1
  <2>10. t \in TrailerAt(r, i + 1)
    BY <2>4, <2>7, <2>8, <2>9, Zenon DEF TrailerAt
  <2> QED BY <2>10 DEF t, c
<1> QED BY <1>1, <1>2

\* The parser comes to what the stream comes to.
LEMMA TrailersRead ==
    ASSUME TypeOK, Window, Where, at = "trailer"
    PROVE  Trailers \in TrailerAt(rqs, write - rqs.m)
<1> DEFINE p == rqs.m - start
           L == write - rqs.m
           U == Unread(rqs.m)
           I == [i \in 0 .. L |-> {S \in SUBSET TrailerAt(rqs, i) : S # {}}]
<1>a. rqs \in TrailerType
  <2>1. rqs \in [st : {"line", "cr", "nl", "error"}, nl : 0 .. 2, m : 0 .. Modulus - 1, b : 0 .. Modulus - 1]
    BY DEF TypeOK
  <2> QED BY <2>1, Sizes DEF TrailerType
<1>b. Parser(rqs) /\ rqs.b = read /\ rqs.m <= write
  BY DEF Where, InTrailers
<1>0. /\ req \in Requests /\ start \in Nat /\ start <= rqs.m /\ p \in Nat /\ L \in Nat
      /\ p + L <= Len(req.wire) /\ Len(req.wire) \in Nat /\ rqs.m \in read .. write
  <2>1. /\ start \in Nat /\ arrived \in Nat /\ read \in Nat /\ write \in Nat /\ req \in Requests
        /\ Len(req.wire) \in Nat /\ arrived <= Len(req.wire) /\ arrived = write - start
        /\ start <= read /\ read <= write
    BY Bounds
  <2>2. rqs.m \in Nat /\ rqs.b <= rqs.m
    BY <1>a, <1>b DEF Parser, TrailerType
  <2> QED BY <1>b, <2>1, <2>2
<1>1. Len(U) = L /\ \A i \in 1 .. L : U[i] = req.wire[p + i]
  BY <1>0, UnreadIs
<1> HIDE DEF U, L
<1>2. rqs \in TrailerAt(rqs, 0)
  <2>1. /\ rqs.m <= rqs.m /\ rqs.m <= rqs.m + 0 /\ rqs.b <= rqs.b /\ rqs.b <= rqs.m
        /\ rqs.m = rqs.m + 0 /\ rqs.m <= rqs.b + 2 /\ (rqs.st = "cr" => rqs.m <= rqs.b + 1)
    BY <1>a, <1>b DEF Parser, TrailerType
  <2> QED BY <1>a, <2>1, Zenon DEF TrailerAt
<1>3. {rqs} \in I[0]
  BY <1>0, <1>2
<1>4. ASSUME NEW i \in 1 .. L, NEW S \in I[i - 1]
      PROVE  EachTrailerChar(S, U[i]) \in I[i]
  <2> DEFINE j == i - 1
  <2>1. j \in Nat /\ j + 1 = i /\ p + j + 1 = p + i /\ p + j + 1 <= Len(req.wire) /\ j \in 0 .. L
        /\ i \in 0 .. L
    <3> HIDE DEF p
    <3> QED BY <1>0
  <2>2. S \subseteq TrailerAt(rqs, j) /\ S # {}
    BY <2>1
  <2> HIDE DEF I, j
  <2>3. \A s \in TrailerAt(rqs, j) : TrailerChar(s, req.wire[p + j + 1]) \in TrailerAt(rqs, j + 1)
    BY <1>0, <1>a, <2>1, TrailerCharReads
  <2> HIDE DEF p
  <2>4. \A s \in S : TrailerChar(s, U[i]) \in TrailerAt(rqs, i)
    BY <1>1, <2>1, <2>2, <2>3
  <2>5. EachTrailerChar(S, U[i]) \in SUBSET TrailerAt(rqs, i) /\ EachTrailerChar(S, U[i]) # {}
    BY <2>2, <2>4, Zenon DEF EachTrailerChar
  <2> QED BY <2>1, <2>5, Zenon DEF I
<1>5. Parses!Fold({rqs}, U) \in I[L]
  <2> HIDE DEF I
  <2>1. \A i \in 1 .. Len(U) : \A S \in I[i - 1] : EachTrailerChar(S, U[i]) \in I[i]
    BY <1>1, <1>4
  <2>2. Len(U) \in Nat
    BY <1>0, <1>1
  <2> QED BY <1>1, <1>3, <2>1, <2>2, Parses!FoldInvariant
<1>6. Parse!Fold({rqs}, U) = Parses!Fold({rqs}, U)
  BY DEF Parse!Fold, Parses!Fold
<1>7. Trailers = CHOOSE s \in Parse!Fold({rqs}, U) : TRUE
  BY Zenon DEF Trailers, U
<1>8. Parse!Fold({rqs}, U) \subseteq TrailerAt(rqs, L) /\ Parse!Fold({rqs}, U) # {}
  <2>1. L \in 0 .. L
    BY <1>0
  <2>2. Parse!Fold({rqs}, U) \in {S \in SUBSET TrailerAt(rqs, L) : S # {}}
    BY <1>5, <1>6, <2>1, Zenon
  <2> QED BY <2>2, Zenon
<1>9. Trailers \in Parse!Fold({rqs}, U)
  BY <1>7, <1>8, Zenon
<1> QED BY <1>8, <1>9 DEF L

---------------------------------------------------------------------------
(* The steps                                                               *)

\* Where the ring stands in the stream.
LEMMA HereIs ==
    ASSUME TypeOK, Window
    PROVE  /\ read - start \in 0 .. Len(req.wire) /\ read - start \in Nat /\ Len(req.wire) \in Nat
           /\ req \in Requests /\ Here = After(req, read - start)
           /\ Here \in StateType /\ Here.mode \in Modes /\ Here.left \in Nat /\ Here.n \in Nat
           /\ Here.body \in Seq(Nat) /\ Here.after \in {"previous", "over"}
           /\ Known(req, read - start, Here)
           /\ Here.left < Modulus \div 2
<1> DEFINE p == read - start
<1>1. /\ req \in Requests /\ Len(req.wire) \in Nat /\ arrived \in Nat /\ arrived <= Len(req.wire)
      /\ p \in 0 .. arrived
  BY Bounds
<1> HIDE DEF p
<1>2. p \in 0 .. Len(req.wire) /\ p \in Nat
  BY <1>1
<1>3. Known(req, p, After(req, p)) /\ After(req, p).left < Modulus \div 2
  BY <1>1, <1>2, AfterKnown, LaidIs
<1>4. Here = After(req, p)
  BY DEF Here, p
<1>5. Known(req, p, Here) /\ Here.left < Modulus \div 2
  BY <1>3, <1>4
<1>6. Here \in StateType
  BY <1>5 DEF Known
<1>7. /\ Here.mode \in Modes /\ Here.left \in Nat /\ Here.n \in Nat
      /\ Here.body \in Seq(Nat) /\ Here.after \in {"previous", "over"}
  BY <1>6 DEF StateType
<1> QED BY <1>1, <1>2, <1>4, <1>5, <1>6, <1>7 DEF p

\* After the payload, it has all been read.
LEMMA TailLater ==
    ASSUME NEW rq \in Requests, NEW i \in 0 .. Len(rq.wire), NEW j \in i .. Len(rq.wire),
           After(rq, i).mode \in TailMode
    PROVE  /\ After(rq, j).mode \in TailMode /\ After(rq, j).body = rq.body
           /\ After(rq, i).body = rq.body
<1> DEFINE N == Len(rq.wire)
           x == After(rq, i)
           y == After(rq, j)
           z == After(rq, N)
<1>0. N \in Nat /\ i \in 0 .. N /\ j \in i .. N /\ N \in i .. N
  BY RequestIs
<1>1. Later(x, y, j - i)
  BY <1>0, AfterLater
<1>2. Later(x, z, N - i)
  BY <1>0, AfterLater
<1>3. z.mode \in TailMode => z.body = rq.body
  BY RequestIs, Zenon DEF Laid
<1> HIDE DEF x, y, z
<1> QED BY <1>1, <1>2, <1>3 DEF Later, x, y

\* A sound request is read to its end, whatever is read next.
LEMMA SoundIs ==
    ASSUME NEW rq \in Requests, rq.sound, NEW i \in 0 .. Len(rq.wire)
    PROVE  /\ After(rq, i).mode \notin {"bad", "t_bad"}
           /\ After(rq, i).n <= rq.end
           /\ After(rq, i).mode = "over" => After(rq, i).n = rq.end
<1> DEFINE N == Len(rq.wire)
           x == After(rq, i)
           z == After(rq, N)
<1>0. N \in Nat /\ i \in 0 .. N /\ N \in i .. N
  BY RequestIs
<1>2. Later(x, z, N - i)
  BY <1>0, AfterLater
<1>3. z.mode = "over" /\ z.n = rq.end
  BY RequestIs, Zenon DEF Laid
<1> HIDE DEF x, z
<1> QED BY <1>2, <1>3 DEF Later, x

\* What NextBegins takes for granted: a ring of more than two bytes, and trailers
\* in the requests.
Granted == Size > 2 /\ \A rq \in Requests : rq.sound => Trailed(rq)

\* A step of the program keeps what is known.
Kept == TypeOK' /\ (~broken' => Good' /\ (Granted /\ Placed => Placed'))

\* The types of what has none in the ring.
LEMMA Types ==
    ASSUME TypeOK
    PROVE  /\ pending \in Int /\ buf \in Nat /\ ended \in BOOLEAN /\ failed \in BOOLEAN
           /\ delivered \in Seq(Nat)
           /\ at \in {"app", "read", "readfd", "trailer", "trailerfd", "done"}
           /\ Modulus \in Nat /\ Modulus > 2
<1>1. Modulus \in Nat /\ Modulus > 2
  BY Sizes
<1>2. /\ pending \in -Modulus .. Modulus /\ buf \in Counts \cup {0}
      /\ delivered \in Seq(Nat) /\ ended \in BOOLEAN /\ failed \in BOOLEAN
      /\ at \in {"app", "read", "readfd", "trailer", "trailerfd", "done"}
  BY DEF TypeOK
<1>3. buf \in Nat
  BY <1>2, HttpInAssumption
<1> QED BY <1>1, <1>2, <1>3

\* minute_httpd_in_read comes back.
LEMMA ReturnIs ==
    ASSUME TypeOK, NEW r \in Int, Return(r)
    PROVE  /\ at' \in {"app", "read", "done"} /\ ended' \in BOOLEAN /\ failed' \in BOOLEAN
           /\ at' = "app" => buf > 0
           /\ at' = "read" => r > 0
           /\ at' = "done" => ~(r > 0)
           /\ ended' => ended \/ (buf > 0 /\ r = 0)
           /\ failed' <=> failed \/ r < 0
BY Types DEF Return

\* The application reads, or has had enough.
LEMMA AppKeeps ==
    ASSUME TypeOK, Good, ~broken, App
    PROVE  Kept
<1>1. /\ UNCHANGED <<req, ring, pending, rqs, ended, failed, start, arrived, delivered, faults>>
      /\ at = "app" /\ at' = "read" /\ buf' \in Counts \cup {0} /\ calls' \in 0 .. MaxCalls
  <2>1. ASSUME NEW count \in Counts, AppRead(count)
        PROVE  /\ UNCHANGED <<req, ring, pending, rqs, ended, failed, start, arrived, delivered, faults>>
               /\ at = "app" /\ at' = "read" /\ buf' \in Counts \cup {0} /\ calls' \in 0 .. MaxCalls
    <3>1. calls \in 0 .. MaxCalls /\ MaxCalls \in Nat
      BY HttpInAssumption DEF TypeOK
    <3>2. calls < MaxCalls /\ calls' = calls + 1
      BY <2>1 DEF AppRead
    <3>3. calls' \in 0 .. MaxCalls
      BY <3>1, <3>2
    <3> QED BY <2>1, <3>3 DEF AppRead, Start
  <2>2. ASSUME AppDone
        PROVE  /\ UNCHANGED <<req, ring, pending, rqs, ended, failed, start, arrived, delivered, faults>>
               /\ at = "app" /\ at' = "read" /\ buf' \in Counts \cup {0} /\ calls' \in 0 .. MaxCalls
    BY <2>2 DEF AppDone, Start, history, TypeOK
  <2> QED BY <2>1, <2>2 DEF App
<1>2. TypeOK'
  <2>1. Ring!TypeOK'
    BY <1>1, Zenon DEF TypeOK, Ring!TypeOK, ring
  <2> QED BY <1>1, <2>1 DEF TypeOK
<1>3. Here' = Here
  BY <1>1 DEF Here, ring
<1>4. Window'
  BY <1>1 DEF Good, Window, ring
<1>5. Inside'
  BY <1>1, <1>3 DEF Good, Inside, ring
<1>6. Given'
  BY <1>1, <1>3 DEF Good, Given, ring
<1>7. Where'
  BY <1>1, <1>3 DEF Good, Where, InTrailers, ring
<1>8. Placed => Placed'
  BY <1>1, <1>3 DEF Placed, InTrailers, ring
<1> QED BY <1>2, <1>4, <1>5, <1>6, <1>7, <1>8 DEF Kept, Good

\* The end is told again.
LEMMA OverKeeps ==
    ASSUME TypeOK, Good, ~broken, Over
    PROVE  Kept
<1>1. /\ UNCHANGED <<req, ring, pending, rqs, start, arrived, delivered, calls, faults, buf>>
      /\ at = "read" /\ pending <= PENDING_EOF /\ Return(0)
  BY DEF Over, Reading
<1>2. /\ at' \in {"app", "read", "done"} /\ ended' \in BOOLEAN /\ failed' \in BOOLEAN
      /\ at' = "app" => buf > 0
      /\ at' # "read"
      /\ ended' => ended \/ buf > 0
      /\ failed' <=> failed
  BY <1>1, ReturnIs
<1>3. TypeOK'
  <2>1. Ring!TypeOK'
    BY <1>1, Zenon DEF TypeOK, Ring!TypeOK, ring
  <2> QED BY <1>1, <1>2, <2>1 DEF TypeOK
<1>4. Here' = Here
  BY <1>1 DEF Here, ring
<1>5. Window'
  BY <1>1 DEF Good, Window, ring
<1>6. Inside'
  BY <1>1, <1>2, <1>4 DEF Good, Inside, ring
<1>7. pending = PENDING_EOF \/ pending = PENDING_ERROR
  BY <1>1, Types DEF Good, Inside, PENDING_EOF, PENDING_ERROR
<1>8. Given'
  <2>1. ended' => (delivered = req.body \/ eof \/ failed)
    <3>1. CASE ended
      BY <3>1 DEF Good, Given
    <3>2. CASE buf > 0 /\ pending = PENDING_EOF /\ ~eof
      <4>1. Here.mode \in TailMode /\ delivered = Here.body
        BY <3>2 DEF Good, Inside, Given
      <4>2. Here.body = req.body
        <5>1. Here = After(req, read - start) /\ read - start \in 0 .. Len(req.wire)
              /\ req \in Requests /\ read - start \in (read - start) .. Len(req.wire)
          BY HereIs DEF Good
        <5> QED BY <4>1, <5>1, TailLater
      <4> QED BY <4>1, <4>2
    <3>3. CASE pending = PENDING_ERROR
      BY <3>3 DEF Good, Inside
    <3> QED BY <1>2, <1>7, <3>1, <3>2, <3>3
  <2> QED BY <1>1, <1>2, <1>4, <2>1 DEF Good, Given, ring
<1>9. Where'
  BY <1>2 DEF Where, InTrailers
<1>10. Placed => Placed'
  BY <1>1, <1>2, <1>4, <1>7 DEF Placed, InTrailers, ring
<1> QED BY <1>3, <1>5, <1>6, <1>8, <1>9, <1>10 DEF Kept, Good

\* The payload is not chunked, and is over.
LEMMA PlainKeeps ==
    ASSUME TypeOK, Good, ~broken, Plain
    PROVE  Kept
<1>1. /\ UNCHANGED <<req, ring, rqs, start, arrived, delivered, calls, faults, buf>>
      /\ at = "read" /\ InLine /\ ~req.chunked /\ pending' = PENDING_EOF /\ Return(0)
  BY DEF Plain, Reading
<1>2. /\ at' \in {"app", "read", "done"} /\ ended' \in BOOLEAN /\ failed' \in BOOLEAN
      /\ at' = "app" => buf > 0
      /\ at' # "read"
      /\ ended' => ended \/ buf > 0
      /\ failed' <=> failed
  BY <1>1, ReturnIs
<1>3. TypeOK'
  <2>1. Ring!TypeOK'
    BY <1>1, Zenon DEF TypeOK, Ring!TypeOK, ring
  <2>2. pending' \in -Modulus .. Modulus
    BY <1>1, Types DEF PENDING_EOF
  <2> QED BY <1>1, <1>2, <2>1, <2>2 DEF TypeOK
<1>4. Here' = Here
  BY <1>1 DEF Here, ring
<1>5. Window'
  BY <1>1 DEF Good, Window, ring
<1>6. Here.mode = "over"
  <2>1. pending = 0
    BY <1>1 DEF InLine, Good, Inside
  <2>2. Here.mode = Here.after
    BY <2>1 DEF Good, Inside
  <2>3. Here.after = "over"
    BY <1>1, HereIs DEF Good, Known
  <2> QED BY <2>2, <2>3
<1>7. Here.mode \in TailMode
  BY <1>6 DEF TailMode
<1>8. Inside'
  BY <1>1, <1>4, <1>7 DEF Inside, PENDING_EOF, PENDING_INIT, PENDING_ERROR
<1>9. Given'
  <2>1. ended' => (delivered = req.body \/ eof \/ failed)
    <3>1. CASE ended
      BY <3>1 DEF Good, Given
    <3>2. CASE buf > 0
      <4>1. delivered = Here.body
        BY <3>2 DEF Good, Given
      <4>2. Here.body = req.body
        <5>1. Here = After(req, read - start) /\ read - start \in 0 .. Len(req.wire)
              /\ req \in Requests /\ read - start \in (read - start) .. Len(req.wire)
          BY HereIs DEF Good
        <5> QED BY <1>7, <5>1, TailLater
      <4> QED BY <4>1, <4>2
    <3> QED BY <1>2, <3>1, <3>2
  <2>2. pending' <= PENDING_EOF
    BY <1>1 DEF PENDING_EOF
  <2> QED BY <1>1, <1>2, <1>4, <2>1, <2>2 DEF Good, Given, ring
<1>10. Where'
  BY <1>2 DEF Where, InTrailers
<1>11. Placed => Placed'
  <2>1. at \notin {"trailer", "trailerfd"} /\ PENDING_EOF # PENDING_ERROR
    BY <1>1 DEF PENDING_EOF, PENDING_ERROR
  <2> QED BY <1>1, <1>2, <1>4, <1>6, <2>1 DEF Placed, InTrailers, ring
<1> QED BY <1>3, <1>5, <1>8, <1>9, <1>10, <1>11 DEF Kept, Good

\* A chunk line that is none.
LEMMA BadLineKeeps ==
    ASSUME TypeOK, Good, ~broken, BadLine
    PROVE  Kept
<1>1. /\ UNCHANGED <<req, ring, rqs, start, arrived, delivered, calls, faults, buf>>
      /\ at = "read" /\ InLine /\ req.chunked /\ pending' = PENDING_ERROR /\ Return(-1)
      /\ ChunkLine.cs = "error"
  BY DEF BadLine, Reading
<1>2. /\ at' \in {"app", "read", "done"} /\ ended' \in BOOLEAN /\ failed' \in BOOLEAN
      /\ at' = "app" => buf > 0
      /\ at' # "read"
      /\ ended' => ended
      /\ failed'
  <2>1. -1 \in Int /\ -1 < 0 /\ -1 # 0 /\ ~(-1 > 0)
    OBVIOUS
  <2> QED BY <1>1, <2>1, ReturnIs
<1>3. TypeOK'
  <2>1. Ring!TypeOK'
    BY <1>1, Zenon DEF TypeOK, Ring!TypeOK, ring
  <2>2. pending' \in -Modulus .. Modulus
    BY <1>1, Types DEF PENDING_ERROR
  <2> QED BY <1>1, <1>2, <2>1, <2>2 DEF TypeOK
<1>4. Here' = Here
  BY <1>1 DEF Here, ring
<1>5. Window'
  BY <1>1 DEF Good, Window, ring
<1>6. Inside'
  BY <1>1, <1>2, <1>4 DEF Inside, PENDING_EOF, PENDING_INIT, PENDING_ERROR
<1>7. Given'
  <2>1. pending' <= PENDING_EOF
    BY <1>1 DEF PENDING_EOF, PENDING_ERROR
  <2> QED BY <1>1, <1>2, <1>4, <2>1 DEF Good, Given, ring
<1>8. Where'
  BY <1>2 DEF Where, InTrailers
<1>9. ~req.sound
  <2>0. ChunkLine \in LineAt(read - start, write - read)
    BY <1>1, ChunkLineReads DEF Good
  <2>1. LineBad(read - start, write - read)
    <3>1. ChunkLine.cs \notin LineMode \cup {"done"}
      BY <1>1 DEF LineMode
    <3> QED BY <2>0, <3>1, Zenon DEF LineAt
  <2>2. PICK j \in 0 .. write - read : After(req, read - start + j).mode = "bad"
    BY <2>1, Zenon DEF LineBad
  <2>3. read - start + j \in 0 .. Len(req.wire) /\ req \in Requests
    <3>1. /\ start \in Nat /\ arrived \in Nat /\ read \in Nat /\ write \in Nat /\ req \in Requests
          /\ Len(req.wire) \in Nat /\ arrived <= Len(req.wire) /\ arrived = write - start
          /\ start <= read /\ read <= write
      BY Bounds DEF Good
    <3> QED BY <3>1
  <2> QED BY <2>2, <2>3, SoundIs
<1>10. Placed'
  BY <1>1, <1>9 DEF Placed
<1> QED BY <1>3, <1>5, <1>6, <1>7, <1>8, <1>10 DEF Kept, Good

\* The ring has to be filled.
LEMMA MoreKeeps ==
    ASSUME TypeOK, Good, ~broken, More
    PROVE  Kept
<1>1. /\ UNCHANGED <<req, ring, pending, rqs, ended, failed, start, arrived, delivered, calls, faults, buf>>
      /\ at = "read" /\ at' = "readfd" /\ (pending > 0 \/ InLine)
  BY DEF More, Reading
<1>2. TypeOK'
  <2>1. Ring!TypeOK'
    BY <1>1, Zenon DEF TypeOK, Ring!TypeOK, ring
  <2> QED BY <1>1, <2>1 DEF TypeOK
<1>3. Here' = Here
  BY <1>1 DEF Here, ring
<1>4. Window'
  BY <1>1 DEF Good, Window, ring
<1>5. Inside'
  BY <1>1, <1>3 DEF Good, Inside, ring
<1>6. Given'
  BY <1>1, <1>3 DEF Good, Given, ring
<1>7. Where'
  <2>1. pending >= PENDING_INIT
    BY <1>1, Types DEF InLine, PENDING_INIT
  <2> QED BY <1>1, <2>1 DEF Where, InTrailers
<1>8. Placed => Placed'
  BY <1>1, <1>3 DEF Placed, InTrailers, ring
<1> QED BY <1>2, <1>4, <1>5, <1>6, <1>7, <1>8 DEF Kept, Good

\* Bytes come in.
LEMMA FdDataKeeps ==
    ASSUME TypeOK, Good, ~broken, Data
    PROVE  Kept
<1>0. PICK n \in 1 .. Size : FdData(n)
  BY DEF Data
<1>1. /\ UNCHANGED <<req, pending, rqs, ended, failed, start, delivered, calls, faults, buf>>
      /\ arrived + n <= Len(req.wire) /\ Ring!ReadFd([i \in 1 .. n |-> arrived + i])
      /\ arrived' = arrived + n /\ at \in {"readfd", "trailerfd"}
      /\ at' = IF at = "readfd" THEN "read" ELSE "trailer"
  BY <1>0 DEF FdData, Fd
<1>2. Ring!TypeOK' /\ Window' /\ UNCHANGED <<read, eof, broken>> /\ write' = write + n
  BY <1>1, RingReadFd DEF Good
<1>a. n \in Nat /\ write \in Nat /\ arrived \in Nat /\ Len(req.wire) \in Nat
  <2>1. Size \in Nat
    BY Sizes
  <2> QED BY <2>1, Bounds DEF Good
<1>3. TypeOK'
  <2>1. arrived' \in 0 .. Len(req.wire)
    BY <1>1, <1>a
  <2> QED BY <1>1, <1>2, <2>1 DEF TypeOK
<1>4. Here' = Here
  BY <1>1, <1>2 DEF Here
<1>5. Inside'
  BY <1>1, <1>2, <1>4 DEF Good, Inside
<1>6. Given'
  BY <1>1, <1>2, <1>4 DEF Good, Given
<1>7. Where'
  <2>1. CASE at = "readfd"
    BY <1>1, <2>1 DEF Where, InTrailers
  <2>2. CASE at = "trailerfd"
    <3>1. /\ pending = PENDING_EOF /\ Here.mode \in TailMode
          /\ Parser(rqs) /\ rqs.b = read /\ rqs.m = write
      BY <2>2 DEF Good, Where, InTrailers
    <3>2. rqs.m <= write'
      BY <1>2, <1>a, <3>1
    <3>3. Parser(rqs)'
      BY <1>1, <3>1 DEF Parser, ParserOver, ParserDone
    <3>4. at' = "trailer" /\ at' # "trailerfd" /\ at' # "readfd"
      BY <1>1, <2>2
    <3> QED BY <1>1, <1>2, <1>4, <3>1, <3>2, <3>3, <3>4 DEF Where
  <2> QED BY <1>1, <2>1, <2>2
<1>8. Placed => Placed'
  <2>1. InTrailers' <=> InTrailers
    BY <1>1 DEF InTrailers
  <2>2. Synced(rqs)' <=> Synced(rqs)
    BY <1>1 DEF Synced, Matches
  <2>3. at' # "done"
    BY <1>1
  <2> QED BY <1>1, <1>2, <1>4, <2>1, <2>2, <2>3 DEF Placed
<1> QED BY <1>2, <1>3, <1>5, <1>6, <1>7, <1>8 DEF Kept, Good

\* The client closes.
LEMMA FdEndKeeps ==
    ASSUME TypeOK, Good, ~broken, FdEnd
    PROVE  Kept
<1>1. /\ UNCHANGED <<req, rqs, start, arrived, delivered, calls, faults, buf>>
      /\ Ring!ReadFdEnd /\ at \in {"readfd", "trailerfd"}
      /\ at = "readfd" => pending' = PENDING_EOF /\ Return(0)
      /\ at = "trailerfd" => pending' = pending /\ Return(-1)
  BY DEF FdEnd, Fd
<1>2. Ring!TypeOK' /\ Window' /\ UNCHANGED <<read, write>> /\ eof' = TRUE /\ ~broken'
  BY <1>1, RingReadFdElse DEF Good
<1>3. pending' = PENDING_EOF
  BY <1>1 DEF Good, Where, InTrailers
<1>4. /\ at' \in {"app", "read", "done"} /\ ended' \in BOOLEAN /\ failed' \in BOOLEAN
      /\ at' = "app" => buf > 0
      /\ ended => ended'
  <2>1. -1 \in Int
    OBVIOUS
  <2>2. CASE at = "readfd"
    BY <1>1, <2>2, ReturnIs DEF Return
  <2>3. CASE at = "trailerfd"
    BY <1>1, <2>1, <2>3, ReturnIs DEF Return
  <2> QED BY <1>1, <2>2, <2>3
<1>5. TypeOK'
  <2>1. pending' \in -Modulus .. Modulus
    BY <1>3, Types DEF PENDING_EOF
  <2> QED BY <1>1, <1>2, <1>4, <2>1 DEF TypeOK
<1>6. Here' = Here
  BY <1>1, <1>2 DEF Here
<1>7. Inside'
  BY <1>2, <1>3 DEF Inside, PENDING_EOF, PENDING_INIT, PENDING_ERROR
<1>8. Given'
  <2>1. pending' <= PENDING_EOF
    BY <1>3 DEF PENDING_EOF
  <2> QED BY <1>1, <1>2, <1>4, <1>6, <2>1 DEF Good, Given
<1>9. Where'
  BY <1>4 DEF Where, InTrailers
<1>10. Placed => Placed'
  <2>1. PENDING_EOF # PENDING_ERROR
    BY DEF PENDING_EOF, PENDING_ERROR
  <2> QED BY <1>1, <1>2, <1>3, <1>4, <1>6, <2>1 DEF Placed, InTrailers
<1> QED BY <1>2, <1>5, <1>7, <1>8, <1>9, <1>10 DEF Kept, Good

\* The ring is full, or readv() fails.
LEMMA FdFailKeeps ==
    ASSUME TypeOK, Good, ~broken, FdFail
    PROVE  Kept
<1>1. /\ UNCHANGED <<req, pending, rqs, start, arrived, delivered, calls, buf>>
      /\ Ring!ReadFdFull \/ Ring!ReadFdError
      /\ at \in {"readfd", "trailerfd"}
      /\ at = "readfd" => at' = "read" /\ UNCHANGED <<ended, failed>>
      /\ at = "trailerfd" => Return(-1)
  BY DEF FdFail, Fd
<1>2. faults' \in 0 .. MaxFaults
  <2>1. faults \in 0 .. MaxFaults /\ MaxFaults \in Nat
    BY HttpInAssumption DEF TypeOK
  <2>2. faults' = faults \/ (faults < MaxFaults /\ faults' = faults + 1)
    BY DEF FdFail
  <2> QED BY <2>1, <2>2
<1>3. /\ Ring!TypeOK' /\ (~broken' => Window' /\ UNCHANGED <<read, write>>)
      /\ Ring!ReadFdError => broken'
  BY <1>1, RingReadFdElse DEF Good
<1>4. ~broken' => Ring!ReadFdFull /\ eof' = eof
  BY <1>1, <1>3 DEF Ring!ReadFdFull
<1>5. /\ at' \in {"app", "read", "done"} /\ ended' \in BOOLEAN /\ failed' \in BOOLEAN
      /\ at' = "app" => buf > 0
      /\ ended' <=> ended
      /\ failed => failed'
      /\ at = "readfd" => at' = "read"
  <2>1. -1 \in Int /\ -1 # 0
    OBVIOUS
  <2>2. CASE at = "readfd"
    BY <1>1, <2>2, Types
  <2>3. CASE at = "trailerfd"
    BY <1>1, <2>1, <2>3, ReturnIs DEF Return
  <2> QED BY <1>1, <2>2, <2>3
<1>6. TypeOK'
  BY <1>1, <1>2, <1>3, <1>5 DEF TypeOK
<1>7. ASSUME ~broken'
      PROVE  Good' /\ (Granted /\ Placed => Placed')
  <2>1. Window' /\ UNCHANGED <<read, write, eof>>
    BY <1>3, <1>4, <1>7
  <2>2. Here' = Here
    BY <1>1, <2>1 DEF Here
  <2>3. Inside'
    <3>1. /\ pending > 0 => Here.mode = "data" /\ Here.left = pending
          /\ pending = 0 => Here.mode = Here.after
          /\ pending = PENDING_INIT => req.chunked /\ Here.mode = "size" /\ Here.val = 0
          /\ pending = PENDING_EOF => Here.mode \in TailMode \/ eof
          /\ pending = PENDING_ERROR => failed
          /\ pending >= PENDING_ERROR
      BY DEF Good, Inside
    <3> QED BY <1>1, <1>5, <2>1, <2>2, <3>1 DEF Inside
  <2>4. Given'
    BY <1>1, <1>5, <2>1, <2>2 DEF Good, Given
  <2>5. Where'
    BY <1>5 DEF Where, InTrailers
  <2>6. ASSUME Granted, Placed, req.sound PROVE at = "readfd"
    <3> SUFFICES ASSUME at = "trailerfd" PROVE FALSE
      BY <1>1
    <3>1. rqs.m = write /\ rqs.b = read /\ rqs.m <= rqs.b + 2
      BY DEF Good, Where, InTrailers, Parser
    <3>2. write - read = Size
      <4>1. ~RingIs!Fifo!Fits(1) /\ Len(RingIs!Contents) = write - read
        <5>1. RingIs!ReadFdFull
          BY <1>4, <1>7, Zenon DEF Ring!ReadFdFull, RingIs!ReadFdFull, Ring!Full, RingIs!Full,
             Ring!Fine, RingIs!Fine, Ring!bi, RingIs!bi, Ring!ei, RingIs!ei, Ring!Index,
             RingIs!Index, Ring!Result, RingIs!Result
        <5>2. RingIs!Sound /\ Len(RingIs!Contents) = write - read
          BY Holds DEF Good
        <5>3. RingIs!Fifo!ReadFdFull \/ RingIs!Fifo!ReadFdEnd \/ RingIs!Fifo!Break
          BY <5>1, <5>2, Sizes, RingIs!ReadFdElseStep
        <5>4. RingIs!Fifo!ReadFdFull
          <6>1. ~RingIs!Fifo!Break
            BY <1>7 DEF RingIs!Fifo!Break
          <6>2. out'.ret = -1
            BY <5>1 DEF RingIs!ReadFdFull, RingIs!Result
          <6>3. ~RingIs!Fifo!ReadFdEnd
            BY <6>2 DEF RingIs!Fifo!ReadFdEnd, RingIs!Fifo!Result
          <6> QED BY <5>3, <6>1, <6>3
        <5> QED BY <5>2, <5>4 DEF RingIs!Fifo!ReadFdFull
      <4>2. write - read \in 0 .. Size /\ Size \in Nat
        BY Bounds, Sizes DEF Good
      <4> QED BY <4>1, <4>2 DEF RingIs!Fifo!Fits
    <3>3. read \in Nat /\ write \in Nat /\ Size \in Nat /\ Size > 2
      BY <2>6, Bounds, Sizes DEF Good, Granted
    <3> QED BY <3>1, <3>2, <3>3
  <2>7. ASSUME Granted, Placed PROVE Placed'
    <3> SUFFICES ASSUME req.sound PROVE Placed'
      BY <1>1 DEF Placed
    <3>1. at = "readfd" /\ at' = "read" /\ failed' = failed
      BY <1>1, <2>6, <2>7
    <3> QED BY <1>1, <2>1, <2>2, <2>7, <3>1 DEF Placed, InTrailers
  <2> QED BY <2>1, <2>3, <2>4, <2>5, <2>7 DEF Good
<1> QED BY <1>6, <1>7 DEF Kept

\* A chunk, or the last.
LEMMA LineIs ==
    ASSUME TypeOK, Good, ~broken, Line
    PROVE  /\ Ring!TypeOK' /\ Window'
           /\ ChunkLine.val \in Nat /\ ChunkLine.val < Modulus \div 2
           /\ Here'.mode = IF ChunkLine.val = 0 THEN "t_start" ELSE "data"
           /\ Here'.left = ChunkLine.val /\ Here'.body = Here.body
           /\ Here'.n = read' - start
           /\ ended = FALSE /\ read' \in Nat /\ read <= read' /\ read' <= write
<1> DEFINE p == read - start
           L == write - read
           s == ChunkLine
<1>1. /\ UNCHANGED <<req, buf, start, arrived, calls, faults, write, data, eof, out, broken>>
      /\ at = "read" /\ InLine /\ req.chunked /\ ChunkLine.cs = "done"
      /\ read' = Ring!Plus(read, ChunkLine.n)
  BY DEF Line, Reading
<1>2. s \in LineAt(p, L)
  BY <1>1, ChunkLineReads DEF Good
<1>b. /\ start \in Nat /\ arrived \in Nat /\ read \in Nat /\ write \in Nat /\ req \in Requests
      /\ Len(req.wire) \in Nat /\ arrived <= Len(req.wire) /\ arrived = write - start
      /\ start <= read /\ read <= write
  BY Bounds DEF Good
<1>c. Here = After(req, p)
  BY DEF Here
<1> HIDE DEF p, L, s
<1>3. LineDone(p, L, s) /\ s.val \in Nat
  <2>1. s.cs \notin LineMode \cup {"error"}
    BY <1>1 DEF LineMode, s
  <2>2. s \in ChunkType /\ LineDone(p, L, s)
    BY <1>2, <2>1, Zenon DEF LineAt
  <2> QED BY <2>2 DEF ChunkType
<1>4. s.n \in 1 .. L
  BY <1>3 DEF LineDone
<1>5. read' = read + s.n
  <2>1. s.n \in 0 .. write - read
    BY <1>4, <1>b DEF L
  <2>2. Ring!Plus(read, s.n) = read + s.n
    BY <2>1, NoWrap DEF Good
  <2> QED BY <1>1, <2>2 DEF s
<1>6. Ring!TypeOK' /\ Window'
  <2>1. s.n \in 0 .. write - read
    BY <1>4, <1>b DEF L
  <2> QED BY <1>1, <1>5, <2>1, Advance DEF Good
<1>7. /\ read' - start = p + s.n /\ p + s.n \in 0 .. Len(req.wire)
      /\ read' \in Nat /\ read <= read' /\ read' <= write
  <2> DEFINE n == s.n
  <2>1. n \in 1 .. write - read /\ read' = read + n
    BY <1>4, <1>5 DEF L
  <2> HIDE DEF n
  <2> DEFINE x == read + n
  <2>2. /\ x - start = (read - start) + n /\ (read - start) + n \in 0 .. Len(req.wire)
        /\ x \in Nat /\ read <= x /\ x <= write
    BY <1>b, <2>1
  <2>3. read' = x
    BY <2>1
  <2> HIDE DEF x
  <2> QED BY <2>2, <2>3, Zenon DEF n, p
<1>8. Here' = After(req, p + s.n)
  BY <1>1, <1>7 DEF Here
<1> DEFINE e == After(req, p + s.n)
<1>9. Known(req, p + s.n, e)
  BY <1>7, <1>b, AfterKnown
<1> HIDE DEF e
<1>10. /\ s.val < Modulus \div 2
       /\ e.mode = (IF s.val = 0 THEN "t_start" ELSE "data") /\ e.left = s.val /\ e.body = Here.body
  BY <1>3, <1>c DEF LineDone, e
<1>11. e.n = p + s.n
  BY <1>9, <1>10 DEF Known
<1>12. ended = FALSE
  <2>1. ~(pending <= PENDING_EOF)
    BY <1>1 DEF InLine, PENDING_INIT, PENDING_EOF
  <2> QED BY <2>1, Types DEF Good, Given
<1> QED BY <1>3, <1>6, <1>7, <1>8, <1>10, <1>11, <1>12 DEF s, e

\* A chunk.
LEMMA ChunkKeeps ==
    ASSUME TypeOK, Good, ~broken, Chunk
    PROVE  Kept
<1>1. /\ UNCHANGED <<req, write, data, eof, out, broken, rqs, start, arrived, delivered, calls,
                     faults, buf, ended, failed, at>>
      /\ at = "read" /\ ChunkLine.val # 0 /\ pending' = AsInt(ChunkLine.val) /\ Line
  BY DEF Chunk, Line, Reading
<1> DEFINE v == ChunkLine.val
<1>2. /\ Ring!TypeOK' /\ Window'
      /\ v \in Nat /\ v < Modulus \div 2
      /\ Here'.mode = IF v = 0 THEN "t_start" ELSE "data"
      /\ Here'.left = v /\ Here'.body = Here.body
      /\ Here'.n = read' - start
      /\ ended = FALSE
  BY <1>1, LineIs
<1> HIDE DEF v
<1>3. pending' = v /\ v > 0
  BY <1>1, <1>2 DEF AsInt, v
<1>4. TypeOK'
  <2>1. v \in -Modulus .. Modulus
    <3>1. Modulus \div 2 <= Modulus /\ Modulus \in Nat /\ Modulus \div 2 \in Nat
      BY Sizes
    <3> QED BY <1>2, <3>1
  <2> QED BY <1>1, <1>2, <1>3, <2>1 DEF TypeOK
<1>5. Inside'
  BY <1>2, <1>3 DEF Inside, PENDING_EOF, PENDING_INIT, PENDING_ERROR
<1>6. Given'
  BY <1>1, <1>2 DEF Good, Given
<1>7. Where'
  BY <1>1 DEF Where, InTrailers
<1>8. Placed => Placed'
  <2>1. pending' # PENDING_EOF /\ pending' # PENDING_ERROR
    BY <1>2, <1>3 DEF PENDING_EOF, PENDING_ERROR
  <2> QED BY <1>1, <1>2, <2>1 DEF Placed, InTrailers
<1> QED BY <1>2, <1>4, <1>5, <1>6, <1>7, <1>8 DEF Kept, Good

\* The last one: the parser of the trailers starts.
LEMMA LastChunkKeeps ==
    ASSUME TypeOK, Good, ~broken, LastChunk
    PROVE  Kept
<1>1. /\ UNCHANGED <<req, write, data, eof, out, broken, start, arrived, delivered, calls,
                     faults, buf, ended, failed>>
      /\ at = "read" /\ ChunkLine.val = 0 /\ pending' = PENDING_EOF /\ Line
      /\ rqs' = [st |-> "line", nl |-> 0, m |-> read', b |-> read']
      /\ at' = IF write # read' THEN "trailer" ELSE "trailerfd"
  BY DEF LastChunk, Line, Reading
<1>2. /\ Ring!TypeOK' /\ Window'
      /\ Here'.mode = "t_start" /\ Here'.body = Here.body
      /\ Here'.n = read' - start
      /\ ended = FALSE
      /\ read' \in Nat /\ read <= read' /\ read' <= write
  BY <1>1, LineIs
<1>3. TypeOK'
  <2>1. pending' \in -Modulus .. Modulus
    BY <1>1, Types DEF PENDING_EOF
  <2>2. read' \in 0 .. Modulus - 1
    BY <1>2 DEF Ring!TypeOK
  <2>3. rqs' \in [st : {"line", "cr", "nl", "error"}, nl : 0 .. 2,
                  m : 0 .. Modulus - 1, b : 0 .. Modulus - 1]
    BY <1>1, <2>2
  <2> QED BY <1>1, <1>2, <2>1, <2>3 DEF TypeOK
<1>4. Here'.mode \in TailMode
  BY <1>2 DEF TailMode
<1>5. Inside'
  BY <1>1, <1>4 DEF Inside, PENDING_EOF, PENDING_INIT, PENDING_ERROR
<1>6. Given'
  BY <1>1, <1>2 DEF Good, Given
<1>7. /\ rqs'.st = "line" /\ rqs'.nl = 0 /\ rqs'.m = read' /\ rqs'.b = read'
  BY <1>1
<1>8. Where'
  <2>1. Parser(rqs)'
    <3>1. ASSUME NEW q \in Nat PROVE q <= q /\ q <= q + 2 /\ q <= q + 1
      OBVIOUS
    <3>2. read' <= read' /\ read' <= read' + 2 /\ read' <= read' + 1
      BY <1>2, <3>1
    <3>3. ~ParserOver(rqs')
      BY <1>7 DEF ParserOver, ParserDone
    <3>4. Parser(rqs')
      BY <1>7, <3>2, <3>3 DEF Parser
    <3> QED BY <3>4, Zenon DEF Parser, ParserOver, ParserDone
  <2> QED BY <1>1, <1>2, <1>4, <1>7, <2>1 DEF Where, InTrailers
<1>9. Placed => Placed'
  <2>1. Synced(rqs)'
    <3>1. Here' = After(req', rqs'.m - start')
      BY <1>7 DEF Here
    <3> QED BY <1>1, <1>2, <1>7, <3>1 DEF Synced, Matches
  <2>2. PENDING_EOF # PENDING_ERROR /\ InTrailers' /\ at' # "done"
    BY <1>1 DEF PENDING_EOF, PENDING_ERROR, InTrailers
  <2> QED BY <1>1, <1>2, <2>1, <2>2 DEF Placed
<1> QED BY <1>2, <1>3, <1>5, <1>6, <1>8, <1>9 DEF Kept, Good

\* What the buffer holds is a sequence, and what was taken of the ring where the
\* copy has not left it.
LEMMA TakenIs ==
    ASSUME NEW o, o.data \in Seq(Nat), o.ret \in Int
    PROVE  /\ Taken(o) \in Seq(Nat)
           /\ o.ret = Len(o.data) => Taken(o) = o.data
<1> DEFINE k == o.ret - Len(o.data)
           z == [i \in 1 .. k |-> 0]
<1>1. k \in Int /\ Len(o.data) \in Nat
  OBVIOUS
<1>2. z \in Seq(Nat) /\ (k = 0 => z = <<>>)
  <2>1. CASE k \in Nat
    <3> HIDE DEF k
    <3> QED BY <2>1
  <2>2. CASE k \notin Nat
    <3>1. 1 .. k = {}
      BY <1>1, <2>2
    <3>2. z = <<>>
      BY <3>1
    <3> QED BY <3>2
  <2> QED BY <2>1, <2>2
<1> HIDE DEF z
<1>3. o.data \o z \in Seq(Nat) /\ (z = <<>> => o.data \o z = o.data)
  BY <1>2
<1>4. Taken(o) = o.data \o z
  BY DEF Taken, z
<1>5. o.ret = Len(o.data) => k = 0
  BY <1>1
<1> QED BY <1>2, <1>3, <1>4, <1>5

\* r bytes of a chunk are passed.
LEMMA Passed ==
    ASSUME TypeOK, Good, pending > 0, NEW r \in 1 .. write - read, r <= pending,
           read' = read + r, UNCHANGED <<req, start>>
    PROVE  /\ Here'.body = Here.body \o [k \in 1 .. r |-> read - start + k]
           /\ Here'.left = pending - r /\ Here'.after = Here.after
           /\ Here'.mode = IF r = pending THEN Here.after ELSE "data"
           /\ Here'.n = read' - start
           /\ IsPrefix(Here.body, Here'.body) /\ Here'.body \in Seq(Nat)
           /\ pending - r \in 0 .. Modulus
<1> DEFINE p == read - start
<1>b. /\ start \in Nat /\ arrived \in Nat /\ read \in Nat /\ write \in Nat /\ req \in Requests
      /\ Len(req.wire) \in Nat /\ arrived <= Len(req.wire) /\ arrived = write - start
      /\ start <= read /\ read <= write
  BY Bounds DEF Good
<1>1. /\ p \in 0 .. Len(req.wire) /\ Here = After(req, p) /\ Here.left < Modulus \div 2
      /\ Here.body \in Seq(Nat) /\ Here.left \in Nat
  BY HereIs DEF Good
<1>2. Here.mode = "data" /\ Here.left = pending
  BY DEF Good, Inside
<1>3. read + r - start = p + r /\ p + r \in p .. Len(req.wire) /\ p + r \in 0 .. Len(req.wire) /\ r \in Nat
      /\ p + r <= Len(req.wire)
  BY <1>b
<1>4. Here' = After(req, p + r) /\ read' - start = p + r
  <2>1. read' - start = p + r
    <3> DEFINE x == read + r
    <3>1. x - start = p + r
      BY <1>b
    <3>2. read' = x
      BY Zenon
    <3> HIDE DEF x, p
    <3> QED BY <3>1, <3>2, Zenon
  <2> HIDE DEF p
  <2> QED BY <2>1 DEF Here
<1> DEFINE e == After(req, p + r)
<1> HIDE DEF p
<1>5. /\ e.body = Here.body \o [k \in 1 .. r |-> p + k]
      /\ e.left = Here.left - r
      /\ e.mode = IF r = Here.left THEN Here.after ELSE "data"
      /\ e.after = Here.after /\ e.n = p + r
  <2> DEFINE h == After(req, p)
  <2>1. h.mode = "data" /\ r <= h.left /\ h = Here /\ p \in 0 .. Len(req.wire) /\ req \in Requests
        /\ r \in Nat /\ p + r <= Len(req.wire)
    BY <1>b, <1>1, <1>2, <1>3
  <2>2. /\ e.body = h.body \o [k \in 1 .. r |-> p + k]
        /\ e.left = h.left - r
        /\ e.mode = IF r = h.left THEN h.after ELSE "data"
        /\ e.after = h.after /\ e.n = p + r
    BY <2>1, AfterData, Zenon
  <2> HIDE DEF h, e
  <2> QED BY <2>1, <2>2
<1>6. IsPrefix(Here.body, e.body)
  <2>1. Later(Here, e, (p + r) - p)
    BY <1>b, <1>1, <1>3, AfterLater
  <2> QED BY <2>1 DEF Later
<1>7. e.body \in Seq(Nat)
  <2>1. Known(req, p + r, e)
    BY <1>b, <1>3, AfterKnown
  <2> QED BY <2>1 DEF Known, StateType
<1>8. pending - r \in 0 .. Modulus
  <2>1. Modulus \div 2 <= Modulus /\ Modulus \in Nat /\ Modulus \div 2 \in Nat /\ pending \in Nat
    BY <1>1, <1>2, Sizes
  <2> QED BY <1>1, <1>2, <1>3, <2>1
<1> HIDE DEF e
<1> QED BY <1>2, <1>4, <1>5, <1>6, <1>7, <1>8 DEF e, p

\* ... by the loop, for its caller or for none.
LEMMA InsideKeeps ==
    ASSUME TypeOK, Good, pending > 0, NEW r \in 1 .. write - read, r <= pending,
           read' = read + r, UNCHANGED <<req, start>>, pending' = pending - r
    PROVE  Inside' /\ pending' \in -Modulus .. Modulus /\ pending' # PENDING_EOF /\ pending' # PENDING_ERROR
<1>1. /\ Here'.left = pending - r /\ Here'.after = Here.after
      /\ Here'.mode = IF r = pending THEN Here.after ELSE "data"
      /\ pending - r \in 0 .. Modulus
  BY Passed
<1>2. pending' \in 0 .. Modulus /\ Modulus \in Nat /\ pending \in Int /\ r \in Int
  BY <1>1, Types
<1>3. pending' > 0 <=> r # pending
  BY <1>2
<1>4. pending' \in -Modulus .. Modulus /\ pending' \in Nat
  BY <1>2
<1>5. Inside'
  BY <1>1, <1>3, <1>4 DEF Inside, PENDING_EOF, PENDING_INIT, PENDING_ERROR
<1> QED BY <1>4, <1>5 DEF PENDING_EOF, PENDING_ERROR

\* Neither has had the end.
LEMMA NotEnded ==
    ASSUME TypeOK, Good, pending > 0
    PROVE  ended = FALSE
<1>1. ~(pending <= PENDING_EOF)
  BY Types DEF PENDING_EOF
<1> QED BY <1>1, Types DEF Good, Given

\* The application is given bytes.
LEMMA CopyKeeps ==
    ASSUME TypeOK, Good, ~broken, Copy
    PROVE  Kept
<1> DEFINE n == Least(pending, buf)
<1>1. /\ UNCHANGED <<req, rqs, start, arrived, calls, faults, buf>>
      /\ at = "read" /\ pending > 0 /\ read < write /\ buf > 0 /\ Ring!Read(n)
      /\ pending' = pending - out'.ret /\ delivered' = delivered \o Taken(out')
      /\ Return(out'.ret)
  BY DEF Copy, Reading
<1>2. n \in Nat \ {0} /\ n <= pending /\ pending \in Nat
  BY <1>1, Types DEF Least
<1> HIDE DEF n
<1>3. /\ Ring!TypeOK' /\ eof' = eof /\ write' = write
      /\ out'.ret \in 1 .. n /\ out'.data \in Seq(Nat)
      /\ ~broken' =>
           LET l == Least(n, write - read)
           IN  /\ Window' /\ read' = read + l
               /\ out' = Ring!Result(l, [k \in 1 .. l |-> read - start + k])
  BY <1>1, <1>2, RingRead DEF Good
<1> DEFINE r == out'.ret
<1>4. r \in Int /\ r > 0 /\ r <= pending
  BY <1>2, <1>3
<1>5. /\ at' = "app" /\ ended' = FALSE /\ failed' = failed
  <2>1. ended = FALSE
    BY <1>1, NotEnded
  <2>2. r # 0 /\ ~(r < 0)
    BY <1>4
  <2> QED BY <1>1, <2>1, <2>2, Types DEF Return
<1>6. TypeOK'
  <2>1. pending' \in -Modulus .. Modulus
    <3>1. pending \in -Modulus .. Modulus /\ Modulus \in Nat
      BY Types DEF TypeOK
    <3> HIDE DEF r
    <3> QED BY <1>1, <1>4, <3>1 DEF r
  <2>2. delivered' \in Seq(Nat)
    <3>1. Taken(out') \in Seq(Nat)
      BY <1>3, <1>4, TakenIs
    <3> QED BY <1>1, <3>1, Types
  <2>3. failed' \in BOOLEAN /\ ended' \in BOOLEAN
    BY <1>5, Types
  <2> QED BY <1>1, <1>3, <1>5, <2>1, <2>2, <2>3 DEF TypeOK
<1>7. ASSUME ~broken'
      PROVE  Good' /\ (Placed => Placed')
  <2> DEFINE l == Least(n, write - read)
             run == [k \in 1 .. l |-> read - start + k]
  <2>1. Window' /\ read' = read + l /\ out' = Ring!Result(l, run)
    BY <1>3, <1>7
  <2>2. l \in 1 .. write - read /\ l <= pending
    <3>1. read \in Nat /\ write \in Nat
      BY Bounds DEF Good
    <3> QED BY <1>1, <1>2, <3>1 DEF Least
  <2>b. read - start \in Nat /\ l \in Nat
    BY <2>2, HereIs DEF Good
  <2>c. run \in Seq(Nat) /\ Len(run) = l
    <3> HIDE DEF l
    <3> QED BY <2>b
  <2> HIDE DEF l, run
  <2>3. r = l /\ out'.data = run
    BY <2>1 DEF Ring!Result
  <2>4. /\ Here'.body = Here.body \o run /\ Here'.n = read' - start
        /\ Here'.mode = IF l = pending THEN Here.after ELSE "data"
    BY <1>1, <2>1, <2>2, Passed DEF run
  <2>5. pending' = pending - l
    BY <1>1, <2>3
  <2>6. Inside' /\ pending' # PENDING_EOF /\ pending' # PENDING_ERROR
    BY <1>1, <2>1, <2>2, <2>5, InsideKeeps
  <2>7. Given'
    <3>1. delivered' = Here'.body
      <4>1. Taken(out') = run
        BY <1>4, <2>c, <2>3, <1>3, TakenIs
      <4>2. delivered = Here.body
        BY <1>1 DEF Good, Given
      <4> QED BY <1>1, <2>4, <4>1, <4>2
    <3>2. IsPrefix(delivered', Here'.body)
      <4>1. delivered' \in Seq(Nat)
        BY <1>6 DEF TypeOK
      <4>2. IsPrefix(delivered', delivered')
        BY <4>1, PrefixOrder
      <4> QED BY <3>1, <4>2
    <3> QED BY <1>5, <3>1, <3>2 DEF Given
  <2>8. Where'
    BY <1>5 DEF Where, InTrailers
  <2>9. Placed => Placed'
    BY <1>1, <1>3, <1>5, <2>4, <2>6 DEF Placed, InTrailers
  <2> QED BY <2>1, <2>6, <2>7, <2>8, <2>9 DEF Good
<1> QED BY <1>6, <1>7 DEF Kept

\* The discard passes bytes over.
LEMMA SkipKeeps ==
    ASSUME TypeOK, Good, ~broken, Skip
    PROVE  Kept
<1> DEFINE r == Least(Least(pending, Size), write - read)
<1>1. /\ UNCHANGED <<req, rqs, start, arrived, calls, faults, buf, write, data, eof, out, broken,
                     delivered>>
      /\ at = "read" /\ pending > 0 /\ read < write /\ buf = 0
      /\ read' = read + r /\ pending' = pending - r /\ Return(r)
  BY DEF Skip, Reading
<1>2. r \in 1 .. write - read /\ r <= pending /\ r \in 0 .. write - read
  <2>1. read \in Nat /\ write \in Nat /\ pending \in Int /\ Size \in Nat \ {0}
    BY Bounds, Sizes, Types DEF Good
  <2> QED BY <1>1, <2>1 DEF Least
<1> HIDE DEF r
<1>3. Ring!TypeOK' /\ Window'
  BY <1>1, <1>2, Advance DEF Good
<1>4. /\ at' = "read" /\ ended' = FALSE /\ failed' = failed
  <2>1. ended = FALSE
    BY <1>1, NotEnded
  <2>2. r > 0 /\ r # 0 /\ ~(r < 0) /\ ~(buf > 0)
    BY <1>1, <1>2
  <2> QED BY <1>1, <2>1, <2>2, Types DEF Return
<1>5. Inside' /\ pending' \in -Modulus .. Modulus /\ pending' # PENDING_EOF /\ pending' # PENDING_ERROR
  BY <1>1, <1>2, InsideKeeps
<1>6. TypeOK'
  <2>1. failed' \in BOOLEAN /\ ended' \in BOOLEAN
    BY <1>4, Types
  <2> QED BY <1>1, <1>3, <1>4, <1>5, <2>1 DEF TypeOK
<1>7. IsPrefix(Here.body, Here'.body) /\ Here'.body \in Seq(Nat) /\ Here'.n = read' - start
  BY <1>1, <1>2, Passed
<1>8. Given'
  <2>1. IsPrefix(delivered, Here.body) /\ delivered \in Seq(Nat) /\ Here.body \in Seq(Nat)
    BY Types, HereIs DEF Good, Given
  <2>2. IsPrefix(delivered', Here'.body)
    BY <1>1, <1>7, <2>1, PrefixOrder
  <2> QED BY <1>1, <1>4, <2>2 DEF Given
<1>9. Where'
  BY <1>4 DEF Where, InTrailers
<1>10. Placed => Placed'
  BY <1>1, <1>4, <1>5, <1>7 DEF Placed, InTrailers
<1> QED BY <1>3, <1>5, <1>6, <1>8, <1>9, <1>10 DEF Kept, Good

\* The parser of the trailers has read on: r bytes are behind it.
LEMMA Ahead ==
    ASSUME TypeOK, Good, NEW q \in read .. write, read' = q,
           UNCHANGED <<req, start, write, data, eof, out, broken, arrived>>,
           Here.mode \in TailMode
    PROVE  /\ Ring!TypeOK' /\ Window'
           /\ Here' = After(req, q - start) /\ q - start \in 0 .. Len(req.wire)
           /\ Here'.mode \in TailMode /\ Here'.body = req.body /\ Here.body = req.body
<1>b. /\ start \in Nat /\ arrived \in Nat /\ read \in Nat /\ write \in Nat /\ req \in Requests
      /\ Len(req.wire) \in Nat /\ arrived <= Len(req.wire) /\ arrived = write - start
      /\ start <= read /\ read <= write
  BY Bounds DEF Good
<1> DEFINE r == q - read
           p == read - start
           k == q - start
<1>1. r \in 0 .. write - read /\ q = read + r
  BY <1>b
<1>2. p \in 0 .. Len(req.wire) /\ k \in p .. Len(req.wire) /\ k \in 0 .. Len(req.wire)
  BY <1>b
<1> HIDE DEF r
<1>a. read' = read + r
  BY <1>1, Zenon
<1>3. Ring!TypeOK' /\ Window'
  BY <1>1, <1>a, Advance DEF Good
<1> HIDE DEF p
<1>4. Here' = After(req, k)
  BY Zenon DEF Here
<1>5. Here = After(req, p)
  BY DEF Here, p
<1> HIDE DEF k
<1>6. /\ After(req, k).mode \in TailMode /\ After(req, k).body = req.body
      /\ After(req, p).body = req.body
  <2>1. After(req, p).mode \in TailMode
    BY <1>5
  <2> QED BY <1>b, <1>2, <2>1, TailLater
<1> QED BY <1>2, <1>3, <1>4, <1>5, <1>6 DEF k

\* What is known of the parser.
LEMMA ParserIs ==
    ASSUME TypeOK, Good, at = "trailer"
    PROVE  LET t == Trailers
           IN  /\ t \in TrailerType
               /\ t.m \in read .. write /\ t.b \in read .. write /\ t.b <= t.m
               /\ t \in [st : {"line", "cr", "nl", "error"}, nl : 0 .. 2,
                         m : 0 .. Modulus - 1, b : 0 .. Modulus - 1]
               /\ ~ParserOver(t) => t.m = write /\ Parser(t)
               /\ req.sound /\ Trailed(req) /\ Synced(rqs) => Synced(t)
               /\ pending = PENDING_EOF /\ Here.mode \in TailMode /\ rqs.b = read
<1> DEFINE t == Trailers
           L == write - rqs.m
<1>1. t \in TrailerAt(rqs, L)
  BY TrailersRead DEF Good
<1>2. pending = PENDING_EOF /\ Here.mode \in TailMode /\ Parser(rqs) /\ rqs.b = read /\ rqs.m <= write
  BY DEF Good, Where, InTrailers
<1>3. read \in Nat /\ write \in Nat /\ write < Modulus /\ Modulus \in Nat
  BY Bounds, Sizes DEF Good
<1>4. rqs.m \in Nat /\ rqs.b \in Nat
  <2>1. rqs.m \in 0 .. Modulus - 1 /\ rqs.b \in 0 .. Modulus - 1
    BY DEF TypeOK
  <2> QED BY <2>1
<1> HIDE DEF t
<1>5. /\ t \in TrailerType /\ t.m <= rqs.m + L /\ rqs.b <= t.b /\ t.b <= t.m
      /\ ~ParserOver(t) => t.m = rqs.m + L
      /\ t.m <= t.b + 2 /\ (t.st = "cr" => t.m <= t.b + 1)
      /\ req.sound /\ Trailed(req) /\ Synced(rqs) => Synced(t)
  BY <1>1, Zenon DEF TrailerAt
<1>6. t.m \in Nat /\ t.b \in Nat /\ t.st \in {"line", "cr", "nl", "error"} /\ t.nl \in 0 .. 2
  BY <1>5 DEF TrailerType
<1>7. rqs.m + L = write
  BY <1>3, <1>4
<1> HIDE DEF L
<1>8. t.m \in read .. write /\ t.b \in read .. write
  BY <1>2, <1>3, <1>5, <1>6, <1>7
<1>9. t.m \in 0 .. Modulus - 1 /\ t.b \in 0 .. Modulus - 1
  BY <1>3, <1>8
<1>10. t \in [st : {"line", "cr", "nl", "error"}, nl : 0 .. 2,
              m : 0 .. Modulus - 1, b : 0 .. Modulus - 1]
  BY <1>5, <1>9 DEF TrailerType
<1>11. ~ParserOver(t) => t.m = write /\ Parser(t)
  BY <1>5, <1>7, Zenon DEF Parser
<1> QED BY <1>2, <1>5, <1>8, <1>10, <1>11 DEF t

\* minute_http_read comes back, and wants more.
LEMMA TrailersMoreKeeps ==
    ASSUME TypeOK, Good, ~broken, TrailersMore
    PROVE  Kept
<1> DEFINE t == Trailers
<1>1. /\ UNCHANGED <<req, write, data, eof, out, broken, pending, buf, start, arrived, delivered,
                     calls, faults, ended, failed>>
      /\ at = "trailer" /\ at' = "trailerfd" /\ ~ParserOver(t) /\ rqs' = t /\ read' = t.b
  BY DEF TrailersMore, Parsing, history
<1>2. /\ t.m \in read .. write /\ t.b \in read .. write /\ t.b <= t.m
      /\ t \in [st : {"line", "cr", "nl", "error"}, nl : 0 .. 2,
                m : 0 .. Modulus - 1, b : 0 .. Modulus - 1]
      /\ t.m = write /\ Parser(t)
      /\ req.sound /\ Trailed(req) /\ Synced(rqs) => Synced(t)
      /\ pending = PENDING_EOF /\ Here.mode \in TailMode
  BY <1>1, ParserIs
<1> HIDE DEF t
<1>3. /\ Ring!TypeOK' /\ Window'
      /\ Here' = After(req, t.b - start) /\ t.b - start \in 0 .. Len(req.wire)
      /\ Here'.mode \in TailMode /\ Here'.body = req.body /\ Here.body = req.body
  BY <1>1, <1>2, Ahead
<1>4. TypeOK'
  BY <1>1, <1>2, <1>3 DEF TypeOK
<1>5. Inside'
  BY <1>1, <1>2, <1>3 DEF Inside, PENDING_EOF, PENDING_INIT, PENDING_ERROR
<1>6. Given'
  BY <1>1, <1>3 DEF Good, Given
<1>7. Where'
  <2>1. Parser(rqs')
    BY <1>1, <1>2
  <2>2. Parser(rqs)'
    BY <2>1, Zenon DEF Parser, ParserOver, ParserDone
  <2>3. write <= write
    BY Bounds DEF Good
  <2> QED BY <1>1, <1>2, <1>3, <2>2, <2>3 DEF Where
<1>8. ASSUME Granted, Placed PROVE Placed'
  <2> SUFFICES ASSUME req.sound PROVE Placed'
    BY <1>1 DEF Placed
  <2>1. Synced(t)
    <3>1. Trailed(req)
      BY <1>8, HereIs DEF Granted, Good
    <3>2. Synced(rqs)
      BY <1>1, <1>8 DEF Placed, InTrailers
    <3> QED BY <1>2, <3>1, <3>2
  <2>2. Synced(rqs)'
    BY <1>1, <2>1, Zenon DEF Synced, Matches
  <2>3. Here'.n = read' - start
    <3> DEFINE i == t.b - start
               j == t.m - start
    <3>b. start \in Nat /\ read \in Nat /\ write \in Nat /\ arrived <= Len(req.wire)
          /\ arrived = write - start /\ start <= read /\ Len(req.wire) \in Nat /\ arrived \in Nat
          /\ req \in Requests
      BY Bounds DEF Good
    <3>1. i \in 0 .. Len(req.wire) /\ j \in i .. Len(req.wire) /\ j \in Nat /\ i \in Nat
      <4> DEFINE x == t.b
                 y == t.m
      <4>1. x \in read .. write /\ y \in read .. write /\ x <= y
        BY <1>2
      <4> HIDE DEF x, y
      <4>2. x - start \in 0 .. Len(req.wire) /\ y - start \in x - start .. Len(req.wire)
            /\ y - start \in Nat /\ x - start \in Nat
        BY <3>b, <4>1
      <4> QED BY <4>2 DEF x, y
    <3>2. Later(After(req, i), After(req, j), j - i) /\ Known(req, i, After(req, i))
      BY <3>b, <3>1, AfterLater, AfterKnown
    <3>3. After(req, j).n = j
      BY <2>1 DEF Synced
    <3>4. Here' = After(req, i) /\ read' - start = i
      BY <1>1, <1>3
    <3> HIDE DEF i, j
    <3>5. After(req, i).n \in Nat /\ After(req, i).n <= i /\ j <= After(req, i).n + (j - i)
      BY <3>2, <3>3 DEF Later, Known, StateType
    <3>6. After(req, i).n = i
      BY <3>1, <3>5
    <3> QED BY <3>4, <3>6
  <2>4. InTrailers' /\ InTrailers /\ at' # "done" /\ PENDING_EOF # PENDING_ERROR
    BY <1>1 DEF InTrailers, PENDING_EOF, PENDING_ERROR
  <2> QED BY <1>1, <1>2, <1>8, <2>2, <2>3, <2>4 DEF Placed
<1> QED BY <1>3, <1>4, <1>5, <1>6, <1>7, <1>8 DEF Kept, Good

\* ... has come to the end of the request.
LEMMA TrailersDoneKeeps ==
    ASSUME TypeOK, Good, ~broken, TrailersDone
    PROVE  Kept
<1> DEFINE t == Trailers
<1>1. /\ UNCHANGED <<req, write, data, eof, out, broken, pending, buf, start, arrived, delivered,
                     calls, faults>>
      /\ at = "trailer" /\ ParserDone(t) /\ rqs' = t /\ read' = t.m /\ Return(0)
  BY DEF TrailersDone, Parsing, history
<1>2. /\ t.m \in read .. write
      /\ t \in [st : {"line", "cr", "nl", "error"}, nl : 0 .. 2,
                m : 0 .. Modulus - 1, b : 0 .. Modulus - 1]
      /\ req.sound /\ Trailed(req) /\ Synced(rqs) => Synced(t)
      /\ pending = PENDING_EOF /\ Here.mode \in TailMode
  BY <1>1, ParserIs
<1> HIDE DEF t
<1>3. /\ Ring!TypeOK' /\ Window'
      /\ Here' = After(req, t.m - start) /\ t.m - start \in 0 .. Len(req.wire)
      /\ Here'.mode \in TailMode /\ Here'.body = req.body /\ Here.body = req.body
  BY <1>1, <1>2, Ahead
<1>4. /\ at' \in {"app", "read", "done"} /\ ended' \in BOOLEAN /\ failed' \in BOOLEAN
      /\ at' = "app" => buf > 0
      /\ at' # "read"
      /\ ended' => ended \/ buf > 0
      /\ failed' <=> failed
  BY <1>1, ReturnIs
<1>5. TypeOK'
  BY <1>1, <1>2, <1>3, <1>4 DEF TypeOK
<1>6. Inside'
  BY <1>1, <1>2, <1>3 DEF Inside, PENDING_EOF, PENDING_INIT, PENDING_ERROR
<1>7. Given'
  <2>1. ended' => (delivered = req.body \/ eof \/ failed)
    BY <1>3, <1>4 DEF Good, Given
  <2>2. pending' <= PENDING_EOF
    BY <1>1, <1>2 DEF PENDING_EOF
  <2> QED BY <1>1, <1>3, <1>4, <2>1, <2>2 DEF Good, Given
<1>8. Where'
  BY <1>4 DEF Where, InTrailers
<1>9. ASSUME Granted, Placed PROVE Placed'
  <2> SUFFICES ASSUME req.sound PROVE Placed'
    BY <1>1 DEF Placed
  <2>1. Synced(t) /\ req \in Requests
    <3>1. Trailed(req) /\ req \in Requests
      BY <1>9, HereIs DEF Granted, Good
    <3>2. Synced(rqs)
      BY <1>1, <1>9 DEF Placed, InTrailers
    <3> QED BY <1>2, <3>1, <3>2
  <2>2. Matches(t, Here'.mode) /\ Here'.n = read' - start
    BY <1>1, <1>3, <2>1 DEF Synced
  <2>3. Here'.mode \notin {"bad", "t_bad"}
    BY <1>3, <2>1, SoundIs
  <2>4. Here'.mode = "over"
    <3>1. t.nl # 0 /\ t.nl # 1
      BY <1>1, <1>2 DEF ParserDone
    <3> QED BY <2>2, <2>3, <3>1 DEF Matches
  <2>5. InTrailers /\ ~InTrailers' /\ PENDING_EOF # PENDING_ERROR
    BY <1>1, <1>4 DEF InTrailers, PENDING_EOF, PENDING_ERROR
  <2> QED BY <1>1, <1>2, <1>4, <1>9, <2>2, <2>4, <2>5 DEF Placed
<1> QED BY <1>3, <1>5, <1>6, <1>7, <1>8, <1>9 DEF Kept, Good

\* ... cannot go on.
LEMMA TrailersBadKeeps ==
    ASSUME TypeOK, Good, ~broken, TrailersBad
    PROVE  Kept
<1>1. /\ UNCHANGED <<req, ring, pending, buf, start, arrived, delivered, calls, faults, rqs>>
      /\ at = "trailer" /\ Trailers.st = "error" /\ Return(-1)
  BY DEF TrailersBad, Parsing, history, ring
<1>2. /\ at' \in {"app", "read", "done"} /\ ended' \in BOOLEAN /\ failed' \in BOOLEAN
      /\ at' = "app" => buf > 0
      /\ at' # "read"
      /\ ended' => ended
      /\ failed'
  <2>1. -1 \in Int /\ -1 < 0 /\ -1 # 0 /\ ~(-1 > 0)
    OBVIOUS
  <2> QED BY <1>1, <2>1, ReturnIs
<1>3. TypeOK'
  <2>1. Ring!TypeOK'
    BY <1>1, Zenon DEF TypeOK, Ring!TypeOK, ring
  <2> QED BY <1>1, <1>2, <2>1 DEF TypeOK
<1>4. Here' = Here
  BY <1>1 DEF Here, ring
<1>5. Window'
  BY <1>1 DEF Good, Window, ring
<1>6. Inside'
  BY <1>1, <1>2, <1>4 DEF Good, Inside, ring
<1>7. Given'
  BY <1>1, <1>2, <1>4 DEF Good, Given, ring
<1>8. Where'
  BY <1>2 DEF Where, InTrailers
<1>9. Granted /\ Placed => ~req.sound
  <2> SUFFICES ASSUME Granted, Placed, req.sound PROVE FALSE
    OBVIOUS
  <2> DEFINE t == Trailers
  <2>1. /\ t.m \in read .. write
        /\ req.sound /\ Trailed(req) /\ Synced(rqs) => Synced(t)
    BY <1>1, ParserIs
  <2>2. Synced(rqs)
    BY <1>1 DEF Placed, InTrailers
  <2>3. Trailed(req) /\ req \in Requests
    BY HereIs DEF Granted, Good
  <2>4. t.st = "error"
    BY <1>1
  <2> HIDE DEF t
  <2>5. After(req, t.m - start).mode = "t_bad"
    BY <2>1, <2>2, <2>3, <2>4 DEF Synced, Matches
  <2>6. t.m - start \in 0 .. Len(req.wire)
    <3>1. start \in Nat /\ read \in Nat /\ write \in Nat /\ arrived <= Len(req.wire)
          /\ arrived = write - start /\ start <= read /\ Len(req.wire) \in Nat /\ arrived \in Nat
      BY Bounds DEF Good
    <3> QED BY <2>1, <3>1
  <2> QED BY <2>3, <2>5, <2>6, SoundIs
<1>10. Granted /\ Placed => Placed'
  BY <1>1, <1>9 DEF Placed
<1> QED BY <1>3, <1>5, <1>6, <1>7, <1>8, <1>10 DEF Kept, Good

---------------------------------------------------------------------------
(* The theorems                                                            *)

\* The first state: the ring holds what follows the head of the request.
LEMMA InitIs ==
    Init => TypeOK /\ Good /\ Placed
<1> SUFFICES ASSUME Init PROVE TypeOK /\ Good /\ Placed
  OBVIOUS
<1>1. /\ req \in Requests /\ start \in Starts /\ arrived \in 0 .. Least(Size, Len(req.wire))
      /\ read = start /\ write = start + arrived
      /\ data = [i \in 0 .. Size - 1 |->
                   IF (i - start) % Size < arrived THEN ((i - start) % Size) + 1 ELSE 0]
      /\ eof = FALSE /\ broken = FALSE /\ out = Ring!Result(0, <<>>)
      /\ pending = IF req.chunked THEN PENDING_INIT ELSE AsInt(req.length)
      /\ rqs = [st |-> "line", nl |-> 0, m |-> 0, b |-> 0]
      /\ at = "app" /\ buf = 0
      /\ delivered = <<>> /\ ended = FALSE /\ failed = FALSE
      /\ calls = 0 /\ faults = 0
  BY DEF Init
<1>2. /\ req.chunked \in BOOLEAN /\ req.length \in Nat /\ Len(req.wire) \in Nat
      /\ req.length < Modulus \div 2
  <2>1. Laid(req)
    BY <1>1, RequestIs
  <2>2. req.length < Modulus \div 2
    BY <2>1, Zenon DEF Laid
  <2> QED BY <1>1, <2>2, RequestIs
<1>3. /\ start \in Nat /\ start + Len(req.wire) < Modulus /\ Size \in Nat \ {0} /\ Modulus \in Nat
      /\ MaxCalls \in Nat /\ MaxFaults \in Nat /\ Modulus > 2
  BY <1>1, HttpInAssumption, Sizes
<1>4. arrived \in Nat /\ arrived <= Size /\ arrived <= Len(req.wire)
  BY <1>1, <1>2, <1>3 DEF Least
<1>5. data \in [0 .. Size - 1 -> Nat]
  <2>1. ASSUME NEW i \in 0 .. Size - 1
        PROVE  (IF (i - start) % Size < arrived THEN ((i - start) % Size) + 1 ELSE 0) \in Nat
    <3>1. i - start \in Int
      BY <1>3
    <3>2. (i - start) % Size \in 0 .. Size - 1
      BY <1>3, <3>1, RingIs!Mod
    <3> QED BY <1>3, <3>2
  <2> QED BY <1>1, <2>1
<1>6. Ring!TypeOK
  <2>1. out \in [ret : Int, data : Seq(Nat)]
    BY <1>1 DEF Ring!Result
  <2>2. read \in 0 .. Modulus - 1 /\ write \in 0 .. Modulus - 1
    BY <1>1, <1>2, <1>3, <1>4
  <2> QED BY <1>1, <1>5, <2>1, <2>2 DEF Ring!TypeOK
<1>7. pending = IF req.chunked THEN PENDING_INIT ELSE req.length
  BY <1>1, <1>2 DEF AsInt
<1>8. TypeOK
  <2>1. pending \in -Modulus .. Modulus
    <3>1. Modulus \div 2 <= Modulus /\ Modulus \div 2 \in Nat
      BY <1>3
    <3> QED BY <1>2, <1>3, <1>7, <3>1 DEF PENDING_INIT
  <2>2. rqs \in [st : {"line", "cr", "nl", "error"}, nl : 0 .. 2,
                m : 0 .. Modulus - 1, b : 0 .. Modulus - 1]
    <3>1. 0 \in 0 .. Modulus - 1 /\ 0 \in 0 .. 2
      BY <1>3
    <3> QED BY <1>1, <3>1
  <2>3. <<>> \in Seq(Nat)
    OBVIOUS
  <2>4. arrived \in 0 .. Len(req.wire) /\ calls \in 0 .. MaxCalls /\ faults \in 0 .. MaxFaults
    BY <1>1, <1>2, <1>3, <1>4
  <2> QED BY <1>1, <1>6, <2>1, <2>2, <2>3, <2>4 DEF TypeOK
<1>9. Window
  <2>1. ASSUME NEW o \in read .. write - 1 PROVE data[o % Size] = o - start + 1
    <3> DEFINE k == o - start
               i == o % Size
               q == o \div Size
    <3>1. o \in Int /\ k \in 0 .. Size - 1 /\ k < arrived /\ k \in Int
      BY <1>1, <1>3, <1>4
    <3>2. i \in 0 .. Size - 1 /\ q \in Int /\ o = Size * q + i
      BY <1>3, <3>1, RingIs!Mod
    <3> DEFINE y == 0 - q
    <3> HIDE DEF i, q
    <3>3. i - start = k + Size * y /\ y \in Int
      <4>1. Size \in Int /\ q \in Int /\ i \in Int /\ start \in Int
        BY <1>3, <3>2
      <4>2. Size * (0 - q) = 0 - Size * q
        BY <4>1
      <4> QED BY <3>2, <4>1, <4>2
    <3> HIDE DEF y, k
    <3>4. (k + Size * y) % Size = k % Size
      BY <1>3, <3>1, <3>3, RingIs!ModShift
    <3>5. k % Size = k
      BY <1>3, <3>1, RingIs!ModNear
    <3>6. (i - start) % Size = k
      BY <3>3, <3>4, <3>5
    <3>7. data[i] = k + 1
      BY <1>1, <3>1, <3>2, <3>6
    <3> QED BY <3>7 DEF i, k
  <2>2. start <= read /\ read <= write /\ write = start + arrived /\ write - read <= Size
    <3>1. start <= start /\ start <= start + arrived /\ (start + arrived) - start <= Size
      BY <1>3, <1>4
    <3> QED BY <1>1, <3>1, Zenon
  <2> QED BY <2>1, <2>2, Zenon DEF Window
<1>10. Here = Begin(req)
  <2>1. read - start = 0
    BY <1>1, <1>3
  <2> QED BY <1>1, <2>1, AfterNone DEF Here
<1>11. /\ Here.mode = (IF req.chunked THEN "size" ELSE IF req.length = 0 THEN "over" ELSE "data")
       /\ Here.after = (IF req.chunked THEN "previous" ELSE "over")
       /\ Here.left = req.length /\ Here.val = 0 /\ Here.n = 0 /\ Here.body = <<>>
  BY <1>10 DEF Begin
<1>12. Inside
  <2>1. CASE req.chunked
    BY <1>7, <1>11, <2>1 DEF Inside, PENDING_EOF, PENDING_INIT, PENDING_ERROR
  <2>2. CASE ~req.chunked
    BY <1>2, <1>7, <1>11, <2>2 DEF Inside, PENDING_EOF, PENDING_INIT, PENDING_ERROR
  <2> QED BY <2>1, <2>2
<1>13. Given
  <2>1. <<>> \in Seq(Nat)
    OBVIOUS
  <2>2. IsPrefix(<<>>, <<>>)
    BY <2>1, PrefixOrder
  <2> QED BY <1>1, <1>11, <2>2 DEF Given
<1>14. Where
  BY <1>1 DEF Where, InTrailers
<1>15. Placed
  <2>1. pending # PENDING_EOF /\ pending # PENDING_ERROR
    BY <1>2, <1>7 DEF PENDING_EOF, PENDING_INIT, PENDING_ERROR
  <2>2. read - start = 0
    BY <1>1, <1>3
  <2> QED BY <1>1, <1>11, <2>1, <2>2 DEF Placed, InTrailers
<1> QED BY <1>8, <1>9, <1>12, <1>13, <1>14, <1>15 DEF Good

\* Every step keeps it.
LEMMA NextKeeps ==
    ASSUME IInv, [Next]_vars
    PROVE  /\ IInv'
           /\ Granted /\ (~broken => Placed) => (~broken' => Placed')
<1>1. CASE Next
  <2>1. ~broken /\ TypeOK /\ Good
    BY <1>1 DEF Next, IInv
  <2>2. Kept
    BY <1>1, <2>1, AppKeeps, OverKeeps, CopyKeeps, SkipKeeps, PlainKeeps, BadLineKeeps, ChunkKeeps,
       LastChunkKeeps, MoreKeeps, TrailersMoreKeeps, TrailersDoneKeeps, TrailersBadKeeps,
       FdDataKeeps, FdEndKeeps, FdFailKeeps
    DEF Next, InRead, Trailer
  <2> QED BY <2>1, <2>2 DEF Kept, IInv
<1>2. CASE UNCHANGED vars
  <2>1. TypeOK' <=> TypeOK
    BY <1>2, Zenon DEF vars, ring, history, TypeOK, Ring!TypeOK
  <2>2. Good' <=> Good
    BY <1>2, Zenon DEF vars, ring, history, Good, Window, Inside, Given, Where, InTrailers, Here,
       Parser, ParserOver, ParserDone
  <2>3. Placed' <=> Placed
    BY <1>2, Zenon DEF vars, ring, history, Placed, InTrailers, Here, Synced, Matches
  <2>4. broken' <=> broken
    BY <1>2 DEF vars, ring
  <2> QED BY <2>1, <2>2, <2>3, <2>4 DEF IInv
<1> QED BY <1>1, <1>2

\* The state of a request is what it should be, the ring and `pending' included.
THEOREM TypeCorrect == Spec => []TypeOK
<1>1. Init => IInv
  BY InitIs DEF IInv
<1>2. IInv /\ [Next]_vars => IInv'
  BY NextKeeps
<1>3. IInv => TypeOK
  BY DEF IInv
<1> QED BY <1>1, <1>2, <1>3, PTL DEF Spec

\* The application is given the bytes of the payload, each once and in order,
\* and the end when it has had them all or the client has closed.
THEOREM DeliveredHolds == Spec => []Delivered
<1>1. Init => IInv
  BY InitIs DEF IInv
<1>2. IInv /\ [Next]_vars => IInv'
  BY NextKeeps
<1>3. IInv => Delivered
  <2> SUFFICES ASSUME IInv, ~broken PROVE InOrder /\ (ended => delivered = req.body \/ eof \/ failed)
    BY DEF Delivered
  <2>0. TypeOK /\ Good
    BY DEF IInv
  <2> DEFINE p == read - start
             N == Len(req.wire)
             z == After(req, N)
  <2>1. /\ p \in 0 .. N /\ N \in Nat /\ req \in Requests /\ Here = After(req, p)
        /\ Here.body \in Seq(Nat) /\ delivered \in Seq(Nat)
    BY <2>0, HereIs, Types DEF Good
  <2>2. N \in p .. N /\ N \in 0 .. N
    BY <2>1
  <2>3. IsPrefix(delivered, Here.body)
    BY <2>0 DEF Good, Given
  <2>4. Later(Here, z, N - p)
    BY <2>1, <2>2, AfterLater
  <2>5. IsPrefix(z.body, req.body) /\ req.body \in Seq(Nat)
    <3>1. Laid(req) /\ req.body \in Seq(Nat)
      BY <2>1, RequestIs
    <3> QED BY <3>1, Zenon DEF Laid
  <2>6. z.body \in Seq(Nat)
    <3>1. Known(req, N, z)
      BY <2>1, <2>2, AfterKnown
    <3> QED BY <3>1 DEF Known, StateType
  <2> HIDE DEF z, p, N
  <2>7. IsPrefix(Here.body, z.body)
    BY <2>4 DEF Later
  <2>8. IsPrefix(delivered, z.body)
    BY <2>1, <2>3, <2>6, <2>7, PrefixOrder
  <2>9. InOrder
    BY <2>1, <2>5, <2>6, <2>8, PrefixOrder DEF InOrder
  <2> QED BY <2>0, <2>9 DEF Good, Given
<1> QED BY <1>1, <1>2, <1>3, PTL DEF Spec

\* A request that is read and discarded leaves the ring where the next one begins,
\* and is refused only when the client closes in the middle of it: provided that
\* a chunked one has a trailer, and that the ring has more than two bytes.
THEOREM NextBeginsHolds ==
    ASSUME Granted
    PROVE  Spec => []NextBegins
<1> DEFINE PInv == IInv /\ (~broken => Placed)
<1>1. Init => PInv
  BY InitIs DEF IInv
<1>2. PInv /\ [Next]_vars => PInv'
  BY NextKeeps
<1>3. PInv => NextBegins
  <2> SUFFICES ASSUME IInv, ~broken, Placed, req.sound
               PROVE  /\ read <= start + req.end
                      /\ failed => eof
                      /\ at = "done" /\ ~eof => read = start + req.end
    BY DEF NextBegins
  <2>0. TypeOK /\ Good
    BY DEF IInv
  <2> DEFINE p == read - start
  <2>1. /\ p \in 0 .. Len(req.wire) /\ req \in Requests /\ Here = After(req, p)
        /\ Here.n = p /\ read \in Nat /\ start \in Nat /\ req.end \in Nat
    BY <2>0, HereIs, Bounds, RequestIs DEF Good, Placed
  <2>2. Here.n <= req.end /\ (Here.mode = "over" => Here.n = req.end)
    BY <2>1, SoundIs
  <2>3. at = "done" /\ ~eof => Here.mode = "over"
    BY DEF Placed, InTrailers
  <2>4. failed => eof
    BY DEF Placed
  <2>5. read <= start + req.end /\ (Here.mode = "over" => read = start + req.end)
    <3> DEFINE x == req.end
               y == Here.n
    <3>1. x \in Nat /\ y = read - start /\ y <= x /\ (Here.mode = "over" => y = x)
      BY <2>1, <2>2
    <3> HIDE DEF x, y
    <3>2. read <= start + x /\ (Here.mode = "over" => read = start + x)
      BY <2>1, <3>1
    <3> QED BY <3>2 DEF x
  <2> QED BY <2>3, <2>4, <2>5
<1> HIDE DEF PInv
<1> QED BY <1>1, <1>2, <1>3, PTL DEF Spec
=============================================================================
