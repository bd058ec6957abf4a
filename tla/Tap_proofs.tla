----------------------------- MODULE Tap_proofs -----------------------------
(* How a header is looked up, what a proc is told, that the server survives, *)
(* where a request ends up and what the log says of it (HeaderGot,           *)
(* HeaderAdded, ResultPassed, Survives, Reaches, LogTrue and the types of    *)
(* Serve and Tap), for any applications, requests, files and bounds.          *)
EXTENDS Tap, Serve_proofs

---------------------------------------------------------------------------
(* The search in a table                                                   *)

Windows(ls) == (0 .. Len(ls)) \X (0 .. Len(ls))
Middle(w)   == (w[2] + w[1]) \div 2
Diff(s, ls, w) == strcasecmp(s, ls[Middle(w) + 1])

\* A turn of the loop of minuted_tap_binary_search, with f for what follows.
Turn(f, s, ls, w) ==
    LET mid  == (w[2] + w[1]) \div 2
        diff == strcasecmp(s, ls[mid + 1])
    IN  CASE w[1] >= w[2] -> -1
          [] w[1] < w[2] /\ diff = 0 -> mid
          [] w[1] < w[2] /\ diff < 0 -> f[<<w[1], mid>>]
          [] OTHER -> f[<<mid + 1, w[2]>>]

\* Names compare by where they are in the alphabet.
LEMMA Compared ==
  ASSUME NEW s \in ToSet(Alphabet), NEW t \in ToSet(Alphabet)
  PROVE  strcasecmp(s, t) \in Int /\ (strcasecmp(s, t) = 0 <=> s = t)
  <1>1. ASSUME NEW x \in ToSet(Alphabet) PROVE Rank[x] \in Int /\ Alphabet[Rank[x]] = x
    <2>1. Rank[x] = CHOOSE j \in DOMAIN Alphabet : Alphabet[j] = x
      BY DEF Rank
    <2>2. \E j \in DOMAIN Alphabet : Alphabet[j] = x
      BY DEF ToSet
    <2>3. Rank[x] \in DOMAIN Alphabet /\ Alphabet[Rank[x]] = x
      BY <2>1, <2>2, Zenon
    <2>4. DOMAIN Alphabet \subseteq Int
      BY DEF Alphabet
    <2> QED BY <2>3, <2>4
  <1> QED BY <1>1 DEF strcasecmp

\* The cases of a turn.
LEMMA TurnIs ==
  ASSUME NEW f, NEW s \in ToSet(Alphabet), NEW ls, Len(ls) \in Nat, NEW w \in Windows(ls),
         \A j \in 1 .. Len(ls) : ls[j] \in ToSet(Alphabet)
  PROVE  /\ w[1] >= w[2] => Turn(f, s, ls, w) = -1
         /\ w[1] < w[2] =>
               /\ Middle(w) \in Nat /\ w[1] <= Middle(w) /\ Middle(w) < w[2]
               /\ Diff(s, ls, w) \in Int /\ (Diff(s, ls, w) = 0 <=> ls[Middle(w) + 1] = s)
               /\ Diff(s, ls, w) = 0 => Turn(f, s, ls, w) = Middle(w)
               /\ Diff(s, ls, w) < 0 => Turn(f, s, ls, w) = f[<<w[1], Middle(w)>>]
               /\ Diff(s, ls, w) > 0 => Turn(f, s, ls, w) = f[<<Middle(w) + 1, w[2]>>]
  <1> DEFINE mid  == Middle(w)
             diff == Diff(s, ls, w)
  <1>1. w[1] \in 0 .. Len(ls) /\ w[2] \in 0 .. Len(ls)
    BY DEF Windows
  <1>2. w[1] < w[2] => mid \in Nat /\ w[1] <= mid /\ mid < w[2] /\ mid + 1 \in 1 .. Len(ls)
    BY <1>1 DEF Middle
  <1>3. w[1] < w[2] => diff \in Int /\ (diff = 0 <=> ls[mid + 1] = s)
    <2> HIDE DEF mid
    <2> SUFFICES ASSUME w[1] < w[2] PROVE diff \in Int /\ (diff = 0 <=> ls[mid + 1] = s)
      OBVIOUS
    <2>1. ls[mid + 1] \in ToSet(Alphabet)
      BY <1>2
    <2> QED BY <2>1, Compared, Zenon DEF Diff, mid
  <1>4. Turn(f, s, ls, w) = CASE w[1] >= w[2] -> -1
                              [] w[1] < w[2] /\ diff = 0 -> mid
                              [] w[1] < w[2] /\ diff < 0 -> f[<<w[1], mid>>]
                              [] OTHER -> f[<<mid + 1, w[2]>>]
    BY Zenon DEF Turn, Middle, Diff
  <1> HIDE DEF mid, diff
  <1>5. CASE w[1] >= w[2]
    <2>1. ~(w[1] < w[2])
      BY <1>1, <1>5
    <2> QED BY <1>4, <1>5, <2>1, Zenon DEF mid, diff
  <1>6. CASE w[1] < w[2]
    <2>1. ~(w[1] >= w[2])
      BY <1>1, <1>6
    <2>2. (diff < 0 => ~(diff = 0)) /\ (diff > 0 => ~(diff = 0) /\ ~(diff < 0))
      BY <1>3, <1>6
    <2>3. diff = 0 => Turn(f, s, ls, w) = mid
      BY <1>4, <1>6, <2>1, <2>2, Zenon
    <2>4. diff < 0 => Turn(f, s, ls, w) = f[<<w[1], mid>>]
      BY <1>4, <1>6, <2>1, <2>2, Zenon
    <2>5. diff > 0 => Turn(f, s, ls, w) = f[<<mid + 1, w[2]>>]
      BY <1>4, <1>6, <2>1, <2>2, Zenon
    <2> QED BY <1>2, <1>3, <1>6, <2>1, <2>3, <2>4, <2>5, Zenon DEF mid, diff
  <1>7. w[1] >= w[2] \/ w[1] < w[2]
    BY <1>1
  <1> QED BY <1>5, <1>6, <1>7, Zenon

\* A turn depends on what follows only.
LEMMA TurnAgrees ==
  ASSUME NEW f, NEW g, NEW s, NEW ls, NEW w,
         /\ g[<<w[1], Middle(w)>>] = f[<<w[1], Middle(w)>>]
         /\ g[<<Middle(w) + 1, w[2]>>] = f[<<Middle(w) + 1, w[2]>>]
  PROVE  Turn(g, s, ls, w) = Turn(f, s, ls, w)
  BY Zenon DEF Turn, Middle

\* There is a function with these turns.
LEMMA SearchExists ==
  ASSUME NEW s \in ToSet(Alphabet), NEW ls, Len(ls) \in Nat,
         \A j \in 1 .. Len(ls) : ls[j] \in ToSet(Alphabet)
  PROVE  \E f : f = [w \in Windows(ls) |-> Turn(f, s, ls, w)]
  <1> DEFINE Upto(n, f) ==
               /\ f = [w \in Windows(ls) |-> f[w]]
               /\ \A w \in Windows(ls) : w[2] - w[1] <= n => f[w] = Turn(f, s, ls, w)
             S == {n \in Nat : \E f : Upto(n, f)}
  <1>1. 0 \in S
    <2> DEFINE f == [w \in Windows(ls) |-> -1]
    <2>1. ASSUME NEW w \in Windows(ls), w[2] - w[1] <= 0 PROVE f[w] = Turn(f, s, ls, w)
      <3> HIDE DEF f
      <3>1. w[1] >= w[2] BY <2>1 DEF Windows
      <3>2. Turn(f, s, ls, w) = -1 BY <3>1, TurnIs, Zenon
      <3> QED BY <3>2 DEF f
    <2>2. Upto(0, f) BY <2>1, Zenon
    <2> QED BY <2>2
  <1>2. ASSUME NEW n \in Nat, n \in S PROVE n + 1 \in S
    <2>1. PICK f : Upto(n, f) BY <1>2
    <2> DEFINE g == [w \in Windows(ls) |-> Turn(f, s, ls, w)]
    <2>2. ASSUME NEW v \in Windows(ls), v[2] - v[1] <= n PROVE g[v] = f[v]
      BY <2>1, <2>2
    <2>3. ASSUME NEW w \in Windows(ls), w[2] - w[1] <= n + 1 PROVE g[w] = Turn(g, s, ls, w)
      <3>1. g[w] = Turn(f, s, ls, w) BY <2>3
      <3> HIDE DEF g, Upto, S
      <3>2. w[1] \in 0 .. Len(ls) /\ w[2] \in 0 .. Len(ls) BY DEF Windows
      <3>3. CASE w[1] >= w[2]
        <4>1. Turn(f, s, ls, w) = -1 /\ Turn(g, s, ls, w) = -1 BY <3>3, TurnIs, Zenon
        <4> QED BY <3>1, <4>1
      <3>4. CASE w[1] < w[2]
        <4>1. Middle(w) \in Nat /\ w[1] <= Middle(w) /\ Middle(w) < w[2]
          BY <3>2, <3>4 DEF Middle
        <4>2. <<w[1], Middle(w)>> \in Windows(ls) /\ <<Middle(w) + 1, w[2]>> \in Windows(ls)
              /\ Middle(w) - w[1] <= n /\ w[2] - (Middle(w) + 1) <= n
          BY <2>3, <3>2, <4>1 DEF Windows
        <4>3. /\ g[<<w[1], Middle(w)>>] = f[<<w[1], Middle(w)>>]
              /\ g[<<Middle(w) + 1, w[2]>>] = f[<<Middle(w) + 1, w[2]>>]
          BY <2>2, <4>2
        <4>4. Turn(g, s, ls, w) = Turn(f, s, ls, w)
          BY <4>3, TurnAgrees
        <4> QED BY <3>1, <4>4
      <3> QED BY <3>2, <3>3, <3>4
    <2>4. g = [w \in Windows(ls) |-> g[w]] OBVIOUS
    <2> HIDE DEF g
    <2>5. Upto(n + 1, g) BY <2>3, <2>4
    <2> QED BY <2>5
  <1> HIDE DEF S
  <1>3. Nat \subseteq S BY <1>1, <1>2, Adding!Inductive
  <1>4. PICK f : Upto(Len(ls), f) BY <1>3 DEF S
  <1>5. \A w \in Windows(ls) : w[2] - w[1] <= Len(ls)
    BY DEF Windows
  <1> QED BY <1>4, <1>5

\* The search is such a function.
LEMMA SearchIs ==
  ASSUME NEW s \in ToSet(Alphabet), NEW ls, Len(ls) \in Nat,
         \A j \in 1 .. Len(ls) : ls[j] \in ToSet(Alphabet)
  PROVE  \E f : /\ \A w \in Windows(ls) : f[w] = Turn(f, s, ls, w)
                /\ minuted_tap_binary_search(s, ls) = f[<<0, Len(ls)>>]
  <1> DEFINE f == CHOOSE f : f = [w \in Windows(ls) |-> Turn(f, s, ls, w)]
  <1>1. f = [w \in Windows(ls) |-> Turn(f, s, ls, w)]
    BY SearchExists, Zenon
  <1>2. minuted_tap_binary_search(s, ls) = f[<<0, Len(ls)>>]
    BY Zenon DEF minuted_tap_binary_search, Turn, Windows
  <1> HIDE DEF f
  <1> QED BY <1>1, <1>2

\* What it finds: the place of the name, or none, if the name is where it is looked for.
\* The first name of a table stands for all that are unknown.
LEMMA Finds ==
  ASSUME NEW s \in ToSet(Alphabet), NEW ls, Len(ls) \in Nat,
         \A j \in 1 .. Len(ls) : ls[j] \in ToSet(Alphabet), InPlace(ls, s),
         NEW n, n = Number(minuted_tap_binary_search(s, ls))
  PROVE  \/ n = 0 /\ \A j \in 2 .. Len(ls) : ls[j] # s
         \/ n + 1 \in 2 .. Len(ls) /\ n \in Nat /\ ls[n + 1] = s
  <1>1. PICK f : /\ \A w \in Windows(ls) : f[w] = Turn(f, s, ls, w)
                 /\ minuted_tap_binary_search(s, ls) = f[<<0, Len(ls)>>]
    BY SearchIs
  <1> DEFINE Within(w) == \A j \in 2 .. Len(ls) : ls[j] = s => w[1] < j /\ j <= w[2]
             Right(w) == \/ f[w] \in {-1, 0} /\ \A j \in 2 .. Len(ls) : ls[j] # s
                         \/ f[w] \in 1 .. Len(ls) - 1 /\ ls[f[w] + 1] = s
             S == {m \in Nat : \A w \in Windows(ls) : w[2] - w[1] <= m /\ Within(w) => Right(w)}
  <1>2. ASSUME NEW w \in Windows(ls), w[1] >= w[2], Within(w) PROVE Right(w)
    <2>1. f[w] = -1
      <3>1. f[w] = Turn(f, s, ls, w) /\ w[1] >= w[2]
        BY <1>1, <1>2
      <3>2. w[1] >= w[2] => Turn(f, s, ls, w) = -1
        BY TurnIs, Zenon
      <3> QED BY <3>1, <3>2
    <2>2. \A j \in 2 .. Len(ls) : ls[j] # s
      BY <1>2 DEF Windows
    <2> QED BY <2>1, <2>2
  <1>3. 0 \in S
    <2> HIDE DEF Within, Right
    <2>1. \A w \in Windows(ls) : w[2] - w[1] <= 0 => w[1] >= w[2]
      BY DEF Windows
    <2> QED BY <1>2, <2>1
  <1>4. ASSUME NEW m \in Nat, m \in S PROVE m + 1 \in S
    <2> SUFFICES ASSUME NEW w \in Windows(ls), w[2] - w[1] <= m + 1, Within(w), w[1] < w[2]
                 PROVE  Right(w)
      <3> HIDE DEF Within, Right
      <3>1. \A w \in Windows(ls) : w[1] >= w[2] \/ w[1] < w[2]
        BY DEF Windows
      <3> QED BY <1>2, <3>1
    <2> DEFINE mid == Middle(w)
               diff == Diff(s, ls, w)
    <2>1. w[1] \in 0 .. Len(ls) /\ w[2] \in 0 .. Len(ls)
      BY DEF Windows
    <2>2. /\ mid \in Nat /\ w[1] <= mid /\ mid < w[2] /\ diff \in Int
          /\ diff = 0 => f[w] = mid
          /\ diff < 0 => f[w] = f[<<w[1], mid>>]
          /\ diff > 0 => f[w] = f[<<mid + 1, w[2]>>]
      <3>1. f[w] = Turn(f, s, ls, w)
        BY <1>1
      <3> QED BY <3>1, TurnIs
    <2>3. diff = 0 <=> ls[mid + 1] = s
      BY TurnIs, Zenon
    <2>4. ASSUME NEW j \in 2 .. Len(ls), ls[j] = s, mid + 1 >= 2
          PROVE  /\ mid + 1 < j => diff > 0
                 /\ mid + 1 > j => diff < 0
      <3> HIDE DEF mid
      <3>1. mid + 1 \in 2 .. Len(ls)
        BY <2>1, <2>2, <2>4
      <3> QED BY <2>4, <3>1 DEF InPlace, Diff, mid
    <2> HIDE DEF mid, diff
    <2>5. CASE diff = 0
      <3>1. f[w] = mid /\ ls[mid + 1] = s
        BY <2>2, <2>3, <2>5
      <3>2. CASE mid = 0
        <4>1. w[1] = 0 /\ w[2] = 1
          BY <2>1, <2>2, <3>2 DEF mid, Middle
        <4> QED BY <3>1, <3>2, <4>1
      <3>3. CASE mid # 0
        BY <2>1, <2>2, <3>1, <3>3
      <3> QED BY <3>2, <3>3
    <2>6. CASE diff < 0
      <3> DEFINE v == <<w[1], mid>>
      <3>1. v \in Windows(ls) /\ v[1] = w[1] /\ v[2] = mid /\ v[2] - v[1] <= m
        BY <2>1, <2>2 DEF Windows
      <3>2. Within(v)
        <4> SUFFICES ASSUME NEW j \in 2 .. Len(ls), ls[j] = s PROVE w[1] < j /\ j <= mid
          BY <3>1
        <4>1. w[1] < j /\ j <= w[2]
          OBVIOUS
        <4>2. mid + 1 # j
          BY <2>3, <2>6
        <4>3. ~(mid + 1 < j /\ mid + 1 >= 2)
          BY <2>2, <2>4, <2>6
        <4>4. mid + 1 >= 2 => j <= mid
          BY <2>2, <4>2, <4>3
        <4>5. mid = 0 => w[1] = 0 /\ w[2] = 1
          BY <2>1, <2>2 DEF mid, Middle
        <4> QED BY <2>2, <4>1, <4>4, <4>5
      <3> HIDE DEF v
      <3>3. Right(v)
        <4> HIDE DEF Within, Right
        <4> QED BY <1>4, <3>1, <3>2
      <3> QED BY <2>2, <2>6, <3>3 DEF v
    <2>7. CASE diff > 0
      <3> DEFINE v == <<mid + 1, w[2]>>
      <3>1. v \in Windows(ls) /\ v[1] = mid + 1 /\ v[2] = w[2] /\ v[2] - v[1] <= m
        BY <2>1, <2>2 DEF Windows
      <3>2. Within(v)
        <4> SUFFICES ASSUME NEW j \in 2 .. Len(ls), ls[j] = s PROVE mid + 1 < j /\ j <= w[2]
          BY <3>1
        <4>1. w[1] < j /\ j <= w[2]
          OBVIOUS
        <4>2. mid + 1 # j
          BY <2>3, <2>7
        <4>3. mid + 1 >= 2 => ~(mid + 1 > j)
          BY <2>2, <2>4, <2>7
        <4> QED BY <2>2, <4>1, <4>2, <4>3
      <3> HIDE DEF v
      <3>3. Right(v)
        <4> HIDE DEF Within, Right
        <4> QED BY <1>4, <3>1, <3>2
      <3> QED BY <2>2, <2>7, <3>3 DEF v
    <2> QED BY <2>2, <2>5, <2>6, <2>7
  <1>5. Nat \subseteq S
    <2> HIDE DEF S
    <2> QED BY <1>3, <1>4, Adding!Inductive
  <1> DEFINE all == <<0, Len(ls)>>
  <1>6. all \in Windows(ls) /\ all[2] - all[1] <= Len(ls) /\ Within(all)
    BY DEF Windows
  <1>7. Right(all)
    <2> HIDE DEF Within, Right, all
    <2>1. Len(ls) \in S BY <1>5
    <2> QED BY <1>6, <2>1
  <1> HIDE DEF all
  <1>8. n = IF f[all] > 0 THEN f[all] ELSE 0
    BY <1>1 DEF Number, all
  <1>9. CASE f[all] \in {-1, 0} /\ \A j \in 2 .. Len(ls) : ls[j] # s
    BY <1>8, <1>9
  <1>10. CASE f[all] \in 1 .. Len(ls) - 1 /\ ls[f[all] + 1] = s
    BY <1>8, <1>10
  <1> QED BY <1>7, <1>9, <1>10

---------------------------------------------------------------------------
(* The tables                                                              *)

\* The tables are sequences.
LEMMA Tables ==
  \A ls \in {http_request_header_names, http_response_header_names} :
     /\ Len(ls) \in {37, 34} /\ ls \in Seq(ToSet(ls))
  <1>1. Len(http_request_header_names) = 37 /\ DOMAIN http_request_header_names = 1 .. 37
        /\ http_request_header_names = [j \in 1 .. 37 |-> http_request_header_names[j]]
    BY DEF http_request_header_names
  <1>2. Len(http_response_header_names) = 34 /\ DOMAIN http_response_header_names = 1 .. 34
        /\ http_response_header_names = [j \in 1 .. 34 |-> http_response_header_names[j]]
    BY DEF http_response_header_names
  <1>3. ASSUME NEW n \in Nat, NEW ls, Len(ls) = n, DOMAIN ls = 1 .. n, ls = [j \in 1 .. n |-> ls[j]]
        PROVE  ls \in Seq(ToSet(ls))
    <2>1. \A j \in 1 .. n : ls[j] \in ToSet(ls)
      BY <1>3, Zenon DEF ToSet
    <2> HIDE DEF ToSet
    <2>2. [j \in 1 .. n |-> ls[j]] \in Seq(ToSet(ls))
      BY <2>1
    <2> QED BY <1>3, <2>2
  <1>4. http_request_header_names \in Seq(ToSet(http_request_header_names))
    BY <1>1, <1>3
  <1>5. http_response_header_names \in Seq(ToSet(http_response_header_names))
    BY <1>2, <1>3
  <1> QED BY <1>1, <1>2, <1>4, <1>5

\* The names of a table, without the first.
LEMMA KnownIs ==
  ASSUME NEW ls \in {http_request_header_names, http_response_header_names}
  PROVE  Known(ls) = {ls[j] : j \in 2 .. Len(ls)}
  <1>1. /\ DOMAIN Tail(ls) = 1 .. Len(ls) - 1 /\ Len(ls) \in Nat
        /\ \A j \in 1 .. Len(ls) - 1 : Tail(ls)[j] = ls[j + 1]
    <2> DEFINE S == ToSet(ls)
    <2>1. ls \in Seq(S) /\ Len(ls) \in {37, 34}
      BY Tables
    <2> HIDE DEF S
    <2> QED BY <2>1
  <1>2. ASSUME NEW j \in 2 .. Len(ls) PROVE ls[j] \in Known(ls)
    <2>1. j - 1 \in DOMAIN Tail(ls) /\ Tail(ls)[j - 1] = ls[j]
      BY <1>1
    <2> QED BY <2>1, Zenon DEF Known, ToSet
  <1>3. ASSUME NEW x \in Known(ls) PROVE \E j \in 2 .. Len(ls) : x = ls[j]
    <2>1. PICK j \in DOMAIN Tail(ls) : x = Tail(ls)[j]
      BY Zenon DEF Known, ToSet
    <2> QED BY <1>1, <2>1
  <1> QED BY <1>2, <1>3

\* Some of the places.
LEMMA Entries ==
  /\ Len(http_request_header_names) = 37
  /\ http_request_header_names[1] = "X-Unknown-Header"
  /\ http_request_header_names[11] = "Content-Length"
  /\ http_request_header_names[19] = "Host"
  /\ http_request_header_names[33] = "Transfer-Encoding"
  /\ \A j \in 2 .. 37 : http_request_header_names[j] # "X-Unknown-Header"
  BY DEF http_request_header_names

\* What an application's name for a header is turned into.
LEMMA Looked ==
  ASSUME NEW s \in ToSet(Alphabet), NEW ls \in {http_request_header_names, http_response_header_names},
         s \in Known(ls) => InPlace(ls, s), NEW n, n = Number(minuted_tap_binary_search(s, ls))
  PROVE  /\ n \in Nat /\ (n # 0 <=> s \in Known(ls))
         /\ n # 0 => n + 1 \in 2 .. Len(ls) /\ ls[n + 1] = s
  <1> DEFINE S == ToSet(ls)
  <1>1. Len(ls) \in {37, 34} /\ ls \in Seq(S)
    BY Tables
  <1>2. Known(ls) = {ls[j] : j \in 2 .. Len(ls)}
    BY KnownIs
  <1>3. InPlace(ls, s)
    <2>1. CASE s \notin Known(ls)
      BY <1>2, <2>1 DEF InPlace
    <2> QED BY <2>1
  <1>4. \A j \in 1 .. Len(ls) : ls[j] \in ToSet(Alphabet)
    <2>1. S \subseteq ToSet(Alphabet)
      BY HeadersAssumption
    <2> HIDE DEF S
    <2> QED BY <1>1, <2>1
  <1>5. \/ n = 0 /\ \A j \in 2 .. Len(ls) : ls[j] # s
        \/ n + 1 \in 2 .. Len(ls) /\ n \in Nat /\ ls[n + 1] = s
    <2>1. Len(ls) \in Nat
      BY <1>1
    <2> QED BY <1>3, <1>4, <2>1, Finds
  <1>6. CASE n = 0 /\ \A j \in 2 .. Len(ls) : ls[j] # s
    BY <1>2, <1>6
  <1>7. CASE n + 1 \in 2 .. Len(ls) /\ n \in Nat /\ ls[n + 1] = s
    <2>1. n # 0
      BY <1>1, <1>7
    <2> QED BY <1>2, <1>7, <2>1
  <1> QED BY <1>5, <1>6, <1>7

\* No name of a request is in the table twice.
LEMMA OncePlaced ==
  ASSUME NEW j \in 1 .. 37, NEW k \in 2 .. 37,
         http_request_header_names[j] = http_request_header_names[k]
  PROVE  j = k
  <1> DEFINE ls == http_request_header_names
             s  == ls[k]
  <1>1. j # 1
    BY Entries
  <1>2. s \in Known(ls) /\ Len(ls) = 37
    BY Entries, KnownIs
  <1>3. s \in ToSet(Alphabet) /\ InPlace(ls, s)
    <2>1. ls \in Seq(ToSet(ls)) /\ ToSet(ls) \subseteq ToSet(Alphabet)
      BY Tables, HeadersAssumption
    <2>2. s \in ToSet(ls)
      <3>1. k \in DOMAIN ls
        BY <1>2, <2>1
      <3> QED BY <3>1, Zenon DEF ToSet
    <2> QED BY <1>2, <2>1, <2>2, HeadersAssumption
  <1>4. strcasecmp(s, ls[j]) = 0
    BY <1>3, Compared
  <1>5. j \in 2 .. Len(ls) /\ k \in 2 .. Len(ls)
    BY <1>1, <1>2
  <1>6. (j < k => strcasecmp(s, ls[j]) > 0) /\ (j > k => strcasecmp(s, ls[j]) < 0)
    BY <1>3, <1>5 DEF InPlace
  <1> HIDE DEF s, ls
  <1> QED BY <1>4, <1>5, <1>6

\* The numbers of the parser are those of the table.
LEMMA NumberIs ==
  ASSUME NEW n \in 1 .. 36, NEW name \in Known(http_request_header_names)
  PROVE  HeaderNumber(name) = n <=> http_request_header_names[n + 1] = name
  <1> DEFINE ls == http_request_header_names
             j  == CHOOSE j \in DOMAIN ls : ls[j] = name
             S  == ToSet(ls)
  <1>1. Len(ls) = 37 /\ DOMAIN ls = 1 .. 37
    <2>1. Len(ls) = 37 /\ ls \in Seq(S)
      BY Entries, Tables
    <2> HIDE DEF S, ls
    <2> QED BY <2>1
  <1>2. \E k \in 2 .. 37 : ls[k] = name
    <2>1. name \in {ls[k] : k \in 2 .. 37}
      BY <1>1, KnownIs
    <2> QED BY <2>1
  <1>3. j \in 1 .. 37 /\ ls[j] = name
    <2>1. \E k \in DOMAIN ls : ls[k] = name
      BY <1>1, <1>2
    <2> QED BY <1>1, <2>1, Zenon
  <1>4. HeaderNumber(name) = j - 1
    BY Zenon DEF HeaderNumber
  <1> HIDE DEF j
  <1>5. CASE HeaderNumber(name) = n
    BY <1>3, <1>4, <1>5
  <1>6. CASE ls[n + 1] = name
    <2>1. n + 1 \in 2 .. 37 /\ ls[j] = ls[n + 1]
      BY <1>3, <1>6
    <2>2. j = n + 1
      BY <1>3, <2>1, OncePlaced
    <2> QED BY <1>4, <1>6, <2>2
  <1> QED BY <1>5, <1>6

\* The lines the parser keeps with this number are those with the name it stands for.
LEMMA TextIs ==
  ASSUME NEW q, NEW n \in 1 .. 36, NEW s, s = http_request_header_names[n + 1]
  PROVE  text(q, n) = IF s \in Interpreted THEN {} ELSE Lines(q, s)
  <1>1. s \in Known(http_request_header_names)
    <2>1. n + 1 \in 2 .. Len(http_request_header_names)
      BY Entries
    <2> QED BY <2>1, KnownIs
  <1>2. \A name \in Known(http_request_header_names) : HeaderNumber(name) = n <=> name = s
    BY NumberIs
  <1> QED BY <1>1, <1>2, Zenon DEF text, Lines

---------------------------------------------------------------------------
(* What the parser makes of the header lines                               *)

\* Some lines have a first and a last.
LEMMA Ends ==
  ASSUME NEW n \in Nat, NEW J \in SUBSET (1 .. n), J # {}
  PROVE  /\ \E j \in J : \A k \in J : j <= k
         /\ \E j \in J : \A k \in J : j >= k
  <1> DEFINE S == {m \in Nat : \A I \in SUBSET (1 .. m) : I # {} =>
                      /\ \E j \in I : \A k \in I : j <= k
                      /\ \E j \in I : \A k \in I : j >= k}
  <1>1. 0 \in S
    <2>1. \A I \in SUBSET (1 .. 0) : I = {}
      OBVIOUS
    <2> QED BY <2>1
  <1>2. ASSUME NEW m \in Nat, m \in S PROVE m + 1 \in S
    <2> SUFFICES ASSUME NEW I \in SUBSET (1 .. m + 1), I # {}
                 PROVE  /\ \E j \in I : \A k \in I : j <= k
                        /\ \E j \in I : \A k \in I : j >= k
      OBVIOUS
    <2> DEFINE R == I \ {m + 1}
    <2>1. R \in SUBSET (1 .. m)
      OBVIOUS
    <2>2. CASE R = {}
      <3>1. I = {m + 1}
        BY <2>2
      <3> QED BY <3>1
    <2>3. CASE R # {}
      <3>1. /\ \E j \in R : \A k \in R : j <= k
            /\ \E j \in R : \A k \in R : j >= k
        BY <1>2, <2>1, <2>3
      <3>2. \E j \in I : \A k \in I : j <= k
        BY <3>1
      <3>3. \E j \in I : \A k \in I : j >= k
        <4>1. CASE m + 1 \in I
          BY <4>1
        <4>2. CASE m + 1 \notin I
          BY <3>1, <4>2
        <4> QED BY <4>1, <4>2
      <3> QED BY <3>2, <3>3
    <2> QED BY <2>2, <2>3
  <1>3. Nat \subseteq S
    <2> HIDE DEF S
    <2> QED BY <1>1, <1>2, Adding!Inductive
  <1> QED BY <1>3

\* The lines with a name are lines.
LEMMA LinesAre ==
  ASSUME NEW q \in Requests, NEW name
  PROVE  Len(q.lines) \in Nat /\ Lines(q, name) \in SUBSET (1 .. Len(q.lines))
  <1>1. q.lines \in Seq(LineType)
    BY TapAssumption DEF RequestType
  <1> HIDE DEF LineType
  <1> QED BY <1>1 DEF Lines

\* The last of some lines is one of them.
LEMMA LastOfIs ==
  ASSUME NEW q \in Requests, NEW name, NEW J \in SUBSET Lines(q, name), J # {}
  PROVE  \E j \in J : LastOf(q, J) = q.lines[j][2]
  <1> DEFINE last == CHOOSE j \in J : \A k \in J : j >= k
  <1>1. \E j \in J : \A k \in J : j >= k
    BY LinesAre, Ends
  <1>2. last \in J /\ LastOf(q, J) = q.lines[last][2]
    BY <1>1, Zenon DEF LastOf
  <1> QED BY <1>2, Zenon

ParsedType == [flags : SUBSET {"content_length", "chunked"}, length : 0 .. Modulus - 1]

\* The number is that of one of the lines that end with \r\n, as far as an unsigned goes.
LEMMA Interpreting ==
  ASSUME NEW q \in Requests, NEW p, p = Interpret(NoRequest, q)
  PROVE  /\ p \in ParsedType
         /\ "content_length" \in p.flags <=> lengthLines(q) # {}
         /\ "chunked" \in p.flags <=> chunkedLines(q) # {}
         /\ lengthLines(q) # {} =>
               \E j \in lengthLines(q) : p.length = Decimal[q.lines[j][2]] % Modulus
  <1> DEFINE L == lengthLines(q)
             C == chunkedLines(q)
             n == Decimal[LastOf(q, L)] % Modulus
  <1>1. p = [flags  |-> {} \cup (IF L # {} THEN {"content_length"} ELSE {})
                           \cup (IF C # {} THEN {"chunked"} ELSE {}),
             length |-> IF L # {} THEN n ELSE 0]
    BY DEF Interpret, NoRequest
  <1>2. L # {} => \E j \in L : LastOf(q, L) = q.lines[j][2]
    BY LastOfIs, Zenon DEF lengthLines
  <1>3. \A j \in L : Decimal[q.lines[j][2]] \in Nat
    <2>1. \A j \in Lines(q, "Content-Length") : q.lines[j][2] \in DOMAIN Decimal
      BY TapAssumption
    <2>2. Decimal \in [DOMAIN Decimal -> Nat]
      BY TapAssumption
    <2> QED BY <2>1, <2>2 DEF lengthLines
  <1>4. L # {} => \E j \in L : n = Decimal[q.lines[j][2]] % Modulus
    BY <1>2
  <1>5. Modulus \in Nat \ {0}
    BY TapAssumption
  <1> HIDE DEF L, C, n
  <1>6. L # {} => n \in 0 .. Modulus - 1
    BY <1>3, <1>4, <1>5
  <1> QED BY <1>1, <1>4, <1>5, <1>6 DEF ParsedType, L, C

\* The last of the requests.
LEMMA LastAsked ==
  ASSUME NEW S, NEW s \in Seq(S), NEW q \in S
  PROVE  Append(s, q) \in Seq(S) /\ Append(s, q) # <<>> /\ Last(Append(s, q)) = q
  BY DEF Last

InHandling == {"headers", "payloadcall", "payload", "responsecall", "response"}

\* While a request is handled the record is what the parser makes of it.
Parsing ==
    /\ parsed \in ParsedType
    /\ asked \in Seq(Requests \cup {Bad})
    /\ at \in InHandling \cup {"head", "line"} =>
          rq \in Requests /\ parsed = Interpret(NoRequest, rq)

LEMMA ParsingInit == Init => Parsing
  <1>1. NoRequest \in ParsedType
    BY TapAssumption DEF NoRequest, ParsedType
  <1> QED BY <1>1 DEF Init, TapInit, Parsing, InHandling

LEMMA ParsingNext ==
  ASSUME Parsing, [Next]_vars
  PROVE  Parsing'
  <1>1. NoRequest \in ParsedType
    BY TapAssumption DEF NoRequest, ParsedType
  <1>2. CASE Read
    <2>1. PICK q \in Requests : asked' = Append(asked, q) /\ parsed' = Interpret(NoRequest, q)
      BY <1>2 DEF Read, Cleared
    <2>2. asked' \in Seq(Requests \cup {Bad}) /\ rq' = q
      BY <2>1, LastAsked DEF Parsing, rq
    <2>3. parsed' \in ParsedType
      BY <2>1, Interpreting
    <2> QED BY <2>1, <2>2, <2>3 DEF Parsing
  <1>3. CASE ReadBad
    <2>1. asked' = Append(asked, Bad) /\ parsed' = NoRequest /\ at' = "end"
      BY <1>3 DEF ReadBad, Cleared
    <2>2. asked' \in Seq(Requests \cup {Bad})
      <3>1. Bad \in Requests \cup {Bad} /\ asked \in Seq(Requests \cup {Bad})
        BY DEF Parsing
      <3> QED BY <2>1, <3>1, LastAsked
    <2> QED BY <1>1, <2>1, <2>2 DEF Parsing, InHandling
  <1>4. CASE ReadNone \/ Close \/ Restart
    <2>1. /\ at' \in {"close", "idle"} /\ parsed' = NoRequest
          /\ asked' = asked \/ asked' = <<>>
      BY <1>4 DEF ReadNone, Close, Restart, Forget, Cleared
    <2> DEFINE S == Requests \cup {Bad}
    <2>2. asked \in Seq(S)
      BY DEF Parsing
    <2> HIDE DEF S
    <2>3. <<>> \in Seq(S)
      OBVIOUS
    <2>4. asked' \in Seq(S)
      BY <2>1, <2>2, <2>3, Zenon
    <2> QED BY <1>1, <2>1, <2>4 DEF Parsing, InHandling, S
  <1>5. CASE Accept \/ End
    <2>1. at' \in {"read", "close"} /\ parsed' = parsed /\ asked' = asked
      BY <1>5 DEF Accept, End
    <2> QED BY <2>1 DEF Parsing, InHandling
  <1>6. CASE HeadersCall \/ HeadRefused \/ HeadersReturn \/ HeadersFail
               \/ PayloadNone \/ PayloadCall \/ PayloadReturn \/ PayloadFail \/ ReturnNothing
               \/ Answer \/ ResponseCrash \/ ResponseCall \/ ResponseReturn
               \/ GetHeader \/ AddHeader
    <2>1. parsed' = parsed /\ asked' = asked
      BY <1>6, Zenon
      DEF HeadersCall, HeadRefused, HeadersReturn, HeadersFail, PayloadNone, PayloadCall,
          PayloadReturn, PayloadFail, ReturnNothing, Answer, ResponseCrash, ResponseCall,
          ResponseReturn, GetHeader, AddHeader, InProc, InRequest
    <2>2. at \in InHandling \cup {"head", "line"}
      BY <1>6
      DEF HeadersCall, HeadRefused, HeadersReturn, HeadersFail, PayloadNone, PayloadCall,
          PayloadReturn, PayloadFail, ReturnNothing, Answer, ResponseCrash, ResponseCall,
          ResponseReturn, GetHeader, AddHeader, InHandling
    <2>3. rq' = rq
      BY <2>1 DEF rq
    <2> QED BY <2>1, <2>2, <2>3 DEF Parsing
  <1>7. CASE Server \/ UNCHANGED vars
    <2>1. UNCHANGED tapvars
      BY <1>7 DEF Server, vars
    <2>2. parsed' = parsed /\ asked' = asked /\ at' = at /\ rq' = rq
      BY <2>1 DEF tapvars, rq
    <2> QED BY <2>2 DEF Parsing
  <1> QED BY <1>2, <1>3, <1>4, <1>5, <1>6, <1>7, Zenon DEF Next, Child

---------------------------------------------------------------------------
(* The meta object                                                         *)

\* The names that have a variable of their own or none.
LEMMA Places ==
  ASSUME NEW n \in 1 .. 36, NEW s, s = http_request_header_names[n + 1]
  PROVE  /\ n = http_rq_content_length <=> s = "Content-Length"
         /\ n = http_rq_host <=> s = "Host"
         /\ n = http_rq_transfer_encoding <=> s = "Transfer-Encoding"
  <1>1. n + 1 \in 1 .. 37
    OBVIOUS
  <1>2. \A k \in 2 .. 37 : s = http_request_header_names[k] => n + 1 = k
    BY <1>1, OncePlaced
  <1> QED
    BY <1>2, Entries DEF http_rq_content_length, http_rq_host, http_rq_transfer_encoding

\* The number that an application finds for its name.
LEMMA Looking ==
  ASSUME NEW name \in Asked, NEW h, h = minuted_tap_request_header(name)
  PROVE  /\ h \in Nat /\ (h # 0) = (name \in Known(http_request_header_names))
         /\ h # 0 => h \in 1 .. 36 /\ name = http_request_header_names[h + 1]
         /\ h = http_rq_content_length <=> name = "Content-Length"
         /\ h = http_rq_transfer_encoding <=> name = "Transfer-Encoding"
  <1> DEFINE ls == http_request_header_names
  <1>1. /\ h \in Nat /\ (h # 0 <=> name \in Known(ls))
        /\ h # 0 => h + 1 \in 2 .. Len(ls) /\ ls[h + 1] = name
    <2>1. name \in ToSet(Alphabet) /\ (name \in Known(ls) => InPlace(ls, name))
      BY TapAssumption, HeadersAssumption
    <2>2. h = Number(minuted_tap_binary_search(name, ls))
      BY Zenon DEF minuted_tap_request_header
    <2> QED BY <2>1, <2>2, Looked
  <1>2. h # 0 => h \in 1 .. 36 /\ name = ls[h + 1]
    BY <1>1, Entries
  <1>3. (h # 0) = (name \in Known(ls))
    <2>1. h # 0 <=> name \in Known(ls)
      BY <1>1
    <2> QED BY <2>1
  <1>4. CASE h # 0
    <2>1. h \in 1 .. 36 /\ name = ls[h + 1]
      BY <1>2, <1>4
    <2> QED BY <1>1, <1>2, <1>3, <2>1, Places
  <1>5. CASE h = 0
    <2>1. name # "Content-Length" /\ name # "Transfer-Encoding"
      <3>1. 11 \in 2 .. Len(ls) /\ 33 \in 2 .. Len(ls)
        BY Entries
      <3>2. ls[11] \in Known(ls) /\ ls[33] \in Known(ls)
        BY <3>1, KnownIs
      <3> QED BY <1>1, <1>5, <3>2, Entries
    <2> QED
      BY <1>1, <1>2, <1>3, <1>5, <2>1 DEF http_rq_content_length, http_rq_transfer_encoding
  <1> QED BY <1>4, <1>5

\* The text that tap_tcl_get_header gives.
LEMMA TextGiven ==
  ASSUME NEW name \in Asked, NEW h, h = minuted_tap_request_header(name),
         rq \in Requests, parsed = Interpret(NoRequest, rq)
  PROVE  HeaderText(h) =
           CASE h # 0 /\ name \notin Interpreted -> Value(rq, name)
             [] name = "Transfer-Encoding" /\ chunkedLines(rq) # {} -> "chunked"
             [] OTHER -> None
  <1> DEFINE result_ == CASE h # 0 /\ name \notin Interpreted -> Value(rq, name)
                          [] name = "Transfer-Encoding" /\ chunkedLines(rq) # {} -> "chunked"
                          [] OTHER -> None
             hits == text(rq, h)
  <1>1. /\ h # 0 => h \in 1 .. 36 /\ name = http_request_header_names[h + 1]
        /\ h = http_rq_transfer_encoding <=> name = "Transfer-Encoding"
    BY Looking
  <1>2. CASE h = http_rq_transfer_encoding
    <2>1. name = "Transfer-Encoding" /\ name \in Interpreted
      BY <1>1, <1>2 DEF Interpreted
    <2>2. HeaderText(h) = IF "chunked" \in parsed.flags THEN "chunked" ELSE None
      BY <1>2, Zenon DEF HeaderText
    <2>3. "chunked" \in parsed.flags <=> chunkedLines(rq) # {}
      BY Interpreting
    <2>4. result_ = IF chunkedLines(rq) # {} THEN "chunked" ELSE None
      BY <2>1, Zenon
    <2> HIDE DEF result_
    <2>5. HeaderText(h) = result_
      BY <2>2, <2>3, <2>4, Zenon
    <2> QED BY <2>5, Zenon DEF result_
  <1>3. CASE h # http_rq_transfer_encoding
    <2>1. HeaderText(h) = IF hits # {} THEN FirstOf(rq, hits) ELSE None
      BY <1>3, Zenon DEF HeaderText
    <2>2. result_ = IF h # 0 /\ name \notin Interpreted THEN Value(rq, name) ELSE None
      BY <1>1, <1>3, Zenon
    <2>3. Value(rq, name) = IF Lines(rq, name) = {} THEN None ELSE FirstOf(rq, Lines(rq, name))
      BY Zenon DEF Value
    <2>4. h # 0 => hits = IF name \in Interpreted THEN {} ELSE Lines(rq, name)
      BY <1>1, TextIs
    <2>5. h = 0 => hits = {}
      <3> SUFFICES ASSUME h = 0, NEW x \in Known(http_request_header_names) PROVE HeaderNumber(x) # 0
        BY Zenon DEF text
      <3>1. \E k \in 2 .. 37 : x = http_request_header_names[k]
        <4> DEFINE ls == http_request_header_names
        <4>1. Len(ls) = 37 /\ Known(ls) = {ls[k] : k \in 2 .. Len(ls)}
          BY KnownIs, Entries
        <4> HIDE DEF ls
        <4>2. \E k \in 2 .. 37 : x = ls[k]
          BY <4>1 DEF ls
        <4> QED BY <4>2 DEF ls
      <3> PICK k \in 2 .. 37 : x = http_request_header_names[k]
        BY <3>1
      <3>2. k - 1 \in 1 .. 36 /\ http_request_header_names[(k - 1) + 1] = x
        OBVIOUS
      <3>3. HeaderNumber(x) = k - 1
        BY <3>2, NumberIs
      <3> QED BY <3>2, <3>3
    <2> HIDE DEF result_, hits
    <2>6. HeaderText(h) = result_
      BY <2>1, <2>2, <2>3, <2>4, <2>5, Zenon
    <2> QED BY <2>6, Zenon DEF result_
  <1> QED BY <1>2, <1>3

\* The number that tap_tcl_get_header gives.
LEMMA LengthGiven ==
  ASSUME NEW name \in Asked, NEW h, h = minuted_tap_request_header(name),
         rq \in Requests, parsed = Interpret(NoRequest, rq)
  PROVE  /\ name = "Content-Length" /\ Legible(rq) /\ Lines(rq, name) # {} =>
               \E j \in Lines(rq, name) : HeaderLength(h) = {Decimal[rq.lines[j][2]]}
         /\ name # "Content-Length" \/ Lines(rq, name) = {} => HeaderLength(h) = {}
  <1> DEFINE L == lengthLines(rq)
             J == Lines(rq, "Content-Length")
  <1>1. h = http_rq_content_length <=> name = "Content-Length"
    BY Looking
  <1>2. /\ "content_length" \in parsed.flags <=> L # {}
        /\ L # {} => \E j \in L : parsed.length = Decimal[rq.lines[j][2]] % Modulus
    BY Interpreting
  <1>3. HeaderLength(h) = IF name = "Content-Length" /\ L # {} THEN {AsInt(parsed.length)} ELSE {}
    BY <1>1, <1>2, Zenon DEF HeaderLength
  <1>4. L \subseteq J
    BY DEF lengthLines
  <1>5. ASSUME name = "Content-Length", Legible(rq), J # {}
        PROVE  \E j \in J : HeaderLength(h) = {Decimal[rq.lines[j][2]]}
    <2>1. L = J
      BY <1>5 DEF lengthLines, Legible
    <2> HIDE DEF L
    <2>2. PICK j \in J : parsed.length = Decimal[rq.lines[j][2]] % Modulus
      BY <1>2, <1>5, <2>1
    <2> DEFINE n == Decimal[rq.lines[j][2]]
    <2>3. n \in Nat /\ n < Modulus \div 2 /\ Modulus \in Nat \ {0}
      <3>1. rq.lines[j][2] \in DOMAIN Decimal /\ Decimal \in [DOMAIN Decimal -> Nat]
        BY TapAssumption
      <3>2. n < Modulus \div 2
        BY <1>5 DEF Legible
      <3> QED BY <3>1, <3>2, TapAssumption
    <2> HIDE DEF n
    <2>4. n % Modulus = n /\ AsInt(n) = n
      BY <2>3 DEF AsInt
    <2>5. HeaderLength(h) = {n}
      BY <1>3, <1>5, <2>1, <2>2, <2>4 DEF n
    <2> QED BY <2>5 DEF n
  <1> HIDE DEF L
  <1>6. name # "Content-Length" \/ J = {} => HeaderLength(h) = {}
    BY <1>3, <1>4
  <1>7. CASE name = "Content-Length"
    BY <1>5, <1>6, <1>7
  <1>8. CASE name # "Content-Length"
    BY <1>6, <1>8
  <1> QED BY <1>7, <1>8

\* What tap_tcl_add_header does with a name that is in its place.
LEMMA AddHeaderAdds ==
  ASSUME NEW name \in Added, InPlace(http_response_header_names, name),
         NEW m, m = tap_tcl_add_header(name)
  PROVE  /\ m.cmd = "add-header" /\ m.name = name
         /\ m.ok = (name \in Known(http_response_header_names))
         /\ m.ok => m.value = name
  <1> DEFINE h  == minuted_tap_response_header(name)
             ls == http_response_header_names
             v  == IF h = 0 THEN None ELSE ls[h + 1]
  <1>1. m = [cmd |-> "add-header", name |-> name, ok |-> h # 0, value |-> v, number |-> {}]
    BY Zenon DEF tap_tcl_add_header
  <1>2. /\ h \in Nat /\ (h # 0 <=> name \in Known(ls))
        /\ h # 0 => h + 1 \in 2 .. Len(ls) /\ ls[h + 1] = name
    <2>1. name \in ToSet(Alphabet)
      BY TapAssumption
    <2>2. h = Number(minuted_tap_binary_search(name, ls))
      BY Zenon DEF minuted_tap_response_header
    <2> HIDE DEF h
    <2> QED BY <2>1, <2>2, Looked
  <1> HIDE DEF h
  <1>3. m.cmd = "add-header" /\ m.name = name /\ m.ok = (h # 0) /\ m.value = v
    BY <1>1
  <1>4. (h # 0) = (name \in Known(ls))
    <2>1. h # 0 <=> name \in Known(ls)
      BY <1>2
    <2> QED BY <2>1
  <1> QED BY <1>2, <1>3, <1>4, Zenon

\* Every step but its own two forgets how the meta object was used, or leaves that and
\* the request alone.
LEMMA MetaSteps ==
  ASSUME [Next]_vars
  PROVE  GetHeader \/ AddHeader \/ meta' = NoMeta \/ UNCHANGED <<meta, asked>>
  <1>1. CASE Accept \/ ReadNone \/ Read \/ ReadBad \/ End \/ Close \/ Restart
    BY <1>1, Zenon DEF Accept, ReadNone, Read, ReadBad, End, Close, Restart, Forget, Fresh
  <1>2. CASE HeadersCall \/ HeadRefused \/ HeadersReturn \/ HeadersFail
               \/ PayloadNone \/ PayloadCall \/ PayloadReturn \/ PayloadFail \/ ReturnNothing
    BY <1>2, Zenon
    DEF HeadersCall, HeadRefused, HeadersReturn, HeadersFail, PayloadNone, PayloadCall,
        PayloadReturn, PayloadFail, ReturnNothing, InRequest, Call
  <1>3. CASE Answer \/ ResponseCrash \/ ResponseCall \/ ResponseReturn
    BY <1>3, Zenon DEF Answer, ResponseCrash, ResponseCall, ResponseReturn, InRequest, Call
  <1>4. CASE Server \/ UNCHANGED vars
    BY <1>4 DEF Server, vars, tapvars
  <1> QED BY <1>1, <1>2, <1>3, <1>4, Zenon DEF Next, Child

\* No use of the meta object is neither of its two.
LEMMA NoMetaIs == NoMeta.cmd # "get-header" /\ NoMeta.cmd # "add-header"
  BY DEF NoMeta, None

\* get-header tells an application what this request of its client says (tap.c,
\* tap_tcl_get_header over the record and the buffers of minute_http_read), whatever the
\* header lines and the requests before it, for every name that the model has; of lengths,
\* for those that fit an int.
THEOREM HeaderGotHolds == Spec => []HeaderGot
  <1>1. Init => HeaderGot
    BY NoMetaIs DEF Init, TapInit, HeaderGot
  <1>2. ASSUME HeaderGot, Parsing, [Next]_vars PROVE HeaderGot'
    <2>1. CASE GetHeader
      <3>1. rq' = rq
        BY <2>1 DEF GetHeader, InProc, InRequest, rq
      <3>2. PICK name \in Asked : meta' = tap_tcl_get_header(name)
        BY <2>1 DEF GetHeader
      <3>3. rq \in Requests /\ parsed = Interpret(NoRequest, rq)
        BY <1>2, <2>1 DEF GetHeader, Parsing, InHandling
      <3> DEFINE h == minuted_tap_request_header(name)
      <3>4. meta' = [cmd |-> "get-header", name |-> name, ok |-> h # 0,
                     value |-> HeaderText(h), number |-> HeaderLength(h)]
        BY <3>2, Zenon DEF tap_tcl_get_header
      <3>5. (h # 0) = (name \in Known(http_request_header_names))
        BY Looking
      <3>6. HeaderText(h) =
              CASE h # 0 /\ name \notin Interpreted -> Value(rq, name)
                [] name = "Transfer-Encoding" /\ chunkedLines(rq) # {} -> "chunked"
                [] OTHER -> None
        BY <3>3, TextGiven, Zenon
      <3>7. /\ name = "Content-Length" /\ Legible(rq) /\ Lines(rq, name) # {} =>
                  \E j \in Lines(rq, name) : HeaderLength(h) = {Decimal[rq.lines[j][2]]}
            /\ name # "Content-Length" \/ Lines(rq, name) = {} => HeaderLength(h) = {}
        BY <3>3, LengthGiven, Zenon
      <3> HIDE DEF h
      <3>8. /\ meta'.cmd = "get-header" /\ meta'.name = name /\ meta'.ok = (h # 0)
            /\ meta'.value = HeaderText(h) /\ meta'.number = HeaderLength(h)
        BY <3>4
      <3> QED BY <3>1, <3>5, <3>6, <3>7, <3>8, Zenon DEF HeaderGot
    <2>2. CASE AddHeader
      <3>1. meta'.cmd = "add-header"
        BY <2>2 DEF AddHeader, tap_tcl_add_header
      <3> QED BY <3>1 DEF HeaderGot
    <2>3. CASE meta' = NoMeta
      BY <2>3, NoMetaIs DEF HeaderGot
    <2>4. CASE UNCHANGED <<meta, asked>>
      BY <1>2, <2>4 DEF HeaderGot, rq
    <2> QED BY <1>2, <2>1, <2>2, <2>3, <2>4, MetaSteps
  <1> QED BY <1>1, <1>2, ParsingInit, ParsingNext, PTL DEF Spec

\* add-header writes the header it is told to (tap.c, tap_tcl_add_header): for the names
\* that the table of the response has in the order of the alphabet.
THEOREM HeaderAddedHolds ==
  ASSUME \A name \in Added : InPlace(http_response_header_names, name)
  PROVE  Spec => []HeaderAdded
  <1>1. Init => HeaderAdded
    BY NoMetaIs DEF Init, TapInit, HeaderAdded
  <1>2. ASSUME HeaderAdded, [Next]_vars PROVE HeaderAdded'
    <2>1. CASE GetHeader
      <3>1. meta'.cmd = "get-header"
        BY <2>1 DEF GetHeader, tap_tcl_get_header
      <3> QED BY <3>1 DEF HeaderAdded
    <2>2. CASE AddHeader
      <3>1. PICK name \in Added : meta' = tap_tcl_add_header(name)
        BY <2>2 DEF AddHeader
      <3>2. /\ meta'.name = name /\ meta'.ok = (name \in Known(http_response_header_names))
            /\ meta'.ok => meta'.value = name
        BY <3>1, AddHeaderAdds
      <3> QED BY <3>2 DEF HeaderAdded
    <2>3. CASE meta' = NoMeta
      BY <2>3, NoMetaIs DEF HeaderAdded
    <2>4. CASE UNCHANGED <<meta, asked>>
      BY <1>2, <2>4 DEF HeaderAdded
    <2> QED BY <1>2, <2>1, <2>2, <2>3, <2>4, MetaSteps
  <1> QED BY <1>1, <1>2, PTL DEF Spec

---------------------------------------------------------------------------
(* The Host lines                                                          *)

\* The host that a request asks for, and what minuted_tap_head looks for.
LEMMA HostAsked ==
  ASSUME NEW q \in Requests, OneHost(q)
  PROVE  HostOf(q) = IF hostLines(q) = {} THEN "default" ELSE LastOf(q, hostLines(q))
  <1> DEFINE lines == Lines(q, "Host")
  <1>1. hostLines(q) = lines
    <2>1. http_rq_host \in 1 .. 36 /\ "Host" = http_request_header_names[http_rq_host + 1]
      BY Entries DEF http_rq_host
    <2>2. "Host" \notin Interpreted
      BY DEF Interpreted
    <2> QED BY <2>1, <2>2, TextIs DEF hostLines
  <1>2. Value(q, "Host") = IF lines = {} THEN None ELSE FirstOf(q, lines)
    BY Zenon DEF Value
  <1>3. \A j, k \in lines : q.lines[j][2] = q.lines[k][2] /\ q.lines[j][2] # None
    BY Zenon DEF OneHost
  <1>5. Len(q.lines) \in Nat /\ lines \in SUBSET (1 .. Len(q.lines))
    BY LinesAre
  <1> HIDE DEF lines
  <1>6. CASE lines = {}
    BY <1>1, <1>2, <1>6, Zenon DEF HostOf
  <1>7. CASE lines # {}
    <2> DEFINE first == CHOOSE j \in lines : \A k \in lines : j <= k
               last  == CHOOSE j \in lines : \A k \in lines : j >= k
    <2>1. /\ \E j \in lines : \A k \in lines : j <= k
          /\ \E j \in lines : \A k \in lines : j >= k
      BY <1>5, <1>7, Ends
    <2>2. first \in lines /\ last \in lines
      BY <2>1, Zenon
    <2>3. FirstOf(q, lines) = q.lines[first][2] /\ LastOf(q, lines) = q.lines[last][2]
      BY Zenon DEF FirstOf, LastOf
    <2> HIDE DEF first, last
    <2>4. FirstOf(q, lines) = LastOf(q, lines) /\ FirstOf(q, lines) # None
      BY <1>3, <2>2, <2>3, Zenon
    <2>5. Value(q, "Host") = FirstOf(q, lines)
      BY <1>2, <1>7, Zenon
    <2>6. HostOf(q) = FirstOf(q, lines)
      BY <2>4, <2>5, Zenon DEF HostOf
    <2> QED BY <1>1, <1>7, <2>4, <2>6, Zenon
  <1> QED BY <1>6, <1>7

---------------------------------------------------------------------------
(* What a proc is told of the proc before it                               *)

Fields == {"vhost", "host", "path", "method", "status", "code"}

\* The record of minuted_tap_handle is clean until a proc of the request has returned;
\* from then on it holds what the last proc to return has returned, or nothing.
Passing ==
    /\ DOMAIN rqd = Fields
    /\ at \in {"idle", "read", "head", "headers"} => rqd.status = NoResult
    /\ at \in {"head", "headers"} => result = NoResult
    /\ at \in {"payloadcall", "payload", "line", "responsecall", "response"} =>
          rqd.status = result /\ (result = NoResult \/ result.rq = Len(asked))
    /\ at \in {"payloadcall", "payload", "response"} => result.rq = Len(asked)
    /\ at = "crashed" => result = NoResult \/ result.code = NoElement

\* The invariant implies the property.
LEMMA PassingIsEnough == Passing => ResultPassed
  BY DEF Passing, ResultPassed

\* minuted_tap_handle begins with a clean record.
LEMMA PassingInit == Init => Passing
  BY DEF Init, TapInit, Passing, rqd_init, Fields

\* Between two requests and between two connections the record is reset.
LEMMA PassingBetween ==
  ASSUME Passing, Accept \/ ReadNone \/ Read \/ ReadBad \/ End \/ Close \/ Restart
  PROVE  Passing'
  <1> USE DEF Passing, Fields, rqd_init
  <1>1. CASE Accept       BY <1>1 DEF Accept
  <1>2. CASE ReadNone     BY <1>2 DEF ReadNone, Reading, minuted_tap_reset
  <1>3. CASE Read         BY <1>3 DEF Read, Reading, Fresh
  <1>4. CASE ReadBad      BY <1>4 DEF ReadBad, Reading
  <1>5. CASE End          BY <1>5 DEF End, minuted_tap_reset
  <1>6. CASE Close        BY <1>6 DEF Close, Forget
  <1>7. CASE Restart      BY <1>7 DEF Restart, Forget
  <1> QED BY <1>1, <1>2, <1>3, <1>4, <1>5, <1>6, <1>7

\* minuted_tap_head and minuted_tap_payload set the record to what their proc returned,
\* and leave it when there is no such proc or when it fails.
LEMMA PassingHead ==
  ASSUME Passing,
         HeadersCall \/ HeadRefused \/ HeadersReturn \/ HeadersFail
            \/ PayloadNone \/ PayloadCall \/ PayloadReturn \/ PayloadFail \/ ReturnNothing
  PROVE  Passing'
  <1> USE DEF Passing, Fields, InRequest
  <1>1. CASE HeadersCall    BY <1>1 DEF HeadersCall
  <1>2. CASE HeadRefused    BY <1>2 DEF HeadRefused
  <1>3. CASE HeadersReturn  BY <1>3 DEF HeadersReturn, Returned
  <1>4. CASE HeadersFail    BY <1>4 DEF HeadersFail
  <1>5. CASE PayloadNone    BY <1>5 DEF PayloadNone
  <1>6. CASE PayloadCall    BY <1>6 DEF PayloadCall
  <1>7. CASE PayloadReturn  BY <1>7 DEF PayloadReturn, Returned
  <1>8. CASE PayloadFail    BY <1>8 DEF PayloadFail
  <1>9. CASE ReturnNothing  BY <1>9 DEF ReturnNothing, Returned
  <1> QED BY <1>1, <1>2, <1>3, <1>4, <1>5, <1>6, <1>7, <1>8, <1>9

\* minuted_tap_response hands the record on, or crashes for want of one; the meta
\* object and the rest of the server do not touch it.
LEMMA PassingResponse ==
  ASSUME Passing,
         Answer \/ ResponseCrash \/ ResponseCall \/ ResponseReturn
            \/ GetHeader \/ AddHeader \/ Server \/ UNCHANGED vars
  PROVE  Passing'
  <1> USE DEF Passing, InRequest
  <1>1. CASE Answer          BY <1>1 DEF Answer
  <1>2. CASE ResponseCrash   BY <1>2 DEF ResponseCrash
  <1>3. CASE ResponseCall    BY <1>3 DEF ResponseCall
  <1>4. CASE ResponseReturn  BY <1>4 DEF ResponseReturn
  <1>5. CASE GetHeader       BY <1>5 DEF GetHeader, InProc
  <1>6. CASE AddHeader       BY <1>6 DEF AddHeader, InProc
  <1>7. CASE Server          BY <1>7 DEF Server, tapvars
  <1>8. CASE UNCHANGED vars  BY <1>8 DEF vars, tapvars
  <1> QED BY <1>1, <1>2, <1>3, <1>4, <1>5, <1>6, <1>7, <1>8

\* No proc is given the result of another request, and none is called without a result
\* to give it (tap.c, minuted_tap_head to minuted_tap_response).
THEOREM ResultPassedHolds == Spec => []ResultPassed
  <1>1. Passing /\ [Next]_vars => Passing'
    BY PassingBetween, PassingHead, PassingResponse DEF Next, Child
  <1> QED BY <1>1, PassingInit, PassingIsEnough, PTL DEF Spec

---------------------------------------------------------------------------
(* The server process                                                      *)

\* A child changes nothing of it.
LEMMA ServerSteps ==
  ASSUME [Next]_vars
  PROVE  ServeNext \/ PreforkReturns \/ UNCHANGED servevars
  <1>1. CASE Accept \/ ReadNone \/ Read \/ ReadBad \/ End \/ Close \/ Restart
    BY <1>1, Zenon
    DEF Accept, ReadNone, Read, ReadBad, End, Close, Restart, Forget, Reading, InChild
  <1>2. CASE HeadersCall \/ HeadRefused \/ HeadersReturn \/ HeadersFail
               \/ PayloadNone \/ PayloadCall \/ PayloadReturn \/ PayloadFail \/ ReturnNothing
    BY <1>2, Zenon
    DEF HeadersCall, HeadRefused, HeadersReturn, HeadersFail, PayloadNone, PayloadCall,
        PayloadReturn, PayloadFail, ReturnNothing, InRequest, InChild
  <1>3. CASE Answer \/ ResponseCrash \/ ResponseCall \/ ResponseReturn \/ GetHeader \/ AddHeader
    BY <1>3, Zenon
    DEF Answer, ResponseCrash, ResponseCall, ResponseReturn, GetHeader, AddHeader, InProc,
        InRequest, InChild
  <1>4. CASE Server
    BY <1>4 DEF Server
  <1>5. CASE UNCHANGED vars
    BY <1>5 DEF vars
  <1> QED BY <1>1, <1>2, <1>3, <1>4, <1>5, Zenon DEF Next, Child

\* With a proper configuration and no failing call the server goes on until SIGTERM, over
\* any number of reloads (main.c, minuted_serve).
THEOREM SurvivesHolds == Spec => []Survives
  <1>1. SurvivesInv /\ [Next]_vars => SurvivesInv'
    BY ServerSteps, SurvivesNext
  <1>2. Init => SurvivesInv
    BY SurvivesInit DEF Init
  <1> QED BY <1>1, <1>2, SurvivesIsEnough, PTL DEF Spec

\* What was set up stays while there are children.
LEMMA WhileServing ==
  ASSUME mpc = "prefork", ServeNext \/ UNCHANGED servevars
  PROVE  UNCHANGED <<conf, mpc, runstate, loaded>>
  <1>1. CASE Edit              BY <1>1 DEF Edit
  <1>2. CASE LeftoverEnds      BY <1>2 DEF LeftoverEnds, Serving
  <1>3. CASE UNCHANGED servevars  BY <1>3 DEF servevars
  <1> QED
    BY <1>1, <1>2, <1>3
    DEF ServeNext, Configure, Daemonize, Switch, Begin, Listen, ListenFail, ListenDone, Load,
        LoadFail, LoadDone, Cleanup

---------------------------------------------------------------------------
(* Where a request ends up                                                 *)

\* What the configuration declares for the request.
Meant     == Declared(loaded, Socket, HostOf(rq))
MeantHost == HostFor(loaded, Socket, HostOf(rq))

\* A connection lasts for less than a round of the server, and a request that was parsed
\* is handled with the virtual host that is meant.
Reached ==
    /\ asked \in Seq(Requests \cup {Bad})
    /\ DOMAIN rqd = Fields
    /\ at # "idle" => mpc = "prefork" /\ listenId \in DOMAIN ssocks
    /\ at \in {"idle", "read", "head", "close"} => rqd = rqd_init
    /\ at \in InHandling \cup {"head", "line"} => rq \in Requests
    /\ at \in InHandling => rqd.vhost # 0 /\ vs[rqd.vhost].app = Meant /\ Meant # None
    /\ at \in {"line", "end"} /\ rq # Bad =>
          /\ rqd.vhost # 0 => vs[rqd.vhost].app = Meant
          /\ rqd.vhost = 0 <=> Meant = None
    /\ at \in InHandling \cup {"line", "end"} /\ rq # Bad =>
          rqd.path = rq.path /\ rqd.host = MeantHost
    /\ at \in {"headers", "payload", "response"} =>
          called = [app |-> Meant, proc |-> at, path |-> rq.path]

\* The host that minuted_tap_head looks for, and what it finds.
LEMMA HostMeant ==
  ASSUME \A q \in Requests : OneHost(q), SetUp, listenId \in DOMAIN ssocks, rq \in Requests
  PROVE  /\ acthost = MeantHost
         /\ acthost \in Keys(vhosts) =>
               /\ acthost \in Keys(vhostMap) /\ Lookup(vhostMap, acthost) # 0
               /\ vs[Lookup(vhostMap, acthost)].app = Meant /\ Meant # None
         /\ acthost \notin Keys(vhosts) => Meant = None
  <1> DEFINE h == HostOf(rq)
             lines == hostLines(rq)
  <1>1. h = IF lines = {} THEN "default" ELSE LastOf(rq, lines)
    BY HostAsked
  <1>2. /\ Keys(vhosts) = Assigned(loaded, Socket)
        /\ \A g \in Keys(vhosts) :
              /\ g \in Keys(vhostMap) /\ Lookup(vhostMap, g) # 0
              /\ vs[Lookup(vhostMap, g)].app = AppOf(loaded, g) /\ AppOf(loaded, g) # None
    BY DEF SetUp, vhosts, Socket
  <1>3. acthost = IF lines # {} /\ LastOf(rq, lines) \in Keys(vhosts) THEN LastOf(rq, lines) ELSE "default"
    BY Zenon DEF acthost
  <1> HIDE DEF lines, h
  <1>4. acthost = IF h \in Keys(vhosts) THEN h ELSE "default"
    BY <1>1, <1>3
  <1>5. acthost = MeantHost
    BY <1>2, <1>4, Zenon DEF MeantHost, HostFor, h
  <1>6. Meant = IF acthost \in Keys(vhosts) THEN AppOf(loaded, acthost) ELSE None
    BY <1>2, <1>5, Zenon DEF Meant, Declared, MeantHost
  <1>7. CASE acthost \in Keys(vhosts)
    BY <1>2, <1>5, <1>6, <1>7, Zenon
  <1>8. CASE acthost \notin Keys(vhosts)
    BY <1>5, <1>6, <1>8, Zenon
  <1> QED BY <1>7, <1>8

\* What is meant depends on the last request, the socket and the file only.
LEMMA MeantStays ==
  ASSUME UNCHANGED <<loaded, ssocks, listenId, asked>>
  PROVE  rq' = rq /\ Meant' = Meant /\ MeantHost' = MeantHost
  BY Zenon DEF rq, Meant, MeantHost, Socket

LEMMA ReachedInit == Init => Reached
  BY PassingInit DEF Init, TapInit, Reached, Passing, InHandling

\* Between requests.
LEMMA ReachedBetween ==
  ASSUME Reached, Passing, SetUpInv,
         Accept \/ ReadNone \/ Read \/ ReadBad \/ End \/ Close \/ Restart
  PROVE  Reached'
  <1> USE DEF Reached, InHandling
  <1>1. DOMAIN rqd' = Fields
    BY PassingBetween DEF Passing
  <1>2. CASE Accept
    BY <1>1, <1>2 DEF Accept, InChild, servevars, runstate
  <1>3. CASE ReadNone
    BY <1>1, <1>3 DEF ReadNone, Reading, InChild, servevars, runstate, minuted_tap_reset
  <1>4. CASE Read
    <2>1. PICK q \in Requests : asked' = Append(asked, q)
      BY <1>4 DEF Read
    <2>2. asked' \in Seq(Requests \cup {Bad}) /\ asked' # <<>> /\ rq' = q
      BY <2>1, LastAsked DEF rq
    <2>3. QED BY <1>1, <1>4, <2>2 DEF Read, Reading, InChild, servevars, runstate
  <1>5. CASE ReadBad
    <2>1. asked' = Append(asked, Bad)
      BY <1>5 DEF ReadBad
    <2>2. asked' \in Seq(Requests \cup {Bad}) /\ rq' = Bad
      BY <2>1, LastAsked DEF rq
    <2>3. QED BY <1>1, <1>5, <2>2 DEF ReadBad, Reading, InChild, servevars, runstate
  <1>6. CASE End
    BY <1>1, <1>6 DEF End, InChild, servevars, runstate, minuted_tap_reset
  <1>7. CASE Close
    BY <1>1, <1>7 DEF Close, Forget, InChild, servevars, runstate
  <1>8. CASE Restart
    BY <1>1, <1>8 DEF Restart, Forget, InChild, servevars, runstate
  <1> QED BY <1>2, <1>3, <1>4, <1>5, <1>6, <1>7, <1>8, Zenon

\* The virtual host is looked up.
LEMMA ReachedHead ==
  ASSUME \A q \in Requests : OneHost(q), SetUp, Reached, HeadersCall \/ HeadRefused
  PROVE  Reached'
  <1>1. /\ at = "head" /\ listenId \in DOMAIN ssocks /\ rq \in Requests /\ mpc = "prefork"
        /\ rqd = rqd_init /\ DOMAIN rqd = Fields /\ asked \in Seq(Requests \cup {Bad})
    BY DEF HeadersCall, HeadRefused, Reached, InHandling
  <1>2. UNCHANGED <<servevars, listenId, asked>>
    BY DEF HeadersCall, HeadRefused, InRequest, InChild
  <1>3. /\ rq' = rq /\ Meant' = Meant /\ MeantHost' = MeantHost /\ vs' = vs /\ mpc' = mpc
        /\ ssocks' = ssocks /\ listenId' = listenId /\ asked' = asked
    BY <1>2, MeantStays DEF servevars, runstate
  <1>4. /\ acthost = MeantHost
        /\ acthost \in Keys(vhosts) =>
               /\ acthost \in Keys(vhostMap) /\ Lookup(vhostMap, acthost) # 0
               /\ vs[Lookup(vhostMap, acthost)].app = Meant /\ Meant # None
        /\ acthost \notin Keys(vhosts) => Meant = None
    BY <1>1, HostMeant
  <1>5. CASE HeadersCall
    <2>1. /\ rqd' = [rqd EXCEPT !.host = acthost, !.path = rq.path,
                                !.vhost = Lookup(vhostMap, acthost)]
          /\ called' = [app |-> vs[rqd'.vhost].app, proc |-> "headers", path |-> rq.path]
          /\ at' = "headers" /\ acthost \in Keys(vhosts)
      BY <1>5 DEF HeadersCall, Call
    <2>2. /\ rqd'.vhost = Lookup(vhostMap, acthost) /\ rqd'.host = acthost
          /\ rqd'.path = rq.path /\ DOMAIN rqd' = Fields
      BY <1>1, <2>1 DEF Fields
    <2>3. QED BY <1>1, <1>3, <1>4, <2>1, <2>2 DEF Reached, InHandling
  <1>6. CASE HeadRefused
    <2>1. /\ rqd' = [rqd EXCEPT !.host = acthost, !.path = rq.path,
                                !.method = rq.method, !.code = status']
          /\ at' = "line" /\ Meant = None
      BY <1>4, <1>6 DEF HeadRefused
    <2>2. /\ rqd'.vhost = 0 /\ rqd'.host = acthost
          /\ rqd'.path = rq.path /\ DOMAIN rqd' = Fields
      BY <1>1, <2>1 DEF Fields, rqd_init
    <2>3. QED BY <1>1, <1>3, <1>4, <2>1, <2>2 DEF Reached, InHandling
  <1> QED BY <1>5, <1>6

\* The procs are called for it one after the other.
LEMMA ReachedProcs ==
  ASSUME Reached,
         HeadersReturn \/ HeadersFail \/ PayloadNone \/ PayloadCall \/ PayloadReturn
            \/ PayloadFail \/ ReturnNothing \/ Answer \/ ResponseCrash \/ ResponseCall
            \/ ResponseReturn \/ GetHeader \/ AddHeader
  PROVE  Reached'
  <1>1. UNCHANGED <<servevars, listenId, asked>>
    BY Zenon
    DEF HeadersReturn, HeadersFail, PayloadNone, PayloadCall, PayloadReturn,
        PayloadFail, ReturnNothing, Answer, ResponseCrash, ResponseCall,
        ResponseReturn, GetHeader, AddHeader, InProc, InRequest, InChild
  <1>2. /\ rq' = rq /\ Meant' = Meant /\ MeantHost' = MeantHost /\ vs' = vs /\ mpc' = mpc
        /\ ssocks' = ssocks /\ listenId' = listenId /\ asked' = asked
    BY <1>1, MeantStays DEF servevars, runstate
  <1>3. \A q \in Requests : q # Bad
    BY TapAssumption
  <1> USE DEF Reached, InHandling
  <1>4. CASE HeadersReturn
    <2>1. /\ at = "headers" /\ at' \in {"payloadcall", "line"} /\ DOMAIN rqd' = Fields
          /\ rqd'.vhost = rqd.vhost /\ rqd'.host = rqd.host /\ rqd'.path = rqd.path
      BY <1>4 DEF HeadersReturn, Fields
    <2>2. QED BY <1>2, <1>3, <2>1
  <1>5. CASE HeadersFail
    <2>1. /\ at = "headers" /\ at' = "line" /\ DOMAIN rqd' = Fields
          /\ rqd'.vhost = rqd.vhost /\ rqd'.host = rqd.host /\ rqd'.path = rqd.path
      BY <1>5 DEF HeadersFail, Fields
    <2>2. QED BY <1>2, <1>3, <2>1
  <1>6. CASE PayloadNone
    <2>1. /\ at = "payloadcall" /\ at' = "line" /\ DOMAIN rqd' = Fields
          /\ rqd'.vhost = rqd.vhost /\ rqd'.host = rqd.host /\ rqd'.path = rqd.path
      BY <1>6 DEF PayloadNone, Fields
    <2>2. QED BY <1>2, <1>3, <2>1
  <1>7. CASE PayloadCall
    <2>1. /\ at = "payloadcall" /\ at' = "payload" /\ rqd' = rqd
          /\ called' = [app |-> vs[rqd.vhost].app, proc |-> "payload", path |-> rqd.path]
      BY <1>7 DEF PayloadCall, Call
    <2>2. QED BY <1>2, <1>3, <2>1
  <1>8. CASE PayloadReturn
    <2>1. /\ at = "payload" /\ at' = "line" /\ DOMAIN rqd' = Fields
          /\ rqd'.vhost = rqd.vhost /\ rqd'.host = rqd.host /\ rqd'.path = rqd.path
      BY <1>8 DEF PayloadReturn, Fields
    <2>2. QED BY <1>2, <1>3, <2>1
  <1>9. CASE PayloadFail
    <2>1. /\ at = "payload" /\ at' = "line" /\ DOMAIN rqd' = Fields
          /\ rqd'.vhost = rqd.vhost /\ rqd'.host = rqd.host /\ rqd'.path = rqd.path
      BY <1>9 DEF PayloadFail, Fields
    <2>2. QED BY <1>2, <1>3, <2>1
  <1>10. CASE ReturnNothing
    BY <1>2, <1>10 DEF ReturnNothing
  <1>11. CASE Answer
    <2>1. /\ at = "line" /\ at' \in {"end", "responsecall"} /\ rqd' = rqd
          /\ at' = "responsecall" => rqd.vhost # 0
      BY <1>11 DEF Answer
    <2>2. QED BY <1>2, <1>3, <2>1
  <1>12. CASE ResponseCrash
    BY <1>2, <1>12 DEF ResponseCrash
  <1>13. CASE ResponseCall
    <2>1. /\ at = "responsecall" /\ at' = "response" /\ rqd' = rqd
          /\ called' = [app |-> vs[rqd.vhost].app, proc |-> "response", path |-> rqd.path]
      BY <1>13 DEF ResponseCall, Call
    <2>2. QED BY <1>2, <1>3, <2>1
  <1>14. CASE ResponseReturn
    <2>1. at = "response" /\ at' = "end" /\ rqd' = rqd
      BY <1>14 DEF ResponseReturn
    <2>2. QED BY <1>2, <1>3, <2>1
  <1>15. CASE GetHeader \/ AddHeader
    <2>1. at' = at /\ rqd' = rqd /\ called' = called
      BY <1>15 DEF GetHeader, AddHeader, InProc
    <2>2. QED BY <1>2, <2>1
  <1> QED
    BY <1>4, <1>5, <1>6, <1>7, <1>8, <1>9, <1>10, <1>11, <1>12, <1>13, <1>14, <1>15, Zenon

\* A step of the server: while there are children it changes nothing they look at.
LEMMA ReachedServer ==
  ASSUME Reached, Passing, Server \/ UNCHANGED vars
  PROVE  Reached'
  <1>1. UNCHANGED tapvars
    BY DEF Server, vars
  <1>2. CASE at = "idle"
    BY <1>1, <1>2 DEF tapvars, Reached, InHandling
  <1>3. CASE at # "idle"
    <2>1. mpc = "prefork" /\ (ServeNext \/ UNCHANGED servevars)
      BY <1>3 DEF Reached, Server, vars
    <2>2. UNCHANGED <<conf, mpc, runstate, loaded>>
      BY <2>1, WhileServing
    <2>3. UNCHANGED <<loaded, ssocks, listenId, asked, mpc, vs>>
      BY <1>1, <2>2 DEF runstate, tapvars
    <2>4. rq' = rq /\ Meant' = Meant /\ MeantHost' = MeantHost
      BY <2>3, MeantStays
    <2>5. UNCHANGED <<at, rqd, called>>
      BY <1>1 DEF tapvars
    <2> QED BY <2>3, <2>4, <2>5 DEF Reached, InHandling
  <1> QED BY <1>2, <1>3

\* What the invariant is for.
LEMMA ReachedIsEnough == Reached => Reaches
  <1> SUFFICES ASSUME Reached PROVE Reaches
    OBVIOUS
  <1>1. at \in {"headers", "payload", "response"} =>
            called = [app |-> Meant, proc |-> at, path |-> rq.path]
    BY DEF Reached
  <1>2. at \in {"line", "end"} /\ rq # Bad => (rqd.vhost = 0 <=> Meant = None)
    BY DEF Reached
  <1>3. (rqd.vhost = 0 <=> Meant = None) => (rqd.vhost = 0) = (Meant = None)
    BY Zenon
  <1> HIDE DEF Meant
  <1>4. Meant = Declared(loaded, Socket, HostOf(rq))
    BY DEF Meant
  <1> QED BY <1>1, <1>2, <1>3, <1>4, Zenon DEF Reaches

\* The round of the server that a child belongs to was set up as the file says.
LEMMA SetUpSteps ==
  ASSUME \A s \in Scripts : Plain(s), SetUpInv, mpc = "prefork"
  PROVE  SetUp
  <1>1. Plain(<<>>)
    BY DEF Plain, Commands, ToSet
  <1>2. Plain(loaded)
    BY <1>1 DEF SetUpInv, Configured
  <1> QED BY <1>2, SetUpHolds

ReachedInv == SurvivesInv /\ SetUpInv /\ Passing /\ Reached

LEMMA ReachedNext ==
  ASSUME \A q \in Requests : OneHost(q), \A s \in Scripts : Plain(s), ReachedInv, [Next]_vars
  PROVE  ReachedInv'
  <1> USE DEF ReachedInv
  <1>1. SurvivesInv'
    BY ServerSteps, SurvivesNext
  <1>2. SetUpInv'
    BY <1>1, ServerSteps, SetUpNext DEF SurvivesInv
  <1>3. Passing'
    BY PassingBetween, PassingHead, PassingResponse DEF Next, Child
  <1>4. Reached'
    <2>1. CASE Accept \/ ReadNone \/ Read \/ ReadBad \/ End \/ Close \/ Restart
      BY <2>1, ReachedBetween
    <2>2. CASE HeadersCall \/ HeadRefused
      <3>1. mpc = "prefork"
        BY <2>2 DEF Reached, HeadersCall, HeadRefused
      <3> QED BY <2>2, <3>1, SetUpSteps, ReachedHead
    <2>3. CASE HeadersReturn \/ HeadersFail \/ PayloadNone \/ PayloadCall \/ PayloadReturn
                  \/ PayloadFail \/ ReturnNothing \/ Answer \/ ResponseCrash \/ ResponseCall
                  \/ ResponseReturn \/ GetHeader \/ AddHeader
      BY <2>3, ReachedProcs
    <2>4. CASE Server \/ UNCHANGED vars
      BY <2>4, ReachedServer
    <2> QED BY <2>1, <2>2, <2>3, <2>4, Zenon DEF Next, Child
  <1> QED BY <1>1, <1>2, <1>3, <1>4

LEMMA ReachedInvInit == Init => ReachedInv
  BY SurvivesInit, SetUpInit, PassingInit, ReachedInit DEF Init, ReachedInv

\* Whatever the files, the reloads and the requests before it, a request is given to the
\* application that is declared for its address and its host (config.c, minuted.c,
\* minuted_tap_head): for files in which code and documentation agree, and requests with
\* one Host line, none, or several that say the same.
THEOREM ReachesHolds ==
  ASSUME \A q \in Requests : OneHost(q), \A s \in Scripts : Plain(s)
  PROVE  Spec => []Reaches
  <1>1. ReachedInv /\ [Next]_vars => ReachedInv'
    BY ReachedNext
  <1>2. ReachedInv => Reaches
    BY ReachedIsEnough DEF ReachedInv
  <1> QED BY <1>1, <1>2, ReachedInvInit, PTL DEF Spec

---------------------------------------------------------------------------
(* The log                                                                 *)

\* The lines for the first n requests of the connection.
LogLines(n) == [j \in 1 .. n |-> LineFor(asked[j], answered[j])]

\* One line for every request that is over, one code for every request that was answered;
\* and the record holds what the line will say.
Logged ==
    /\ asked \in Seq(Requests \cup {Bad}) /\ answered \in Seq(Int) /\ status \in Int
    /\ at = "idle" => asked = <<>> /\ answered = <<>> /\ log = <<>>
    /\ at \in {"read", "close"} =>
          Len(answered) = Len(asked) /\ log = LogLines(Len(asked))
    /\ at \in {"head", "headers", "payloadcall", "payload", "line"} =>
          /\ asked # <<>> /\ Len(answered) = Len(asked) - 1
          /\ log = LogLines(Len(asked) - 1)
    /\ at \in {"responsecall", "response", "end"} =>
          /\ asked # <<>> /\ Len(answered) = Len(asked)
          /\ log = LogLines(Len(asked) - 1) /\ answered[Len(asked)] = rqd.code
    /\ at = "line" => rqd.code = status
    /\ at \in {"payloadcall", "payload", "line", "responsecall", "response"} =>
          rqd.method = rq.method
    /\ at = "end" =>
          IF rq = Bad THEN rqd.host = None /\ rqd.path = None /\ rqd.method = "???"
                      ELSE rqd.method = rq.method

\* One more line.
LEMMA LineAppended ==
  ASSUME NEW n \in Nat, NEW x, x = LineFor(asked[n + 1], answered[n + 1])
  PROVE  Append(LogLines(n), x) = LogLines(n + 1)
  <1> DEFINE S == {LineFor(asked[j], answered[j]) : j \in 1 .. n + 1}
  <1>1. LogLines(n) \in [1 .. n -> S]
    BY DEF LogLines
  <1>2. LogLines(n) \in Seq(S) /\ Len(LogLines(n)) = n
    BY <1>1
  <1>3. \A m \in Nat : LogLines(m) = [j \in 1 .. m |-> LineFor(asked[j], answered[j])]
    BY DEF LogLines
  <1> HIDE DEF S
  <1>4. Append(LogLines(n), x) = [j \in 1 .. n + 1 |-> IF j = n + 1 THEN x ELSE LogLines(n)[j]]
    BY <1>2
  <1> QED BY <1>3, <1>4

\* The host that is meant is not the empty one.
LEMMA MeantHostIs == MeantHost # None
  <1>1. "default" # None
    BY DEF None
  <1>2. HostOf(rq) # None
    BY <1>1, Zenon DEF HostOf
  <1> QED BY <1>1, <1>2, Zenon DEF MeantHost, HostFor

\* What minuted_tap_access writes.
LEMMA AccessIs ==
  ASSUME Reached, Logged, at = "end"
  PROVE  Access = LineFor(rq, rqd.code)
  <1>1. CASE rq = Bad
    <2>1. rqd.host = None /\ rqd.path = None /\ rqd.method = "???"
      BY <1>1 DEF Logged
    <2>2. /\ LineFor(rq, rqd.code) = [host |-> "unknown", method |-> rq.method,
                                      path |-> rq.path, code |-> rqd.code]
          /\ rq.method = "???" /\ rq.path = "<none>"
      BY <1>1 DEF LineFor, Bad
    <2> QED BY <2>1, <2>2 DEF Access
  <1>2. CASE rq # Bad
    <2>1. rqd.path = rq.path /\ rqd.host = MeantHost /\ rqd.method = rq.method
      BY <1>2 DEF Reached, Logged, InHandling
    <2>2. LineFor(rq, rqd.code) = [host |-> MeantHost, method |-> rq.method,
                                   path |-> rq.path, code |-> rqd.code]
      BY <1>2, Zenon DEF LineFor, MeantHost
    <2>3. asked \in Seq(Requests \cup {Bad}) /\ asked # <<>>
      BY DEF Logged
    <2>4. rq \in Requests
      BY <1>2, <2>3 DEF rq, Last
    <2>5. rq.path # None
      BY <2>4, TapAssumption
    <2> QED BY <2>1, <2>2, <2>5, MeantHostIs DEF Access
  <1> QED BY <1>1, <1>2

LEMMA LoggedInit == Init => Logged
  BY DEF Init, TapInit, Logged

\* Between requests.
LEMMA LoggedBetween ==
  ASSUME Reached, Logged,
         Accept \/ ReadNone \/ Read \/ ReadBad \/ End \/ Close \/ Restart
  PROVE  Logged'
  <1>1. CASE Accept
    <2>1. /\ UNCHANGED <<asked, answered, log, status>> /\ at = "idle" /\ at' = "read"
          /\ asked = <<>> /\ answered = <<>> /\ log = <<>>
      BY <1>1 DEF Accept, Logged
    <2>2. LogLines(0)' = <<>>
      BY DEF LogLines
    <2> QED BY <2>1, <2>2 DEF Logged
  <1>2. CASE ReadNone
    <2>1. UNCHANGED <<asked, answered, log, status, loaded, ssocks, listenId>>
          /\ at = "read" /\ at' = "close"
      BY <1>2 DEF ReadNone, Reading, InChild, servevars, runstate
    <2>2. LogLines(Len(asked))' = LogLines(Len(asked))
      BY <2>1 DEF LogLines, LineFor, Socket
    <2> QED BY <2>1, <2>2 DEF Logged
  <1>3. CASE Read \/ ReadBad
    <2>1. /\ UNCHANGED <<log, loaded, ssocks, listenId>> /\ at = "read"
          /\ Len(answered) = Len(asked) /\ log = LogLines(Len(asked))
          /\ asked \in Seq(Requests \cup {Bad}) /\ answered \in Seq(Int)
      BY <1>3 DEF Read, ReadBad, Reading, InChild, servevars, runstate, Logged
    <2>2. PICK q \in Requests \cup {Bad} : asked' = Append(asked, q)
      BY <1>3 DEF Read, ReadBad
    <2>3. /\ asked' \in Seq(Requests \cup {Bad}) /\ asked' # <<>> /\ rq' = q
          /\ Len(asked') = Len(asked) + 1 /\ Len(asked) \in Nat
          /\ \A j \in 1 .. Len(asked) : asked'[j] = asked[j]
      BY <2>1, <2>2, LastAsked DEF rq
    <2>4. CASE Read
      <3>1. answered' = answered /\ at' = "head" /\ status' = 0
        BY <2>4 DEF Read
      <3>2. log' = (LogLines(Len(asked) - 1))'
        BY <2>1, <2>3, <3>1 DEF LogLines, LineFor, Socket
      <3> QED BY <2>1, <2>3, <3>1, <3>2 DEF Logged
    <2>5. CASE ReadBad
      <3>1. /\ answered' = Append(answered, 400) /\ at' = "end" /\ status' = 400
            /\ rqd' = [rqd EXCEPT !.code = 400] /\ rqd = rqd_init /\ asked' = Append(asked, Bad)
        BY <2>1, <2>5 DEF ReadBad, Reached
      <3>2. rqd' = [rqd_init EXCEPT !.code = 400] /\ rq' = Bad
        BY <2>1, <3>1, LastAsked DEF rq
      <3>3. rqd'.host = None /\ rqd'.path = None /\ rqd'.method = "???" /\ rqd'.code = 400
        BY <3>2 DEF rqd_init
      <3>4. /\ answered' \in Seq(Int) /\ Len(answered') = Len(asked')
            /\ answered'[Len(asked')] = 400
            /\ \A j \in 1 .. Len(asked) : answered'[j] = answered[j]
        BY <2>1, <2>3, <3>1
      <3>5. log' = (LogLines(Len(asked) - 1))'
        BY <2>1, <2>3, <3>4 DEF LogLines, LineFor, Socket
      <3> QED BY <2>1, <2>3, <3>1, <3>2, <3>3, <3>4, <3>5 DEF Logged
    <2> QED BY <1>3, <2>4, <2>5
  <1>4. CASE End
    <2>1. /\ UNCHANGED <<asked, answered, loaded, ssocks, listenId, status>>
          /\ at = "end" /\ at' \in {"read", "close"} /\ log' = Append(log, Access)
      BY <1>4 DEF End, InChild, servevars, runstate
    <2> DEFINE n == Len(asked) - 1
    <2>2. /\ n \in Nat /\ Len(asked) = n + 1 /\ Len(answered) = n + 1 /\ log = LogLines(n)
          /\ answered[n + 1] = rqd.code /\ rq = asked[n + 1]
      BY <2>1 DEF Logged, rq, Last
    <2>3. Access = LineFor(asked[n + 1], answered[n + 1])
      BY <2>1, <2>2, AccessIs
    <2>4. log' = LogLines(n + 1)
      <3> HIDE DEF n
      <3> QED BY <2>1, <2>2, <2>3, LineAppended
    <2>5. log' = (LogLines(Len(asked)))'
      BY <2>1, <2>2, <2>4 DEF LogLines, LineFor, Socket
    <2> QED BY <2>1, <2>2, <2>5 DEF Logged
  <1>5. CASE Close \/ Restart
    <2>1. asked' = <<>> /\ answered' = <<>> /\ log' = <<>> /\ at' = "idle" /\ status' = 0
      BY <1>5 DEF Close, Restart, Forget
    <2> QED BY <2>1 DEF Logged
  <1> QED BY <1>1, <1>2, <1>3, <1>4, <1>5

\* Up to the status line.
LEMMA LoggedHead ==
  ASSUME Reached, Logged,
         HeadersCall \/ HeadRefused \/ HeadersReturn \/ HeadersFail
            \/ PayloadNone \/ PayloadCall \/ PayloadReturn \/ PayloadFail \/ ReturnNothing
  PROVE  Logged'
  <1>1. /\ UNCHANGED <<asked, log, answered, loaded, ssocks, listenId>>
        /\ at \in {"head", "headers", "payloadcall", "payload"}
    BY DEF HeadersCall, HeadRefused, HeadersReturn, HeadersFail, PayloadNone, PayloadCall,
           PayloadReturn, PayloadFail, ReturnNothing, InRequest, InChild, servevars, runstate
  <1>2. /\ asked \in Seq(Requests \cup {Bad}) /\ answered \in Seq(Int) /\ status \in Int
        /\ asked # <<>> /\ Len(answered) = Len(asked) - 1
        /\ log = LogLines(Len(asked) - 1)
    BY <1>1 DEF Logged
  <1>3. (LogLines(Len(asked) - 1))' = LogLines(Len(asked) - 1)
    BY <1>1 DEF LogLines, LineFor, Socket
  <1>4. rq' = rq /\ DOMAIN rqd = Fields
    BY <1>1 DEF rq, Reached
  <1>5. \A c \in Results : Integer(c) \in Int
    BY TapAssumption DEF Integer, NotInteger, NoElement
  <1>6. CASE HeadersCall
    <2>1. at' = "headers" /\ status' = status
      BY <1>6 DEF HeadersCall
    <2> QED BY <1>1, <1>2, <1>3, <2>1 DEF Logged
  <1>7. CASE HeadRefused \/ HeadersReturn \/ HeadersFail
    <2>1. /\ at' \in {"line", "payloadcall"} /\ status' \in Int
          /\ rqd'.method = rq.method /\ rqd'.code = status'
      <3>1. CASE HeadRefused
        BY <1>4, <3>1 DEF HeadRefused, Fields
      <3>2. CASE HeadersReturn
        BY <1>4, <1>5, <3>2 DEF HeadersReturn, Fields
      <3>3. CASE HeadersFail
        BY <1>4, <3>3 DEF HeadersFail, Fields
      <3> QED BY <1>7, <3>1, <3>2, <3>3
    <2> QED BY <1>1, <1>2, <1>3, <1>4, <2>1 DEF Logged
  <1>8. CASE PayloadNone \/ PayloadReturn \/ PayloadFail
    <2>1. /\ at \in {"payloadcall", "payload"} /\ at' = "line" /\ status' \in Int
          /\ rqd'.method = rqd.method /\ rqd'.code = status'
      <3>1. CASE PayloadNone
        BY <1>4, <3>1 DEF PayloadNone, Fields
      <3>2. CASE PayloadReturn
        BY <1>4, <1>5, <3>2 DEF PayloadReturn, Fields
      <3>3. CASE PayloadFail
        BY <1>4, <3>3 DEF PayloadFail, Fields
      <3> QED BY <1>8, <3>1, <3>2, <3>3
    <2>2. rqd.method = rq.method
      BY <2>1 DEF Logged
    <2> QED BY <1>1, <1>2, <1>3, <1>4, <2>1, <2>2 DEF Logged
  <1>9. CASE PayloadCall
    <2>1. at = "payloadcall" /\ at' = "payload" /\ status' = status /\ rqd' = rqd
      BY <1>9 DEF PayloadCall
    <2>2. rqd.method = rq.method
      BY <2>1 DEF Logged
    <2> QED BY <1>1, <1>2, <1>3, <1>4, <2>1, <2>2 DEF Logged
  <1>10. CASE ReturnNothing
    <2>1. at' = "crashed" /\ status' = status
      BY <1>10 DEF ReturnNothing
    <2> QED BY <1>1, <1>2, <2>1 DEF Logged
  <1> QED BY <1>6, <1>7, <1>8, <1>9, <1>10

\* The status line and what follows.
LEMMA LoggedResponse ==
  ASSUME Reached, Logged,
         Answer \/ ResponseCrash \/ ResponseCall \/ ResponseReturn
            \/ GetHeader \/ AddHeader
  PROVE  Logged'
  <1>1. UNCHANGED <<asked, log, rqd, status, loaded, ssocks, listenId>> /\ rq' = rq
    BY DEF Answer, ResponseCrash, ResponseCall, ResponseReturn, GetHeader, AddHeader,
           InProc, InRequest, InChild, servevars, runstate, rq
  <1>2. asked \in Seq(Requests \cup {Bad}) /\ answered \in Seq(Int) /\ status \in Int
    BY DEF Logged
  <1>3. CASE Answer
    <2>1. at = "line" /\ at' \in {"end", "responsecall"} /\ answered' = Append(answered, status)
      BY <1>3 DEF Answer
    <2>2. /\ asked # <<>> /\ Len(answered) = Len(asked) - 1 /\ log = LogLines(Len(asked) - 1)
          /\ rqd.code = status /\ rqd.method = rq.method
      BY <2>1 DEF Logged
    <2>3. /\ answered' \in Seq(Int) /\ Len(answered') = Len(asked)
          /\ answered'[Len(asked)] = status
          /\ \A j \in 1 .. Len(asked) - 1 : answered'[j] = answered[j]
      BY <1>2, <2>1, <2>2
    <2>4. (LogLines(Len(asked) - 1))' = LogLines(Len(asked) - 1)
      BY <1>1, <2>3 DEF LogLines, LineFor, Socket
    <2>5. rq # Bad
      <3>1. rq \in Requests
        BY <2>1 DEF Reached, InHandling
      <3> QED BY <3>1, TapAssumption
    <2> QED BY <1>1, <1>2, <2>1, <2>2, <2>3, <2>4, <2>5 DEF Logged
  <1>4. CASE ResponseCrash
    <2>1. at' = "crashed" /\ answered' = answered
      BY <1>4 DEF ResponseCrash
    <2> QED BY <1>1, <1>2, <2>1 DEF Logged
  <1>5. CASE ResponseCall \/ ResponseReturn
    <2>1. /\ at \in {"responsecall", "response"} /\ at' \in {"response", "end"}
          /\ answered' = answered
      BY <1>5 DEF ResponseCall, ResponseReturn
    <2>2. /\ asked # <<>> /\ Len(answered) = Len(asked) /\ log = LogLines(Len(asked) - 1)
          /\ answered[Len(asked)] = rqd.code /\ rqd.method = rq.method
      BY <2>1 DEF Logged
    <2>3. (LogLines(Len(asked) - 1))' = LogLines(Len(asked) - 1)
      BY <1>1, <2>1 DEF LogLines, LineFor, Socket
    <2>4. rq # Bad
      <3>1. rq \in Requests
        BY <2>1 DEF Reached, InHandling
      <3> QED BY <3>1, TapAssumption
    <2> QED BY <1>1, <1>2, <2>1, <2>2, <2>3, <2>4 DEF Logged
  <1>6. CASE GetHeader \/ AddHeader
    <2>1. at' = at /\ answered' = answered
      BY <1>6 DEF GetHeader, AddHeader, InProc
    <2>2. \A n : LogLines(n)' = LogLines(n)
      BY <1>1, <2>1 DEF LogLines, LineFor, Socket
    <2> QED BY <1>1, <2>1, <2>2 DEF Logged
  <1> QED BY <1>3, <1>4, <1>5, <1>6

\* A step of the server.
LEMMA LoggedServer ==
  ASSUME Reached, Logged, Server \/ UNCHANGED vars
  PROVE  Logged'
  <1>1. UNCHANGED <<at, asked, answered, log, status, rqd, listenId>> /\ rq' = rq
    BY DEF Server, vars, tapvars, rq
  <1>2. CASE at = "idle"
    BY <1>1, <1>2 DEF Logged
  <1>3. CASE at # "idle"
    <2>1. mpc = "prefork" /\ (ServeNext \/ UNCHANGED servevars)
      BY <1>3 DEF Reached, Server, vars
    <2>2. UNCHANGED <<loaded, ssocks>>
      BY <2>1, WhileServing DEF runstate
    <2>3. \A n : LogLines(n)' = LogLines(n)
      BY <1>1, <2>2 DEF LogLines, LineFor, Socket
    <2> QED BY <1>1, <2>3 DEF Logged
  <1> QED BY <1>2, <1>3

LEMMA LoggedNext ==
  ASSUME Reached, Logged, [Next]_vars
  PROVE  Logged'
  BY LoggedBetween, LoggedHead, LoggedResponse, LoggedServer, Zenon DEF Next, Child

\* What the invariant is for.
LEMMA LoggedIsEnough == Logged => LogTrue
  <1> SUFFICES ASSUME Logged, at \in {"read", "close"}
               PROVE  /\ Len(answered) = Len(asked)
                      /\ log = [j \in DOMAIN asked |-> LineFor(asked[j], answered[j])]
    BY DEF LogTrue
  <1>1. Len(answered) = Len(asked) /\ log = LogLines(Len(asked)) /\ asked \in Seq(Requests \cup {Bad})
    BY DEF Logged
  <1> QED BY <1>1 DEF LogLines

\* Between two requests the log tells all that came before: one line each, with its own
\* host, method, path and code, nothing left from the request before (minuted_tap_access,
\* minuted_tap_reset), for the files and requests of ReachesHolds.
THEOREM LogTrueHolds ==
  ASSUME \A q \in Requests : OneHost(q), \A s \in Scripts : Plain(s)
  PROVE  Spec => []LogTrue
  <1>1. ReachedInv /\ Logged /\ [Next]_vars => (ReachedInv /\ Logged)'
    BY ReachedNext, LoggedNext DEF ReachedInv
  <1> QED BY <1>1, ReachedInvInit, LoggedInit, LoggedIsEnough, PTL DEF Spec

---------------------------------------------------------------------------
(* Types                                                                   *)

RecordType == [vhost : Nat, host : STRING, path : STRING, method : STRING,
               status : ResultType, code : Nat]

\* Where a child can be.
Points == {"idle", "read", "head", "headers", "payloadcall", "payload", "line",
           "responsecall", "response", "end", "close", "crashed"}

\* A connection lasts for less than a round of the server, and the record of a request
\* names a virtual host of this round or none.
Typed ==
    /\ ServeTypeOK
    /\ at \in Points
    /\ at # "idle" => mpc = "prefork" /\ listenId \in DOMAIN ssocks
    /\ at = "idle" => rqd.vhost = 0
    /\ at \notin {"idle", "read", "close", "crashed"} => asked # <<>>
    /\ rqd \in RecordType /\ rqd.vhost <= Len(vs)
    /\ status \in Nat /\ result \in ResultType /\ called.proc \in STRING
    /\ asked \in Seq(Requests \cup {Bad}) /\ answered \in Seq(Nat)

\* The invariant implies the property.
LEMMA TypedIsEnough == SetUpInv /\ Typed /\ Parsing => TypeOK
  <1> SUFFICES ASSUME SetUpInv, Typed, Parsing PROVE TypeOK
    OBVIOUS
  <1>1. at # "idle" => listenId \in DOMAIN vhostListen
    BY DEF Typed, SetUpInv, Opened
  <1>2. Len(vs) \in Nat /\ rqd.vhost \in 0 .. Len(vs)
    BY DEF Typed, RecordType, ServeTypeOK
  <1>3. parsed.flags \subseteq {"content_length", "chunked"} /\ parsed.length \in 0 .. Modulus - 1
    BY DEF Parsing, ParsedType
  <1> HIDE DEF SetUpInv
  <1> QED BY <1>1, <1>2, <1>3 DEF Typed, RecordType, TypeOK, Points

\* What the model and the code write as they are.
LEMMA Literals ==
  /\ rqd_init \in RecordType /\ NoResult \in ResultType /\ NoCall.proc \in STRING
  /\ Bad.path \in STRING /\ Bad.method \in STRING
  <1>1. NoResult \in ResultType
    BY TapAssumption DEF NoResult, ResultType
  <1>2. rqd_init \in RecordType
    BY <1>1, TapAssumption DEF rqd_init, RecordType
  <1> QED BY <1>1, <1>2, TapAssumption DEF NoCall, Bad

\* At the start.
LEMMA TypedInit == Init => Typed
  <1> SUFFICES ASSUME Init PROVE Typed
    OBVIOUS
  <1>1. ServeTypeOK /\ vs = <<>>
    BY ServeTypedInit DEF Init, ServeInit
  <1>2. rqd.vhost = 0
    BY DEF Init, TapInit, rqd_init
  <1> QED BY <1>1, <1>2, Literals DEF Init, TapInit, Typed, Points

\* Another status code.
LEMMA CodeTyped ==
  ASSUME NEW x \in RecordType, NEW c \in Nat
  PROVE  [x EXCEPT !.code = c] \in RecordType /\ [x EXCEPT !.code = c].vhost = x.vhost
  BY DEF RecordType

\* The last of the requests.
LEMMA LastTyped ==
  ASSUME asked \in Seq(Requests \cup {Bad}), asked # <<>>
  PROVE  rq.path \in STRING /\ rq.method \in STRING
  <1>1. rq \in Requests \cup {Bad}
    BY DEF rq, Last
  <1> QED BY <1>1, TapAssumption, Literals DEF RequestType

\* Between requests.
LEMMA TypedBetween ==
  ASSUME Typed, Accept \/ ReadNone \/ Read \/ ReadBad \/ End \/ Close \/ Restart
  PROVE  Typed'
  <1>1. ServeTypeOK' /\ UNCHANGED servevars
    <2>1. UNCHANGED servevars
      BY Zenon DEF Accept, ReadNone, Read, ReadBad, End, Close, Restart, Forget, Reading, InChild
    <2> QED BY <2>1 DEF servevars, runstate, Typed, ServeTypeOK
  <1>2. vs' = vs /\ ssocks' = ssocks /\ mpc' = mpc /\ Len(vs) \in Nat
    BY <1>1 DEF servevars, runstate, Typed, ServeTypeOK
  <1>3. rqd_init.vhost = 0
    BY DEF rqd_init
  <1>4. CASE Accept
    BY <1>1, <1>2, <1>4 DEF Accept, Typed, Points
  <1>5. CASE ReadNone
    BY <1>1, <1>2, <1>3, <1>5, Literals DEF ReadNone, Reading, minuted_tap_reset, Typed, Points
  <1>6. CASE Read
    <2>1. PICK q \in Requests : asked' = Append(asked, q)
      BY <1>6 DEF Read
    <2>2. asked' \in Seq(Requests \cup {Bad}) /\ asked' # <<>>
      BY <2>1, LastAsked DEF Typed
    <2> QED BY <1>1, <1>2, <1>6, <2>2, Literals DEF Read, Reading, Fresh, Typed, Points
  <1>7. CASE ReadBad
    <2>1. asked' = Append(asked, Bad) /\ answered' = Append(answered, 400)
          /\ rqd' = [rqd EXCEPT !.code = 400]
      BY <1>7 DEF ReadBad
    <2>2. asked' \in Seq(Requests \cup {Bad}) /\ asked' # <<>> /\ answered' \in Seq(Nat)
      <3>1. asked \in Seq(Requests \cup {Bad}) /\ Bad \in Requests \cup {Bad}
        BY DEF Typed
      <3>2. answered \in Seq(Nat) /\ 400 \in Nat
        BY DEF Typed
      <3>3. asked' \in Seq(Requests \cup {Bad}) /\ asked' # <<>>
        BY <2>1, <3>1, LastAsked
      <3>4. answered' \in Seq(Nat)
        BY <2>1, <3>2, LastAsked
      <3> QED BY <3>3, <3>4
    <2>3. rqd' \in RecordType /\ rqd'.vhost = rqd.vhost
      <3>1. rqd \in RecordType /\ 400 \in Nat
        BY DEF Typed
      <3> QED BY <2>1, <3>1, CodeTyped
    <2> QED BY <1>1, <1>2, <1>7, <2>2, <2>3, Literals DEF ReadBad, Reading, Fresh, Typed, Points
  <1>8. CASE End
    <2>1. /\ at' \in {"read", "close"} /\ rqd' = rqd_init /\ at = "end"
          /\ UNCHANGED <<listenId, status, asked, answered, called, result>>
      BY <1>8 DEF End, minuted_tap_reset
    <2> QED BY <1>1, <1>2, <1>3, <2>1, Literals DEF Typed, Points
  <1>9. CASE Close \/ Restart
    <2>1. /\ at' = "idle" /\ rqd' = rqd_init /\ status' = 0 /\ asked' = <<>>
          /\ answered' = <<>> /\ called' = NoCall /\ result' = NoResult
      BY <1>9 DEF Close, Restart, Forget, Fresh
    <2> QED BY <1>1, <1>2, <1>3, <2>1, Literals DEF Typed, Points
  <1> QED BY <1>4, <1>5, <1>6, <1>7, <1>8, <1>9

\* The virtual host of a request has a number of this round.
LEMMA HostNumbered ==
  ASSUME Typed, SetUpInv, at = "head"
  PROVE  /\ acthost \in STRING
         /\ acthost \in Keys(vhosts) => Lookup(vhostMap, acthost) \in 1 .. Len(vs)
  <1>1. /\ mpc = "prefork" /\ listenId \in DOMAIN conf.listen
        /\ vhosts = HostsFor(conf.listen[listenId])
    BY DEF Typed, SetUpInv, Opened, vhosts
  <1>2. /\ Sane(conf) /\ conf.listen \in Seq(STRING \X MapType)
        /\ conf.vhosts \in Seq(STRING \X Text)
    BY ConfiguredSane DEF SetUpInv, Typed, ServeTypeOK, MapType
  <1>3. conf.listen[listenId][1] \in Keys(conf.listen)
        /\ Lookup(conf.listen, conf.listen[listenId][1]) = conf.listen[listenId][2]
    BY <1>1, <1>2, LookupIs, Zenon DEF Sane, Keys
  <1>4. Keys(vhosts) \subseteq Keys(conf.vhosts)
    BY <1>1, <1>2, <1>3 DEF HostsFor, Sane, Agrees
  <1>5. \A h \in Keys(conf.vhosts) : h \in STRING
    BY <1>2 DEF Keys
  <1>6. acthost = "default" \/ acthost \in Keys(vhosts)
    BY Zenon DEF acthost
  <1>7. acthost \in STRING
    BY <1>4, <1>5, <1>6, TapAssumption
  <1>8. ASSUME NEW h \in Keys(conf.vhosts) PROVE Lookup(vhostMap, h) \in 1 .. Len(vs)
    <2>1. PICK j \in DOMAIN conf.vhosts : conf.vhosts[j][1] = h
      BY Zenon DEF Keys
    <2>2. /\ DOMAIN vs = DOMAIN conf.vhosts /\ i \notin DOMAIN vs /\ i \in Nat \ {0}
          /\ DOMAIN vs = 1 .. Len(vs) /\ Len(vs) \in Nat
      BY <1>1 DEF SetUpInv, Mapped, Opened, Typed, ServeTypeOK
    <2>3. j < i
      BY <2>1, <2>2
    <2>4. Lookup(vhostMap, conf.vhosts[j][1]) = j
      BY <1>1, <2>3 DEF SetUpInv, Mapped
    <2> QED BY <2>1, <2>2, <2>4
  <1> QED BY <1>4, <1>7, <1>8

\* What Tcl returns for a status.
LEMMA ResultTyped ==
  ASSUME NEW c \in Results \ {NoElement}, Typed
  PROVE  Integer(c) \in Nat /\ Returned(c) \in ResultType
  <1>1. Integer(c) \in Nat
    BY TapAssumption DEF Integer, NotInteger, NoElement
  <1>2. Len(asked) \in Nat
    BY DEF Typed
  <1> QED BY <1>1, <1>2 DEF Returned, ResultType, Typed

\* From the head of a request to its end.
LEMMA TypedProcs ==
  ASSUME Typed, SetUpInv,
         HeadersCall \/ HeadRefused \/ HeadersReturn \/ HeadersFail
            \/ PayloadNone \/ PayloadCall \/ PayloadReturn \/ PayloadFail \/ ReturnNothing
            \/ Answer \/ ResponseCrash \/ ResponseCall \/ ResponseReturn
            \/ GetHeader \/ AddHeader
  PROVE  Typed'
  <1>1. UNCHANGED <<servevars, listenId, asked>>
    BY Zenon
    DEF HeadersCall, HeadRefused, HeadersReturn, HeadersFail, PayloadNone, PayloadCall,
        PayloadReturn, PayloadFail, ReturnNothing, Answer, ResponseCrash, ResponseCall,
        ResponseReturn, GetHeader, AddHeader, InProc, InRequest, InChild
  <1>2. ServeTypeOK' /\ vs' = vs /\ ssocks' = ssocks /\ mpc' = mpc
    BY <1>1 DEF servevars, runstate, Typed, ServeTypeOK
  <1>3. /\ at \in {"head", "headers", "payloadcall", "payload", "line", "responsecall", "response"}
        /\ at' \in Points \ {"idle", "read", "close"}
    BY DEF HeadersCall, HeadRefused, HeadersReturn, HeadersFail, PayloadNone, PayloadCall,
           PayloadReturn, PayloadFail, ReturnNothing, Answer, ResponseCrash, ResponseCall,
           ResponseReturn, GetHeader, AddHeader, InProc, Points
  <1>4. asked # <<>> /\ asked \in Seq(Requests \cup {Bad}) /\ rqd \in RecordType
        /\ rqd.vhost <= Len(vs) /\ Len(vs) \in Nat
    BY <1>3 DEF Typed, ServeTypeOK
  <1>5. SUFFICES /\ rqd' \in RecordType /\ rqd'.vhost <= Len(vs)
                 /\ status' \in Nat /\ result' \in ResultType /\ called'.proc \in STRING
                 /\ answered' \in Seq(Nat)
    BY <1>1, <1>2, <1>3, <1>4 DEF Typed
  <1>6. rq.path \in STRING /\ rq.method \in STRING
    BY <1>4, LastTyped
  <1>7. "headers" \in STRING /\ "payload" \in STRING /\ "response" \in STRING
    BY TapAssumption
  <1>8. /\ status \in Nat /\ result \in ResultType /\ called.proc \in STRING
        /\ answered \in Seq(Nat)
    BY DEF Typed
  <1> HIDE DEF Typed
  <1>9. CASE HeadersCall
    <2>1. /\ acthost \in STRING /\ Lookup(vhostMap, acthost) \in 1 .. Len(vs)
      BY <1>9, HostNumbered DEF HeadersCall
    <2>2. /\ rqd' = [rqd EXCEPT !.host = acthost, !.path = rq.path,
                                !.vhost = Lookup(vhostMap, acthost)]
          /\ called'.proc = "headers" /\ UNCHANGED <<status, answered, result>>
      BY <1>9 DEF HeadersCall, Call
    <2>3. rqd' \in RecordType /\ rqd'.vhost \in 1 .. Len(vs)
      <3>1. Lookup(vhostMap, acthost) \in Nat
        BY <1>4, <2>1
      <3>2. rqd \in RecordType /\ rq.path \in STRING /\ rq.method \in STRING
        BY <1>4, <1>6
      <3> DEFINE x == [rqd EXCEPT !.host = acthost, !.path = rq.path,
                                  !.vhost = Lookup(vhostMap, acthost)]
      <3>3. x \in RecordType /\ x.vhost = Lookup(vhostMap, acthost)
        BY <2>1, <3>1, <3>2 DEF RecordType
      <3> QED BY <2>1, <2>2, <3>3
    <2> QED BY <1>4, <1>7, <1>8, <2>2, <2>3
  <1>10. CASE HeadRefused
    <2>1. acthost \in STRING
      BY <1>10, HostNumbered DEF HeadRefused
    <2>2. /\ rqd' = [rqd EXCEPT !.host = acthost, !.path = rq.path,
                                !.method = rq.method, !.code = status']
          /\ status' \in {500, 410} /\ UNCHANGED <<answered, called, result>>
      BY <1>10 DEF HeadRefused
    <2>3. rqd' \in RecordType /\ rqd'.vhost = rqd.vhost
      <3>1. status' \in Nat
        BY <2>2
      <3>2. rqd \in RecordType /\ rq.path \in STRING /\ rq.method \in STRING
        BY <1>4, <1>6
      <3> DEFINE x == [rqd EXCEPT !.host = acthost, !.path = rq.path,
                                  !.method = rq.method, !.code = status']
      <3>3. x \in RecordType /\ x.vhost = rqd.vhost
        BY <2>1, <3>1, <3>2 DEF RecordType
      <3> QED BY <2>2, <3>3
    <2> QED BY <1>4, <1>8, <2>2, <2>3
  <1>11. CASE HeadersReturn \/ PayloadReturn
    <2>1. PICK c \in Results \ {NoElement} :
             /\ result' = Returned(c) /\ status' = Integer(c)
             /\ \/ rqd' = [rqd EXCEPT !.status = result', !.method = rq.method, !.code = status']
                \/ rqd' = [rqd EXCEPT !.status = result', !.code = status']
             /\ UNCHANGED <<answered, called>>
      BY <1>11 DEF HeadersReturn, PayloadReturn
    <2>2. result' \in ResultType /\ status' \in Nat
      BY <2>1, ResultTyped
    <2> QED BY <1>4, <1>6, <1>8, <2>1, <2>2 DEF RecordType
  <1>12. CASE HeadersFail
    <2>1. /\ result' = NoResult /\ status' = 500 /\ UNCHANGED <<answered, called>>
          /\ rqd' = [rqd EXCEPT !.method = rq.method, !.code = 500]
      BY <1>12 DEF HeadersFail
    <2>2. rqd' \in RecordType /\ rqd'.vhost = rqd.vhost
      <3>1. status' \in Nat
        BY <2>1
      <3>2. rqd \in RecordType /\ rq.path \in STRING /\ rq.method \in STRING
        BY <1>4, <1>6
      <3> DEFINE x == [rqd EXCEPT !.method = rq.method, !.code = status']
      <3>3. x \in RecordType /\ x.vhost = rqd.vhost
        BY <3>1, <3>2 DEF RecordType
      <3> QED BY <2>1, <3>3
    <2> QED BY <1>4, <1>8, <2>1, <2>2, Literals
  <1>13. CASE PayloadNone \/ PayloadFail
    <2>1. /\ status' = 500 /\ rqd' = [rqd EXCEPT !.code = 500]
          /\ UNCHANGED <<answered, called, result>>
      BY <1>13 DEF PayloadNone, PayloadFail
    <2>2. rqd' \in RecordType /\ rqd'.vhost = rqd.vhost
      <3>1. 500 \in Nat
        OBVIOUS
      <3> QED BY <1>4, <2>1, <3>1, CodeTyped
    <2> QED BY <1>4, <1>8, <2>1, <2>2
  <1>14. CASE PayloadCall \/ ResponseCall
    <2>1. UNCHANGED <<rqd, status, answered, result>> /\ called'.proc \in {"payload", "response"}
      BY <1>14 DEF PayloadCall, ResponseCall, Call
    <2> QED BY <1>4, <1>7, <1>8, <2>1
  <1>15. CASE ReturnNothing
    <2>1. /\ UNCHANGED <<rqd, status, answered, called>>
          /\ NoElement \in Results /\ result' = Returned(NoElement)
      BY <1>15 DEF ReturnNothing
    <2>2. result' \in ResultType
      <3>1. Len(asked) \in Nat
        BY <1>4
      <3> QED BY <1>8, <2>1, <3>1 DEF Returned, ResultType
    <2> QED BY <1>4, <1>8, <2>1, <2>2
  <1>16. CASE Answer
    <2>1. answered' = Append(answered, status) /\ UNCHANGED <<rqd, status, called, result>>
      BY <1>16 DEF Answer
    <2> QED BY <1>4, <1>8, <2>1
  <1>17. CASE ResponseCrash \/ ResponseReturn \/ GetHeader \/ AddHeader
    <2>1. UNCHANGED <<rqd, status, answered, called, result>>
      BY <1>17 DEF ResponseCrash, ResponseReturn, GetHeader, AddHeader, InProc
    <2> QED BY <1>4, <1>8, <2>1
  <1> QED
    BY <1>9, <1>10, <1>11, <1>12, <1>13, <1>14, <1>15, <1>16, <1>17, Zenon

\* A step of the server.
LEMMA TypedServer ==
  ASSUME Typed, SetUpInv, Configured', Server \/ UNCHANGED vars
  PROVE  Typed'
  <1>1. UNCHANGED tapvars /\ (ServeNext \/ PreforkReturns \/ UNCHANGED servevars)
    BY DEF Server, vars
  <1>2. ServeTypeOK'
    BY <1>1, ServeTyped DEF Typed
  <1>3. UNCHANGED <<at, listenId, rqd, status, asked, answered, called, result>>
    BY <1>1 DEF tapvars
  <1>4. CASE at = "idle"
    <2>1. rqd.vhost <= Len(vs')
      <3>1. Len(vs') \in Nat
        BY <1>2 DEF ServeTypeOK
      <3> QED BY <1>4, <3>1 DEF Typed
    <2> QED BY <1>2, <1>3, <1>4, <2>1 DEF Typed
  <1>5. CASE at # "idle"
    <2>1. mpc = "prefork" /\ (ServeNext \/ UNCHANGED servevars)
      BY <1>5 DEF Typed, Server, vars
    <2>2. UNCHANGED <<mpc, ssocks, vs>>
      BY <2>1, WhileServing DEF runstate
    <2> QED BY <1>2, <1>3, <2>2 DEF Typed
  <1> QED BY <1>4, <1>5

\* The types of the server and of its children, whatever the files, the applications and
\* the requests: in particular a connection has a socket and the array of virtual hosts is
\* read within its bounds (minuted.c, minuted_serve; tap.c, minuted_tap_head).
THEOREM TypeCorrect == Spec => []TypeOK
  <1> DEFINE TInv == SurvivesInv /\ SetUpInv /\ Typed /\ Parsing
  <1>1. Init => TInv
    BY SurvivesInit, SetUpInit, TypedInit, ParsingInit DEF Init
  <1>2. TInv /\ [Next]_vars => TInv'
    <2> SUFFICES ASSUME TInv, [Next]_vars PROVE TInv'
      OBVIOUS
    <2>1. SurvivesInv' /\ SetUpInv'
      BY ServerSteps, SurvivesNext, SetUpNext DEF SurvivesInv
    <2>2. Typed'
      <3>1. CASE Accept \/ ReadNone \/ Read \/ ReadBad \/ End \/ Close \/ Restart
        BY <3>1, TypedBetween
      <3>2. CASE Server \/ UNCHANGED vars
        BY <2>1, <3>2, TypedServer DEF SetUpInv
      <3>3. CASE HeadersCall \/ HeadRefused \/ HeadersReturn \/ HeadersFail
                    \/ PayloadNone \/ PayloadCall \/ PayloadReturn \/ PayloadFail \/ ReturnNothing
                    \/ Answer \/ ResponseCrash \/ ResponseCall \/ ResponseReturn
                    \/ GetHeader \/ AddHeader
        BY <3>3, TypedProcs
      <3> QED BY <3>1, <3>2, <3>3, Zenon DEF Next, Child
    <2> QED BY <2>1, <2>2, ParsingNext
  <1>3. TInv => TypeOK
    BY TypedIsEnough
  <1> QED BY <1>1, <1>2, <1>3, PTL DEF Spec
=============================================================================
