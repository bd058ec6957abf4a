-------------------------- MODULE HttpParser_proofs --------------------------
(* What holds of the request parser whatever a client sends and however it  *)
(* arrives (HttpParser), for any sizes, words, connections and bounds.      *)
EXTENDS HttpParser, SequenceTheorems, TLAPS

Turning == INSTANCE SeqFold_proofs WITH Step <- EachTurn

---------------------------------------------------------------------------
(* The text store                                                          *)

\* There is the null byte of minute_http_init, and text and integers do not meet.
Stored(t) ==
    /\ DOMAIN t = {"text", "ints"}
    /\ t.text \in Seq(Char) /\ t.ints \in Seq(Nat)
    /\ Text!Low(t) >= 1 /\ Text!Apart(t)

LEMMA StoredClear == Stored(Text!PutC(Text!Clear, 0))
  BY HttpParserAssumption
  DEF Stored, Char, Text!PutC, Text!Clear, Text!Low, Text!High, Text!Apart

LEMMA StoredPutC ==
  ASSUME NEW t, Stored(t), NEW c \in Char, Text!HasRoomC(t)
  PROVE  Stored(Text!PutC(t, c))
  BY HttpParserAssumption
  DEF Stored, Text!PutC, Text!HasRoomC, Text!Low, Text!High, Text!Apart

LEMMA StoredPutI ==
  ASSUME NEW t, Stored(t), NEW x \in Nat, Text!HasRoomI(t)
  PROVE  Stored(Text!PutI(t, x))
  BY HttpParserAssumption
  DEF Stored, Text!PutI, Text!HasRoomI, Text!Low, Text!High, Text!Apart

LEMMA StoredReplaceC ==
  ASSUME NEW t, Stored(t), NEW c \in Char
  PROVE  Stored(Text!ReplaceC(t, -1, c))
  BY HttpParserAssumption
  DEF Stored, Text!ReplaceC, Text!Low, Text!High, Text!Apart

\* The integers begin at least one integer above the start: the subtraction of
\* minute_textint_puti does not wrap.
LEMMA StoredHigh ==
  ASSUME NEW t, Stored(t)
  PROVE  Text!High(t) >= IntSize
  <1> DEFINE q == TextSize \div IntSize
             n == Len(t.ints)
  <1>1. TextSize \in Nat /\ IntSize \in Nat \ {0} /\ TextSize % IntSize = 0
    BY HttpParserAssumption
  <1>2. q \in Int /\ TextSize = IntSize * q
    BY <1>1
  <1>3. n \in Nat /\ Text!High(t) = TextSize - IntSize * n /\ Text!High(t) >= 1
    BY <1>1 DEF Stored, Text!High, Text!Low, Text!Apart
  <1> HIDE DEF q, n
  <1>4. IntSize * q - IntSize * n = IntSize * (q - n)
    BY <1>1, <1>2, <1>3
  <1>5. q - n >= 1
    <2> SUFFICES ASSUME q - n <= 0 PROVE FALSE
      BY <1>2, <1>3
    <2>1. IntSize * (q - n) <= 0
      BY <1>1, <1>2, <1>3
    <2> QED BY <1>1, <1>2, <1>3, <1>4, <2>1
  <1>6. IntSize * (q - n) >= IntSize
    BY <1>1, <1>2, <1>3, <1>5
  <1> QED BY <1>2, <1>3, <1>4, <1>6

---------------------------------------------------------------------------
(* The state of the parser                                                 *)

ParserFields == {"st", "est", "pos", "slot", "m", "b", "esc", "httpv", "nl", "collect",
                 "flag", "ret", "rq", "text"}

Escapes == {"h_escaped_1", "h_escaped_2"}

\* What every operator of the machine keeps; m is the position of the character.
Base(s, m) ==
    /\ DOMAIN s = ParserFields
    /\ s.st \in States \cup {"h_prot_http_x_x"}
    /\ s.st \in Escapes => s.est \in {"h_path", "h_query"}
    /\ s.st = "h_header" => s.pos = <<>> \/ s.slot = "header"
    /\ s.pos \in Seq(Int)
    /\ s.m = m /\ s.b \in Nat /\ s.b <= m
    /\ s.esc \in Int /\ s.nl \in {0, 1, 2, 99}
    /\ s.ret \in {Again, 0, 400, 413, 414, 505}
    /\ Stored(s.text)

\* A value that is looked up has a position in its trie.
Placed(s) == s.st = "h_head_flag" => s.pos # <<>>

\* A state with a character to look at, ...
Ready(s, m) == Base(s, m) /\ s.nl \in {0, 1} /\ s.st \in States

\* ... which is not that of a looked up value, ...
Apt(s, m) == Ready(s, m) /\ s.st # "h_head_flag"

\* ... and what a turn leaves.
Done(s, m) == Base(s, m) /\ Placed(s) /\ (s.ret \in {Again, 0} => s.st \in States)

\* The states that may follow whatever was before.
Steady == States \ (Escapes \cup {"h_head_flag", "h_header"})

LEMMA SteadyStates ==
  {"h_initial", "h_method", "h_method_sp", "h_path", "h_query", "h_path_sp", "h_prot",
   "h_prot_slash", "h_prot_http_x_dot", "h_cr", "h_nl", "h_skipline",
   "h_value_lead", "h_cont", "h_value", "h_head_content_length"} \subseteq Steady
  BY DEF Steady, States, Escapes

LEMMA AptDone ==
  \A s : \A m : Apt(s, m) => Done(s, m)
  BY DEF Apt, Ready, Done, Base, Placed

LEMMA AptRelease ==
  \A s : \A m \in Nat : Apt(s, m) => Apt(Release(s), m)
  BY DEF Apt, Ready, Base, Release, ParserFields

LEMMA AptWord ==
  \A s : \A m : Apt(s, m) => Apt(NewWord(s), m)
  BY DEF Apt, Ready, Base, NewWord, ParserFields

LEMMA ReadyShift ==
  \A s : \A m : \A x \in Steady : Ready(s, m) => Apt(Shift(s, x), m)
  BY DEF Apt, Ready, Base, Shift, ParserFields, Steady

LEMMA AptShift ==
  \A s : \A m : \A x \in Steady : Apt(s, m) => Apt(Shift(s, x), m)
  BY ReadyShift DEF Apt

LEMMA ReadyReturn ==
  \A s : \A m : \A x \in {400, 413, 414, 505} : Ready(s, m) => Ready(Return(s, x), m)
  BY DEF Ready, Base, Return, ParserFields

LEMMA AptReturn ==
  \A s : \A m : \A x \in {400, 413, 414, 505} : Apt(s, m) => Apt(Return(s, x), m)
  BY DEF Apt, Ready, Base, Return, ParserFields

LEMMA DoneReturn ==
  \A s : \A m : \A x \in {400, 413, 414, 505} : Done(s, m) => Done(Return(s, x), m)
  BY DEF Done, Placed, Base, Return, ParserFields, Again

LEMMA AptBad ==
  ASSUME NEW s, NEW m, Apt(s, m)
  PROVE  Done(BadRequest(s), m) /\ Done(Return(s, 505), m) /\ Done(Return(s, 413), m)
  <1>1. Done(s, m)
    BY AptDone
  <1>2. Done(Return(s, 400), m)
    BY <1>1, DoneReturn
  <1>3. Done(Return(s, 505), m) /\ Done(Return(s, 413), m)
    BY <1>1, DoneReturn
  <1> QED BY <1>2, <1>3 DEF BadRequest

\* Another text in the store.
LEMMA AptText ==
  \A s : \A m : \A t : Apt(s, m) /\ Stored(t) => Apt([s EXCEPT !.text = t], m)
  BY DEF Apt, Ready, Base, ParserFields

LEMMA DoneText ==
  \A s : \A m : \A t : Done(s, m) /\ Stored(t) => Done([s EXCEPT !.text = t], m)
  BY DEF Done, Placed, Base, ParserFields

LEMMA AptPut ==
  \A s : \A m : \A c \in Char : \A x \in {413, 414} : Apt(s, m) => Apt(Put(s, c, x), m)
  <1> SUFFICES ASSUME NEW s, NEW m, NEW c \in Char, NEW x \in {413, 414}, Apt(s, m)
               PROVE  Apt(Put(s, c, x), m)
    OBVIOUS
  <1>1. Text!HasRoomC(s.text) => Stored(Text!PutC(s.text, c))
    BY StoredPutC DEF Apt, Ready, Base
  <1>2. Text!HasRoomC(s.text) => Apt([s EXCEPT !.text = Text!PutC(@, c)], m)
    BY <1>1, AptText
  <1>3. Apt(Return(s, x), m)
    BY AptReturn
  <1> QED BY <1>2, <1>3 DEF Put

LEMMA AptPut414 ==
  \A s : \A m : \A c \in Char : Apt(s, m) => Apt(Put(s, c, 414), m)
  BY AptPut

LEMMA AptPut413 ==
  \A s : \A m : \A c \in Char : Apt(s, m) => Apt(Put(s, c, 413), m)
  BY AptPut

LEMMA DonePut ==
  \A s : \A m : \A c \in Char : Done(s, m) => Done(Put(s, c, 413), m)
  <1> SUFFICES ASSUME NEW s, NEW m, NEW c \in Char, Done(s, m)
               PROVE  Done(Put(s, c, 413), m)
    OBVIOUS
  <1>1. Text!HasRoomC(s.text) => Stored(Text!PutC(s.text, c))
    BY StoredPutC DEF Done, Base
  <1>2. Text!HasRoomC(s.text) => Done([s EXCEPT !.text = Text!PutC(@, c)], m)
    BY <1>1, DoneText
  <1>3. Done(Return(s, 413), m)
    BY DoneReturn
  <1> QED BY <1>2, <1>3 DEF Put

\* The fields that Base hardly speaks of.
LEMMA AptRq ==
  \A s : \A m : \A q : Apt(s, m) => Apt([s EXCEPT !.rq = q], m)
  BY DEF Apt, Ready, Base, ParserFields
LEMMA ReadyRq ==
  \A s : \A m : \A q : Ready(s, m) => Ready([s EXCEPT !.rq = q], m)
  BY DEF Apt, Ready, Base, ParserFields
LEMMA ReadyFlag ==
  \A s : \A m : \A q : Ready(s, m) => Ready([s EXCEPT !.flag = q], m)
  BY DEF Apt, Ready, Base, ParserFields
LEMMA AptHttpv ==
  \A s : \A m : \A v : Apt(s, m) => Apt([s EXCEPT !.httpv = v], m)
  BY DEF Apt, Ready, Base, ParserFields
LEMMA AptCollect ==
  \A s : \A m : \A v : Apt(s, m) => Apt([s EXCEPT !.collect = v], m)
  BY DEF Apt, Ready, Base, ParserFields
LEMMA AptEsc ==
  \A s : \A m : \A e \in Int : Apt(s, m) => Apt([s EXCEPT !.esc = e], m)
  BY DEF Apt, Ready, Base, ParserFields
LEMMA AptEst ==
  \A s : \A m : \A e : Apt(s, m) /\ s.st \notin Escapes => Apt([s EXCEPT !.est = e], m)
  BY DEF Apt, Ready, Base, ParserFields
LEMMA AptNl ==
  \A s : \A m : Apt(s, m) => Apt([s EXCEPT !.nl = 0], m)
  BY DEF Apt, Ready, Base, ParserFields

LEMMA LineEndDone ==
  \A s : \A m : \A c : Apt(s, m) => Done(LineEnd(s, c), m)
  <1> SUFFICES ASSUME NEW s, NEW m, Apt(s, m), NEW c PROVE Done(LineEnd(s, c), m)
    OBVIOUS
  <1>1. Done(Shift(s, "h_cr"), m)
    BY AptShift, AptDone, SteadyStates, Zenon
  <1>2. Done([Shift(s, "h_nl") EXCEPT !.nl = @ + 1], m)
    BY DEF Apt, Ready, Done, Base, Placed, Shift, ParserFields, States, Escapes
  <1>3. Done([s EXCEPT !.nl = 99], m)
    BY DEF Apt, Ready, Done, Base, Placed, ParserFields
  <1>4. Done(s, m)
    BY AptDone, Zenon
  <1> QED BY <1>1, <1>2, <1>3, <1>4, Zenon DEF LineEnd

---------------------------------------------------------------------------
(* Words                                                                   *)

\* A position is a sequence; after a character, or in the middle of a word, it is
\* not the root; a word that is found is one of the trie.
WalksTo(root, s, c, w) ==
    LET slot == IF s.pos = <<>> THEN root ELSE s.slot
    IN  /\ w.slot = slot /\ w.pos \in Seq(Int)
        /\ w.hit = "more" => w.pos # <<>>
        /\ w.hit = "word" => w.pos \in DOMAIN Words[slot]

LEMMA Walks ==
  ASSUME NEW root, NEW s, s.pos \in Seq(Int), NEW c \in Int
  PROVE  WalksTo(root, s, c, walk_trie(root, s, c))
  <1> DEFINE slot == IF s.pos = <<>> THEN root ELSE s.slot
             dict == Words[slot]
             hit(h, q) == [hit |-> h, slot |-> slot, pos |-> q]
  <1>0. \A p \in Seq(Int) : Append(p, c) \in Seq(Int) /\ Append(p, c) # <<>>
    BY AppendProperties
  <1>1. Append(s.pos, c) \in Seq(Int) /\ Append(s.pos, c) # <<>>
    BY <1>0
  <1>2. s.pos \in DOMAIN dict => WalksTo(root, s, c, hit("word", s.pos))
    BY DEF WalksTo
  <1>3. s.pos \notin DOMAIN dict \cup {<<>>} => WalksTo(root, s, c, hit("more", s.pos))
    BY DEF WalksTo
  <1>4. WalksTo(root, s, c, hit("more", Append(s.pos, c)))
    BY <1>1 DEF WalksTo
  <1>5. WalksTo(root, s, c, hit("no", s.pos))
    BY DEF WalksTo
  <1>6. walk_trie(root, s, c) =
          CASE c = 0 /\ s.pos \in DOMAIN dict -> hit("word", s.pos)
            [] c = 0 /\ s.pos \notin DOMAIN dict \cup {<<>>} /\ Branches(dict, s.pos)
                 -> hit("more", s.pos)
            [] c # 0 /\ \E w \in DOMAIN dict : IsPrefix(Append(s.pos, c), w)
                 -> hit("more", Append(s.pos, c))
            [] OTHER -> hit("no", s.pos)
    BY DEF walk_trie
  <1> HIDE DEF hit, dict, slot
  <1> QED BY <1>2, <1>3, <1>4, <1>5, <1>6, Zenon

\* The word that a parser looks up goes on in its own trie.
LEMMA AptWalked ==
  ASSUME NEW s, NEW m \in Nat, Apt(s, m), NEW root, NEW c \in Int,
         s.st = "h_header" => root = "header"
  PROVE  Apt(Walked(s, walk_trie(root, s, c)), m)
  <1> DEFINE w == walk_trie(root, s, c)
  <1>1. WalksTo(root, s, c, w)
    BY Walks DEF Apt, Ready, Base
  <1> HIDE DEF w
  <1>2. w.pos \in Seq(Int) /\ (s.st = "h_header" => w.slot = "header")
    BY <1>1 DEF WalksTo, Apt, Ready, Base
  <1>3. Apt(Walked(s, w), m)
    BY <1>2 DEF Apt, Ready, Base, Walked, ParserFields
  <1> QED BY <1>3 DEF w

\* The value of a flag has a position in its trie as long as it may go on.
LEMMA ReadyWalked ==
  ASSUME NEW s, NEW m \in Nat, Ready(s, m), s.st = "h_head_flag", NEW root, NEW c \in Int
  PROVE  LET w == walk_trie(root, s, c)
         IN  Ready(Walked(s, w), m) /\ (w.hit = "more" => Done(Walked(s, w), m))
  <1> DEFINE w == walk_trie(root, s, c)
  <1>1. WalksTo(root, s, c, w)
    BY Walks DEF Ready, Base
  <1> HIDE DEF w
  <1>2. w.pos \in Seq(Int) /\ (w.hit = "more" => w.pos # <<>>)
    BY <1>1 DEF WalksTo
  <1>3. Ready(Walked(s, w), m) /\ (w.hit = "more" => Done(Walked(s, w), m))
    BY <1>2 DEF Ready, Done, Placed, Base, Walked, ParserFields
  <1> QED BY <1>3 DEF w

---------------------------------------------------------------------------
(* The states of the machine, each as in HttpParser                        *)

LEMMA MethodDone ==
  \A s : \A m \in Nat : \A c \in Char :
      Apt(s, m) /\ s.st # "h_header" => Done(h_method(s, c), m)
  <1> SUFFICES ASSUME NEW s, NEW m \in Nat, NEW c \in Char, Apt(s, m), s.st # "h_header"
               PROVE  Done(h_method(s, c), m)
    OBVIOUS
  <1> DEFINE x == IF c = SPACE THEN 0 ELSE c
             w == walk_trie("method", s, x)
             t == Release(Walked(s, w))
             u == Shift(t, "h_method_sp")
             q == [u.rq EXCEPT !.method = Code(w)]
  <1>1. h_method(s, c) = CASE w.hit = "word" -> [u EXCEPT !.rq = q]
                           [] w.hit = "more" -> t
                           [] OTHER -> BadRequest(s)
    BY DEF h_method
  <1>2. x \in Int
    BY DEF Char
  <1> HIDE DEF x
  <1>3. Apt(Walked(s, w), m)
    BY <1>2, AptWalked
  <1> HIDE DEF w
  <1>4. Apt(t, m) /\ Apt(u, m)
    BY <1>3, AptRelease, AptShift, SteadyStates, Zenon
  <1> HIDE DEF t, u, q
  <1>5. Done([u EXCEPT !.rq = q], m)
    BY <1>4, AptRq, AptDone
  <1> QED BY <1>1, <1>4, <1>5, AptDone, AptBad, Zenon

LEMMA InitialDone ==
  \A s : \A m \in Nat : \A c \in Char :
      Apt(s, m) => Done(h_initial(s, c), m)
  <1> SUFFICES ASSUME NEW s, NEW m \in Nat, NEW c \in Char, Apt(s, m)
               PROVE  Done(h_initial(s, c), m)
    OBVIOUS
  <1> DEFINE t == Shift(NewWord(s), "h_method")
             u == [t EXCEPT !.esc = 0]
  <1>1. Apt(t, m)
    BY AptWord, AptShift, SteadyStates, Zenon
  <1>2. DOMAIN t = ParserFields /\ t.st = "h_method"
    BY DEF Apt, Ready, Base, Shift, NewWord, ParserFields
  <1>3. h_initial(s, c) = IF c \in {LF, CR} THEN s ELSE h_method(u, c)
    BY DEF h_initial
  <1> HIDE DEF t
  <1>4. Apt(u, m) /\ u.st # "h_header"
    BY <1>1, <1>2, AptEsc DEF ParserFields
  <1> HIDE DEF u
  <1> QED BY <1>3, <1>4, MethodDone, AptDone

LEMMA Characters ==
  /\ 0 \in Char /\ SPACE \in Char
  /\ \A e \in Int : \A l \in Int : Escaped(e, l) \in Char
  /\ \A c \in Char : uri_hex_conv(c) \in Int
  <1>1. 0 \in Char /\ SPACE \in Char
    BY DEF Char, SPACE
  <1>2. ASSUME NEW e \in Int, NEW l \in Int PROVE Escaped(e, l) \in Char
    <2> DEFINE hi == e % 16
               b == IF l >= 0 THEN 16 * hi + l
                    ELSE 16 * (IF hi % 2 = 1 THEN 15 ELSE 14) + (l % 16)
    <2>1. b \in Int
      OBVIOUS
    <2>2. Escaped(e, l) = ((b + 128) % 256) - 128
      BY DEF Escaped
    <2> HIDE DEF b
    <2> QED BY <2>1, <2>2 DEF Char
  <1>3. ASSUME NEW c \in Char PROVE uri_hex_conv(c) \in Int
    BY DEF uri_hex_conv, Char
  <1> QED BY <1>1, <1>2, <1>3

LEMMA UriDone ==
  \A s : \A m \in Nat : \A c \in Char :
      Apt(s, m) /\ s.st \in {"h_path", "h_query"} => Done(h_uri(s, c), m)
  <1> SUFFICES ASSUME NEW s, NEW m \in Nat, NEW c \in Char, Apt(s, m),
                      s.st \in {"h_path", "h_query"}
               PROVE  Done(h_uri(s, c), m)
    OBVIOUS
  <1> DEFINE e == [s EXCEPT !.est = s.st, !.st = "h_escaped_1"]
             t == Release(Shift(Put(s, 0, 414), "h_query"))
             q == [t.rq EXCEPT !.query = Text!Low(t.text)]
  <1>1. Done(Release(Put(s, c, 414)), m)
    BY Characters, AptPut414, AptRelease, AptDone, Zenon
  <1>2. Apt(e, m)
    BY DEF Apt, Ready, Base, ParserFields, States, Escapes
  <1>3. Done(Release(e), m)
    BY <1>2, AptRelease, AptDone, Zenon
  <1>4. Apt(t, m)
    BY Characters, AptPut414, AptShift, SteadyStates, AptRelease, Zenon
  <1>5. Done(h_uri_end(s), m)
    BY Characters, AptPut414, AptShift, SteadyStates, AptRelease, AptDone, Zenon DEF h_uri_end
  <1>6. h_uri(s, c) =
          CASE c \in (IF s.st = "h_path" THEN uri_pchar \cup {47, 59} ELSE uri_uric)
                 -> Release(Put(s, c, 414))
            [] c = 37 -> Release(e)
            [] c = 63 /\ s.st = "h_path" -> [t EXCEPT !.rq = q]
            [] c = SPACE -> h_uri_end(s)
            [] OTHER -> BadRequest(s)
    BY DEF h_uri
  <1> HIDE DEF e, t, q
  <1>7. Done([t EXCEPT !.rq = q], m)
    BY <1>4, AptRq, AptDone
  <1> QED BY <1>1, <1>3, <1>5, <1>6, <1>7, AptBad, Zenon

LEMMA MethodSpDone ==
  \A s : \A m \in Nat : \A c \in Char : Apt(s, m) => Done(h_method_sp(s, c), m)
  <1> SUFFICES ASSUME NEW s, NEW m \in Nat, NEW c \in Char, Apt(s, m)
               PROVE  Done(h_method_sp(s, c), m)
    OBVIOUS
  <1> DEFINE t == Shift(Release(s), "h_path")
             q == [t.rq EXCEPT !.path = Text!Low(s.text)]
             u == [t EXCEPT !.rq = q]
  <1>1. Apt(t, m)
    BY AptRelease, AptShift, SteadyStates, Zenon
  <1>2. t.st = "h_path" /\ "st" \in DOMAIN t
    BY DEF Shift, Release, Apt, Ready, Base, ParserFields
  <1>3. h_method_sp(s, c) = IF c = SPACE THEN s ELSE h_uri(u, c)
    BY DEF h_method_sp
  <1> HIDE DEF t, q
  <1>4. Apt(u, m) /\ u.st = "h_path"
    BY <1>1, <1>2, AptRq
  <1> HIDE DEF u
  <1>5. Done(h_uri(u, c), m)
    BY <1>4, UriDone
  <1> QED BY <1>3, <1>5, AptDone

LEMMA EscapedDone ==
  \A s : \A m \in Nat : \A c \in Char :
      Apt(s, m) => /\ s.st = "h_escaped_1" => Done(h_escaped_1(s, c), m)
                   /\ s.st = "h_escaped_2" => Done(h_escaped_2(s, c), m)
  <1> SUFFICES ASSUME NEW s, NEW m \in Nat, NEW c \in Char, Apt(s, m)
               PROVE  /\ s.st = "h_escaped_1" => Done(h_escaped_1(s, c), m)
                      /\ s.st = "h_escaped_2" => Done(h_escaped_2(s, c), m)
    OBVIOUS
  <1>1. ASSUME s.st = "h_escaped_1" PROVE Done(h_escaped_1(s, c), m)
    <2>1. uri_hex_conv(c) \in Int
      BY Characters
    <2>2. Done([Shift(s, "h_escaped_2") EXCEPT !.esc = uri_hex_conv(c)], m)
      BY <1>1, <2>1 DEF Apt, Ready, Done, Placed, Base, Shift, ParserFields, States, Escapes
    <2> QED BY <2>2, AptBad DEF h_escaped_1
  <1>2. ASSUME s.st = "h_escaped_2" PROVE Done(h_escaped_2(s, c), m)
    <2> DEFINE x == Escaped(s.esc, uri_hex_conv(c))
               t == Shift(Put(s, x, 414), s.est)
    <2>1. x \in Char
      BY Characters DEF Apt, Ready, Base
    <2>2. s.est \in Steady
      BY <1>2, SteadyStates DEF Apt, Ready, Base, Escapes
    <2> HIDE DEF x
    <2>3. Apt(t, m)
      BY <2>1, <2>2, Characters, AptPut414, AptShift, Zenon
    <2>4. h_escaped_2(s, c) = IF c \in uri_hex THEN [t EXCEPT !.esc = 0] ELSE BadRequest(s)
      BY DEF h_escaped_2, x
    <2> HIDE DEF t
    <2>5. Done([t EXCEPT !.esc = 0], m)
      BY <2>3, AptEsc, AptDone
    <2> QED BY <2>4, <2>5, AptBad
  <1> QED BY <1>1, <1>2

LEMMA ProtDone ==
  \A s : \A m \in Nat : \A c \in Char : Apt(s, m) /\ s.st # "h_header" => Done(h_prot(s, c), m)
  <1> SUFFICES ASSUME NEW s, NEW m \in Nat, NEW c \in Char, Apt(s, m), s.st # "h_header"
               PROVE  Done(h_prot(s, c), m)
    OBVIOUS
  <1> DEFINE x == IF c = 47 THEN 0 ELSE c
             w == walk_trie("proto", s, x)
             t == Release(Walked(s, w))
             r == Return(s, 505)
  <1>1. h_prot(s, c) = CASE w.hit = "word" -> Shift(t, "h_prot_slash")
                         [] w.hit = "more" -> t
                         [] OTHER -> r
    BY DEF h_prot
  <1>2. x \in Int
    BY DEF Char
  <1> HIDE DEF x
  <1>3. Apt(Walked(s, w), m)
    BY <1>2, AptWalked
  <1> HIDE DEF w
  <1>4. Apt(t, m) /\ Apt(Shift(t, "h_prot_slash"), m)
    BY <1>3, AptRelease, AptShift, SteadyStates, Zenon
  <1>5. Done(r, m)
    BY AptBad
  <1> HIDE DEF t, r
  <1> QED BY <1>1, <1>4, <1>5, AptDone, Zenon

LEMMA PathSpDone ==
  \A s : \A m \in Nat : \A c \in Char : Apt(s, m) => Done(h_path_sp(s, c), m)
  <1> SUFFICES ASSUME NEW s, NEW m \in Nat, NEW c \in Char, Apt(s, m)
               PROVE  Done(h_path_sp(s, c), m)
    OBVIOUS
  <1> DEFINE t == Shift(NewWord(s), "h_prot")
  <1>1. Apt(t, m)
    BY AptWord, AptShift, SteadyStates, Zenon
  <1>2. t.st # "h_header"
    BY DEF Apt, Ready, Base, Shift, NewWord, ParserFields
  <1>3. h_path_sp(s, c) = IF c = SPACE THEN s ELSE h_prot(t, c)
    BY DEF h_path_sp
  <1> HIDE DEF t
  <1> QED BY <1>1, <1>2, <1>3, ProtDone, AptDone

\* In the state h_prot_http_x_x no turn ends, unless with an error.
LEMMA EndOfLineDone ==
  \A s : \A m \in Nat : \A c \in Char :
      Apt(s, m) => Done(h_prot_http_x_x(Shift(s, "h_prot_http_x_x"), c), m)
  <1> SUFFICES ASSUME NEW s, NEW m \in Nat, NEW c \in Char, Apt(s, m)
               PROVE  Done(h_prot_http_x_x(Shift(s, "h_prot_http_x_x"), c), m)
    OBVIOUS
  <1> DEFINE d == Shift(s, "h_prot_http_x_x")
             v == CASE d.httpv = <<0, 9>> -> 9
                    [] d.httpv = <<1, 0>> -> 10
                    [] d.httpv = <<1, 1>> -> 11
                    [] OTHER -> d.rq.version
             q == [d.rq EXCEPT !.version = v]
             t == [d EXCEPT !.rq = q]
             r == Return(d, 505)
  <1>1. h_prot_http_x_x(d, c) = CASE v = 0 -> r
                                  [] c \in {CR, LF} -> LineEnd(t, c)
                                  [] OTHER -> BadRequest(t)
    BY DEF h_prot_http_x_x
  <1> HIDE DEF v, q
  <1>2. Done(r, m)
    BY DEF Apt, Ready, Done, Placed, Base, Return, Shift, ParserFields, Escapes, Again
  <1>3. Done(BadRequest(t), m)
    BY DEF Apt, Ready, Done, Placed, Base, BadRequest, Return, Shift, ParserFields, Escapes, Again
  <1>4. Done(Shift(t, "h_cr"), m)
    BY DEF Apt, Ready, Done, Placed, Base, Shift, ParserFields, States, Escapes
  <1>5. Done([Shift(t, "h_nl") EXCEPT !.nl = @ + 1], m)
    BY DEF Apt, Ready, Done, Placed, Base, Shift, ParserFields, States, Escapes
  <1> HIDE DEF d, t, r
  <1>6. c \in {CR, LF} => Done(LineEnd(t, c), m)
    <2>1. CR # LF /\ CR # H_EOF /\ LF # H_EOF
      BY DEF CR, LF, H_EOF
    <2> QED BY <1>4, <1>5, <2>1, Zenon DEF LineEnd
  <1> QED BY <1>1, <1>2, <1>3, <1>6, Zenon DEF d

LEMMA VersionDone ==
  \A s : \A m \in Nat : \A c : \A i : Apt(s, m) => Done(Version(s, i, c), m)
  BY AptHttpv, AptDone DEF Version

LEMMA DotDone ==
  \A s : \A m \in Nat : \A c \in Char : Apt(s, m) => Done(h_prot_http_x_dot(s, c), m)
  <1> SUFFICES ASSUME NEW s, NEW m \in Nat, NEW c \in Char, Apt(s, m)
               PROVE  Done(h_prot_http_x_dot(s, c), m)
    OBVIOUS
  <1>1. Done(h_prot_http_x_x(Shift(s, "h_prot_http_x_x"), c), m)
    BY EndOfLineDone
  <1> QED BY <1>1, VersionDone DEF h_prot_http_x_dot

LEMMA SlashDone ==
  \A s : \A m \in Nat : \A c \in Char : Apt(s, m) => Done(h_prot_slash(s, c), m)
  <1> SUFFICES ASSUME NEW s, NEW m \in Nat, NEW c \in Char, Apt(s, m)
               PROVE  Done(h_prot_slash(s, c), m)
    OBVIOUS
  <1>1. Done(Shift(s, "h_prot_http_x_dot"), m)
    BY AptShift, SteadyStates, AptDone, Zenon
  <1>2. Done(Version(s, 1, c), m)
    BY VersionDone
  <1> QED BY <1>1, <1>2, AptBad, Zenon DEF h_prot_slash

LEMMA CrDone ==
  \A s : \A m \in Nat : \A c \in Char : Apt(s, m) => Done(h_cr(s, c), m)
  <1> SUFFICES ASSUME NEW s, NEW m \in Nat, NEW c \in Char, Apt(s, m)
               PROVE  Done(h_cr(s, c), m)
    OBVIOUS
  <1> QED BY LineEndDone, AptBad DEF h_cr

LEMMA SkiplineDone ==
  \A s : \A m \in Nat : \A c \in Char : Ready(s, m) => Done(h_skipline(s, c), m)
  <1> SUFFICES ASSUME NEW s, NEW m \in Nat, NEW c \in Char, Ready(s, m)
               PROVE  Done(h_skipline(s, c), m)
    OBVIOUS
  <1>1. Apt(Release(Shift(s, "h_skipline")), m)
    BY ReadyShift, AptRelease, SteadyStates, Zenon
  <1> QED BY <1>1, LineEndDone, Zenon DEF h_skipline

LEMMA ValueDone ==
  \A s : \A m \in Nat : \A c \in Char : Apt(s, m) => Done(h_value(s, c), m)
  <1> SUFFICES ASSUME NEW s, NEW m \in Nat, NEW c \in Char, Apt(s, m)
               PROVE  Done(h_value(s, c), m)
    OBVIOUS
  <1> DEFINE t == Release(Shift(s, "h_value"))
             u == Shift(Put(t, SPACE, 413), "h_value_lead")
  <1>1. Apt(t, m)
    BY AptShift, AptRelease, SteadyStates, Zenon
  <1>2. h_value(s, c) = CASE c \in Blank -> [u EXCEPT !.est = "h_value"]
                          [] c \in {CR, LF, H_EOF} -> Put(LineEnd(t, c), 0, 413)
                          [] OTHER -> Put(t, c, 413)
    BY DEF h_value
  <1>3. Apt(Put(t, SPACE, 413), m)
    BY <1>1, AptPut413, Characters, Zenon
  <1>4. Apt(u, m)
    BY <1>3, AptShift, SteadyStates, Zenon
  <1>5. u.st = "h_value_lead"
    BY <1>3 DEF Shift, Apt, Ready, Base, ParserFields
  <1> HIDE DEF t, u
  <1>6. Done([u EXCEPT !.est = "h_value"], m)
    BY <1>4, <1>5, AptEst, AptDone DEF Escapes
  <1>7. Done(Put(LineEnd(t, c), 0, 413), m)
    BY <1>1, LineEndDone, DonePut, Characters, Zenon
  <1>8. Done(Put(t, c, 413), m)
    BY <1>1, AptPut413, AptDone, Zenon
  <1> QED BY <1>2, <1>6, <1>7, <1>8, Zenon

LEMMA LengthDone ==
  \A s : \A m \in Nat : \A c \in Char : Apt(s, m) => Done(h_head_content_length(s, c), m)
  <1> SUFFICES ASSUME NEW s, NEW m \in Nat, NEW c \in Char, Apt(s, m)
               PROVE  Done(h_head_content_length(s, c), m)
    OBVIOUS
  <1> DEFINE e == (s.esc * 10 + c - 48) % Modulus
             t == Shift(s, "h_cr")
             q == [[t.rq EXCEPT !.flags = @ \cup {"content_length"}] EXCEPT !.length = s.esc]
  <1>1. e \in Int
    BY HttpParserAssumption DEF Char, Apt, Ready, Base
  <1>2. Apt(t, m)
    BY AptShift, SteadyStates, Zenon
  <1>3. "rq" \in DOMAIN t
    BY <1>2 DEF Apt, Ready, Base, ParserFields
  <1>4. h_head_content_length(s, c) =
          CASE c \in Digit -> [s EXCEPT !.esc = e]
            [] c = CR -> [t EXCEPT !.rq = q]
            [] c = LF -> h_cr(t, c)
            [] OTHER -> BadRequest(s)
    BY <1>3 DEF h_head_content_length
  <1> HIDE DEF e, t, q
  <1>5. Done([s EXCEPT !.esc = e], m)
    BY <1>1, AptEsc, AptDone
  <1>6. Done([t EXCEPT !.rq = q], m)
    BY <1>2, AptRq, AptDone
  <1>7. Done(h_cr(t, c), m)
    BY <1>2, CrDone, Zenon
  <1> QED BY <1>4, <1>5, <1>6, <1>7, AptBad, Zenon

LEMMA FlagDone ==
  \A s : \A m \in Nat : \A c \in Char : Ready(s, m) /\ s.st = "h_head_flag" => Done(h_head_flag(s, c), m)
  <1> SUFFICES ASSUME NEW s, NEW m \in Nat, NEW c \in Char, Ready(s, m), s.st = "h_head_flag"
               PROVE  Done(h_head_flag(s, c), m)
    OBVIOUS
  <1> DEFINE x == IF c \in {CR, LF} THEN 0 ELSE ToLower(c)
             w == walk_trie(s.flag, s, x)
             t == Walked(s, w)
             q == [t.rq EXCEPT !.flags = @ \cup {Code(w)}]
  <1>1. h_head_flag(s, c) = CASE w.hit = "word" -> h_skipline([t EXCEPT !.rq = q], c)
                              [] w.hit = "more" -> t
                              [] OTHER -> h_skipline(t, c)
    BY DEF h_head_flag
  <1>2. x \in Int
    BY DEF Char, ToLower
  <1> HIDE DEF x
  <1>3. Ready(t, m) /\ (w.hit = "more" => Done(t, m))
    BY <1>2, ReadyWalked
  <1> HIDE DEF w, t, q
  <1>4. Ready([t EXCEPT !.rq = q], m)
    BY <1>3, ReadyRq
  <1> QED BY <1>1, <1>3, <1>4, SkiplineDone, Zenon

LEMMA FieldDone ==
  \A s : \A m \in Nat : \A c \in Char : Apt(s, m) => Done(Field(s, c), m)
  <1> SUFFICES ASSUME NEW s, NEW m \in Nat, NEW c \in Char, Apt(s, m)
               PROVE  Done(Field(s, c), m)
    OBVIOUS
  <1> DEFINE d == Shift(s, "h_head_flag")
             f == FlagOf[s.est]
             t == [d EXCEPT !.flag = f]
             l == Shift(s, s.est)
  <1>1. Field(s, c) =
          CASE s.est = "h_value" -> h_value(s, c)
            [] s.est = "h_skipline" -> h_skipline(s, c)
            [] s.est = "h_head_content_length" -> h_head_content_length(l, c)
            [] OTHER -> h_head_flag(t, c)
    BY DEF Field
  <1>2. Ready(d, m) /\ d.st = "h_head_flag"
    BY DEF Apt, Ready, Base, Shift, ParserFields, States, Escapes
  <1>3. s.est = "h_head_content_length" => Apt(l, m)
    BY AptShift, SteadyStates
  <1> HIDE DEF d, f, l
  <1>4. Ready(t, m) /\ t.st = "h_head_flag"
    BY <1>2, ReadyFlag
  <1> HIDE DEF t
  <1>5. Ready(s, m)
    BY DEF Apt
  <1> QED BY <1>1, <1>3, <1>4, <1>5, ValueDone, SkiplineDone, LengthDone, FlagDone, Zenon

LEMMA ValueLeadDone ==
  \A s : \A m \in Nat : \A c \in Char : Apt(s, m) => Done(h_value_lead(s, c), m)
  <1> SUFFICES ASSUME NEW s, NEW m \in Nat, NEW c \in Char, Apt(s, m)
               PROVE  Done(h_value_lead(s, c), m)
    OBVIOUS
  <1>1. Done(Field(Release(s), c), m)
    BY AptRelease, FieldDone, Zenon
  <1> QED BY <1>1, AptDone DEF h_value_lead

LEMMA ContDone ==
  \A s : \A m \in Nat : \A c \in Char : Apt(s, m) => Done(h_cont(s, c), m)
  <1> SUFFICES ASSUME NEW s, NEW m \in Nat, NEW c \in Char, Apt(s, m)
               PROVE  Done(h_cont(s, c), m)
    OBVIOUS
  <1> DEFINE d == Shift(s, "h_value_lead")
             x == Text!ReplaceC(d.text, -1, SPACE)
             t == [d EXCEPT !.text = x]
  <1>1. h_cont(s, c) = IF s.collect THEN h_value_lead(t, c) ELSE h_skipline(s, c)
    BY DEF h_cont
  <1>2. Apt(d, m)
    BY AptShift, SteadyStates, Zenon
  <1> HIDE DEF d
  <1>3. Stored(x)
    BY <1>2, StoredReplaceC, Characters DEF Apt, Ready, Base
  <1> HIDE DEF x
  <1>4. Apt(t, m)
    BY <1>2, <1>3, AptText
  <1> HIDE DEF t
  <1> QED BY <1>1, <1>4, ValueLeadDone, SkiplineDone DEF Apt

LEMMA CollectDone ==
  \A s : \A m \in Nat : \A r \in Nat : Apt(s, m) => Done(Collect(s, r), m)
  <1> SUFFICES ASSUME NEW s, NEW m \in Nat, NEW r \in Nat, Apt(s, m)
               PROVE  Done(Collect(s, r), m)
    OBVIOUS
  <1> DEFINE one == Text!PutI(s.text, r)
             two == Text!PutI(one, Text!Low(s.text))
             d == Shift(s, "h_value_lead")
             t == [d EXCEPT !.text = two]
             u == [t EXCEPT !.collect = TRUE]
             v == [u EXCEPT !.est = "h_value"]
             room == Text!HasRoomI(s.text) /\ Text!HasRoomI(one)
  <1>1. Collect(s, r) = IF room THEN v ELSE Return(s, 413)
    BY DEF Collect
  <1>2. Stored(s.text)
    BY DEF Apt, Ready, Base
  <1>3. Text!Low(s.text) \in Nat
    BY <1>2 DEF Stored, Text!Low
  <1>4. room => Stored(one)
    BY <1>2, StoredPutI
  <1> HIDE DEF one
  <1>5. room => Stored(two)
    BY <1>3, <1>4, StoredPutI
  <1>6. Apt(d, m) /\ d.st = "h_value_lead" /\ "st" \in DOMAIN d
    <2>1. Apt(d, m)
      BY AptShift, SteadyStates, Zenon
    <2> QED BY <2>1 DEF Shift, Apt, Ready, Base, ParserFields
  <1> HIDE DEF d, two, room
  <1>7. room => Apt(t, m) /\ t.st = "h_value_lead"
    BY <1>5, <1>6, AptText
  <1> HIDE DEF t
  <1>8. room => Apt(u, m) /\ u.st = "h_value_lead"
    BY <1>7, AptCollect
  <1> HIDE DEF u
  <1>9. room => Done(v, m)
    BY <1>8, AptEst, AptDone DEF Escapes
  <1> HIDE DEF v
  <1> QED BY <1>1, <1>9, AptBad

LEMMA HeaderDone ==
  \A s : \A m \in Nat : \A r \in Nat : Apt(s, m) => Done(Header(s, r), m)
  <1> SUFFICES ASSUME NEW s, NEW m \in Nat, NEW r \in Nat, Apt(s, m)
               PROVE  Done(Header(s, r), m)
    OBVIOUS
  <1> DEFINE d == Shift(s, "h_value_lead")
             i == InterpretedBy[r]
             e == [d EXCEPT !.est = i]
             z == [e EXCEPT !.esc = 0]
             k2 == Shift(s, "h_skipline")
             n == [k2 EXCEPT !.est = "h_skipline"]
             o == [n EXCEPT !.collect = FALSE]
  <1>1. Header(s, r) =
          CASE r = http_rq_content_length -> z
            [] r \in DOMAIN InterpretedBy -> e
            [] r \notin DOMAIN InterpretedBy /\ Collected(r, wraps) -> Collect(s, r)
            [] OTHER -> o
    BY DEF Header
  <1>2. Apt(d, m) /\ Apt(k2, m)
    BY AptShift, SteadyStates, Zenon
  <1>3. d.st \notin Escapes /\ k2.st \notin Escapes
    BY <1>2 DEF Shift, Apt, Ready, Base, ParserFields, Escapes
  <1> HIDE DEF d, k2, i
  <1>4. Apt(e, m) /\ Apt(n, m)
    BY <1>2, <1>3, AptEst
  <1> HIDE DEF e, n
  <1>5. Apt(z, m) /\ Apt(o, m)
    BY <1>4, AptEsc, AptCollect
  <1> HIDE DEF z, o
  <1> QED BY <1>1, <1>4, <1>5, CollectDone, AptDone, Zenon

LEMMA HeaderNameDone ==
  \A s : \A m \in Nat : \A c \in Char : Apt(s, m) /\ s.st = "h_header" => Done(h_header(s, c), m)
  <1> SUFFICES ASSUME NEW s, NEW m \in Nat, NEW c \in Char, Apt(s, m), s.st = "h_header"
               PROVE  Done(h_header(s, c), m)
    OBVIOUS
  <1> DEFINE x == IF c = 58 THEN 0 ELSE ToLower(c)
             w == walk_trie("header", s, x)
             t == Walked(s, w)
  <1>1. h_header(s, c) = CASE w.hit = "word" -> Header(NewWord(t), Code(w))
                           [] w.hit = "more" -> t
                           [] OTHER -> h_skipline(t, c)
    BY DEF h_header
  <1>2. x \in Int
    BY DEF Char, ToLower
  <1> HIDE DEF x
  <1>3. WalksTo("header", s, x, w)
    BY <1>2, Walks DEF Apt, Ready, Base
  <1>4. Apt(t, m)
    BY <1>2, AptWalked
  <1> HIDE DEF w
  <1>5. w.hit = "word" => Code(w) \in Nat
    BY <1>3, HttpParserAssumption DEF WalksTo, Code, Apt, Ready, Base
  <1> HIDE DEF t
  <1>6. Apt(NewWord(t), m) /\ Ready(t, m) /\ Done(t, m)
    BY <1>4, AptWord, AptDone DEF Apt
  <1>7. w.hit = "word" => Done(Header(NewWord(t), Code(w)), m)
    BY <1>5, <1>6, HeaderDone
  <1> QED BY <1>1, <1>6, <1>7, SkiplineDone, Zenon

LEMMA NlDone ==
  \A s : \A m \in Nat : \A c \in Char : Apt(s, m) => Done(h_nl(s, c), m)
  <1> SUFFICES ASSUME NEW s, NEW m \in Nat, NEW c \in Char, Apt(s, m)
               PROVE  Done(h_nl(s, c), m)
    OBVIOUS
  <1> DEFINE t == Release(s)
             a == Shift(t, "h_cont")
             b == Shift(NewWord(t), "h_header")
             f == [a EXCEPT !.nl = 0]
             h == [b EXCEPT !.nl = 0]
  <1>1. h_nl(s, c) = CASE c \in {CR, LF} -> LineEnd(t, c)
                       [] c \in Blank -> f
                       [] OTHER -> h_header(h, c)
    BY DEF h_nl
  <1>2. Apt(t, m)
    BY AptRelease
  <1> HIDE DEF t
  <1>3. Apt(a, m)
    BY <1>2, AptShift, SteadyStates, Zenon
  <1>4. Apt(b, m) /\ b.st = "h_header"
    BY <1>2 DEF Apt, Ready, Base, Shift, NewWord, ParserFields, States, Escapes
  <1> HIDE DEF a, b
  <1>5. Done(f, m)
    BY <1>3, AptNl, AptDone
  <1>6. Apt(h, m) /\ h.st = "h_header"
    BY <1>4, AptNl DEF Apt, Ready, Base, ParserFields
  <1> HIDE DEF f, h
  <1> QED BY <1>1, <1>2, <1>5, <1>6, LineEndDone, HeaderNameDone, Zenon

---------------------------------------------------------------------------
(* The loop                                                                *)

LEMMA DispatchDone ==
  \A s : \A m \in Nat : \A c \in Char : Ready(s, m) => Done(Dispatch(s, c), m)
  <1> SUFFICES ASSUME NEW s, NEW m \in Nat, NEW c \in Char, Ready(s, m)
               PROVE  Done(Dispatch(s, c), m)
    OBVIOUS
  <1>1. CASE s.st = "h_head_flag"
    <2>1. Done(h_head_flag(s, c), m)
      BY <1>1, FlagDone
    <2>2. Dispatch(s, c) = h_head_flag(s, c)
      BY <1>1, Zenon DEF Dispatch
    <2> QED BY <2>1, <2>2
  <1>2. CASE s.st # "h_head_flag"
    <2>1. Apt(s, m)
      BY <1>2 DEF Apt
    <2>2. s.st \in States \ {"h_head_flag"}
      BY <1>2 DEF Ready
    <2>3. s.st \in {"h_initial", "h_method", "h_method_sp", "h_path_sp", "h_prot"}
            => Done(Dispatch(s, c), m)
      BY <2>1, InitialDone, MethodDone, MethodSpDone, PathSpDone, ProtDone, Zenon DEF Dispatch
    <2>4. s.st \in {"h_path", "h_query", "h_escaped_1", "h_escaped_2"}
            => Done(Dispatch(s, c), m)
      <3>1. s.st \in {"h_path", "h_query"} => Done(h_uri(s, c), m)
        BY <2>1, UriDone
      <3> QED BY <2>1, <3>1, EscapedDone, Zenon DEF Dispatch
    <2>5. s.st \in {"h_prot_slash", "h_prot_http_x_dot", "h_cr", "h_nl", "h_header"}
            => Done(Dispatch(s, c), m)
      BY <2>1, SlashDone, DotDone, CrDone, NlDone, HeaderNameDone, Zenon DEF Dispatch
    <2>6. s.st \in {"h_skipline", "h_value", "h_value_lead", "h_cont", "h_head_content_length"}
            => Done(Dispatch(s, c), m)
      BY <2>1, SkiplineDone, ValueDone, ValueLeadDone, ContDone, LengthDone, Zenon
      DEF Dispatch, Apt
    <2> QED BY <2>2, <2>3, <2>4, <2>5, <2>6 DEF States
  <1> QED BY <1>1, <1>2

\* The parser after the characters up to position p.
Reading(s, p) ==
    /\ s.m \in Nat /\ s.m <= p /\ Done(s, s.m)
    /\ s.ret = Again => s.m = p /\ s.nl \in {0, 1}

LEMMA TurnReads ==
  \A s : \A p \in Nat : \A c \in Char : Reading(s, p) => Reading(Turn(s, c), p + 1)
  <1> SUFFICES ASSUME NEW s, NEW p \in Nat, NEW c \in Char, Reading(s, p)
               PROVE  Reading(Turn(s, c), p + 1)
    OBVIOUS
  <1>1. CASE s.ret # Again
    BY <1>1 DEF Turn, Reading
  <1>2. CASE s.ret = Again
    <2> DEFINE t == Dispatch(s, c)
    <2>1. Done(t, p)
      BY <1>2, DispatchDone DEF Reading, Ready, Done
    <2>2. Turn(s, c) = IF t.ret # Again THEN t
                       ELSE [t EXCEPT !.m = @ + 1, !.ret = IF t.nl > 1 THEN 0 ELSE Again]
      BY <1>2 DEF Turn
    <2> HIDE DEF t
    <2>3. CASE t.ret # Again
      BY <2>1, <2>2, <2>3 DEF Reading, Done, Base
    <2>4. CASE t.ret = Again
      <3> DEFINE e == IF t.nl > 1 THEN 0 ELSE Again
                 u == [t EXCEPT !.m = @ + 1, !.ret = e]
      <3>1. e \in {0, Again} /\ (e = Again => t.nl \in {0, 1})
        BY <2>1 DEF Done, Base, Again
      <3> HIDE DEF e
      <3>2. Reading(u, p + 1)
        BY <2>1, <2>4, <3>1 DEF Reading, Done, Base, Placed, ParserFields, Again
      <3> QED BY <2>2, <2>4, <3>2 DEF e
    <2> QED BY <2>3, <2>4
  <1> QED BY <1>1, <1>2

\* The set that stands for the parser in the loop of a call.
All(S, p) == S # {} /\ \A s \in S : Reading(s, p)

LEMMA LoopReads ==
  ASSUME NEW S, NEW p \in Nat, All(S, p), NEW input \in Seq(Char)
  PROVE  All(Turns!Fold(S, input), p + Len(input))
  <1> DEFINE n == Len(input)
  <1>1. Turns!Fold(S, input) = Turning!Fold(S, input)
    BY DEF Turns!Fold, Turning!Fold
  <1>2. PICK f : Turning!Folding(S, input, n, f) /\ Turning!Fold(S, input) = f[n]
    BY Turning!FoldIs
  <1>3. f[0] = S
    BY <1>2 DEF Turning!Folding
  <1>4. \A i \in Nat : i < n => f[i + 1] = EachTurn(f[i], input[i + 1])
    BY <1>2 DEF Turning!Folding
  <1> DEFINE I == {i \in Nat : i <= n => All(f[i], p + i)}
  <1>5. 0 \in I
    BY <1>3
  <1>6. ASSUME NEW i \in Nat, i \in I PROVE i + 1 \in I
    <2> SUFFICES ASSUME i + 1 <= n PROVE All(f[i + 1], (p + i) + 1)
      OBVIOUS
    <2>1. All(f[i], p + i) /\ input[i + 1] \in Char /\ p + i \in Nat
      BY <1>6
    <2>2. f[i + 1] = EachTurn(f[i], input[i + 1])
      BY <1>4
    <2> QED BY <2>1, <2>2, TurnReads DEF All, EachTurn
  <1> HIDE DEF I
  <1>7. Nat \subseteq I
    BY <1>5, <1>6, Turning!Inductive
  <1>8. All(f[n], p + n)
    BY <1>7 DEF I
  <1> QED BY <1>1, <1>2, <1>8

---------------------------------------------------------------------------
(* The invariant                                                           *)

\* What is around the parser.
Around ==
    /\ conn \in Connections /\ k \in DOMAIN conn.asked
    /\ read \in Nat /\ write \in 0 .. Len(conn.wire) /\ eof \in BOOLEAN
    /\ at \in {"readfd", "parse", "done", "closed"} /\ status \in {0, 400, 413, 414, 505}
    /\ wraps \in BOOLEAN /\ faults \in 0 .. MaxFaults

\* Between calls the parser is as after the characters up to m, and nothing is given
\* back to the ring that it has not looked at.
Between ==
    /\ Reading(rqs, rqs.m) /\ rqs.st \in States /\ read <= rqs.m
    /\ (~eof \/ at = "parse") => rqs.m <= write

Inv == Around /\ Between

\* The ring never gives back what the parser has not seen, and the parser never sees
\* what has not been read: the window of minute_http_read is a part of the ring.
Window == ~eof => read <= rqs.m /\ rqs.m <= write

LEMMA InvGives ==
  Inv => TypeOK /\ StoreApart /\ FlagResumed /\ Window
  <1> SUFFICES ASSUME Inv PROVE TypeOK /\ StoreApart /\ FlagResumed /\ Window
    OBVIOUS
  <1>1. Base(rqs, rqs.m) /\ Placed(rqs) /\ rqs.m \in Nat
    BY DEF Inv, Between, Reading, Done
  <1>2. StoreApart
    BY <1>1 DEF StoreApart, Base, Stored
  <1>3. FlagResumed
    BY <1>1 DEF FlagResumed, Placed
  <1>4. Window
    BY DEF Inv, Between, Window
  <1>5. TypeOK
    <2>1. rqs.st \in States
      BY DEF Inv, Between
    <2>2. Around
      BY DEF Inv
    <2>3. /\ rqs.m \in Nat /\ rqs.b \in Nat /\ rqs.nl \in {0, 1, 2, 99}
          /\ rqs.text.ints \in Seq(Nat) /\ rqs.text.text \in Seq(Char)
      BY <1>1 DEF Base, Stored
    <2> QED BY <2>1, <2>2, <2>3, Zenon DEF TypeOK, Around
  <1> QED BY <1>2, <1>3, <1>4, <1>5

\* A parser that has been initialized at m.
LEMMA InitReads ==
  ASSUME NEW m \in Nat
  PROVE  LET s == minute_http_init(m)
         IN  Reading(s, m) /\ s.m = m /\ s.st \in States
  <1> DEFINE s == minute_http_init(m)
             t == Text!PutC(Text!Clear, 0)
  <1>1. Stored(t)
    BY StoredClear
  <1>2. s = [st |-> "h_initial", est |-> "h_initial", pos |-> <<>>, slot |-> "", m |-> m,
             b |-> m, esc |-> 0, httpv |-> <<0, 0>>, nl |-> 0, collect |-> FALSE,
             flag |-> "NULL", ret |-> Again, rq |-> NoRequest, text |-> t]
    BY DEF minute_http_init
  <1> HIDE DEF t, s
  <1>3. <<>> \in Seq(Int)
    OBVIOUS
  <1>4. DOMAIN s = ParserFields
    BY <1>2 DEF ParserFields
  <1>5. /\ s.st = "h_initial" /\ s.pos = <<>> /\ s.m = m /\ s.b = m /\ s.esc = 0
        /\ s.nl = 0 /\ s.ret = Again /\ s.text = t
    BY <1>2
  <1>6. Base(s, m)
    BY <1>1, <1>3, <1>4, <1>5 DEF Base, States, Escapes
  <1>7. Reading(s, m) /\ s.m = m /\ s.st \in States
    BY <1>5, <1>6 DEF Reading, Done, Placed, States
  <1> QED BY <1>7 DEF s

LEMMA InitInv ==
  Init => Inv
  <1> SUFFICES ASSUME Init PROVE Inv
    OBVIOUS
  <1>1. conn \in Connections /\ conn.wire \in Seq(Char) /\ Len(conn.wire) \in Nat
        /\ 1 \in DOMAIN conn.asked
    BY HttpParserAssumption DEF Init, ConnectionType
  <1>2. write \in 0 .. Len(conn.wire)
    BY <1>1, HttpParserAssumption DEF Init
  <1>3. at \in {"readfd", "parse"}
    BY DEF Init, Begin
  <1>4. Around
    BY <1>1, <1>2, <1>3, HttpParserAssumption DEF Init, Around
  <1>5. Reading(rqs, 0) /\ rqs.m = 0 /\ rqs.st \in States
    BY InitReads DEF Init
  <1>6. Between
    BY <1>1, <1>2, <1>5 DEF Init, Between
  <1> QED BY <1>4, <1>6 DEF Inv

\* What one call of minute_http_read comes to.
LEMMA ReadReads ==
  ASSUME Inv, at = "parse"
  PROVE  \E p \in Nat : /\ Reading(minute_http_read, p)
                        /\ p = write + (IF eof THEN 1 ELSE 0)
  <1> DEFINE held  == SubSeq(conn.wire, rqs.m + 1, write)
             last  == IF eof THEN <<H_EOF>> ELSE <<>>
             input == held \o last
             start == [rqs EXCEPT !.b = read, !.flag = "NULL"]
             p     == write + (IF eof THEN 1 ELSE 0)
  <1>1. /\ rqs.m \in Nat /\ rqs.m <= write /\ write \in Nat /\ write <= Len(conn.wire)
        /\ conn.wire \in Seq(Char) /\ Len(conn.wire) \in Nat
        /\ read \in Nat /\ read <= rqs.m
    BY HttpParserAssumption DEF Inv, Around, Between, Reading, ConnectionType
  <1>2. held \in Seq(Char) /\ Len(held) = write - rqs.m
    BY <1>1
  <1>3. last \in Seq(Char) /\ Len(last) = (IF eof THEN 1 ELSE 0)
    <2>1. H_EOF \in Char
      BY DEF H_EOF, Char
    <2>2. \A x : x \in Char => <<x>> \in Seq(Char) /\ Len(<<x>>) = 1
      OBVIOUS
    <2>3. <<>> \in Seq(Char) /\ Len(<<>>) = 0
      OBVIOUS
    <2> QED BY <2>1, <2>2, <2>3
  <1> HIDE DEF held, last
  <1>4. input \in Seq(Char) /\ Len(input) = Len(held) + Len(last)
    BY <1>2, <1>3, ConcatProperties
  <1>5. Reading(start, rqs.m)
    BY <1>1 DEF Inv, Between, Reading, Done, Base, Placed, ParserFields
  <1>6. All({start}, rqs.m)
    BY <1>5 DEF All
  <1>7. minute_http_read = CHOOSE s \in Turns!Fold({start}, input) : TRUE
    BY DEF minute_http_read, held, last
  <1>8. rqs.m + Len(input) = p /\ p \in Nat
    BY <1>1, <1>2, <1>3, <1>4
  <1> HIDE DEF input, start, p
  <1>9. All(Turns!Fold({start}, input), p)
    BY <1>1, <1>4, <1>6, <1>8, LoopReads
  <1>10. Reading(minute_http_read, p)
    BY <1>7, <1>9 DEF All
  <1> QED BY <1>8, <1>10 DEF p

LEMMA FdKeeps ==
  Inv /\ (Data \/ FdEnd \/ FdError \/ FdFull) => Inv'
  <1> SUFFICES ASSUME Inv, Data \/ FdEnd \/ FdError \/ FdFull PROVE Inv'
    OBVIOUS
  <1>1. conn' = conn /\ k' = k /\ read' = read /\ rqs' = rqs /\ wraps' = wraps
    BY DEF Data, FdData, FdEnd, FdError, FdFull, FdNone, Fd
  <1>2. Len(conn.wire) \in Nat /\ Size \in Nat /\ MaxFaults \in Nat
    BY HttpParserAssumption DEF Inv, Around, ConnectionType
  <1>3. /\ write \in Nat /\ write' \in Nat /\ write <= write' /\ write' <= Len(conn.wire)
        /\ eof' \in BOOLEAN /\ (~eof' \/ at' = "parse" => ~eof)
    <2>1. write \in Nat /\ write <= Len(conn.wire) /\ eof \in BOOLEAN
      BY <1>2 DEF Inv, Around
    <2>2. CASE Data
      <3>1. PICK n \in 1 .. Size : FdData(n)
        BY <2>2 DEF Data
      <3> QED BY <1>2, <2>1, <3>1 DEF FdData
    <2>3. CASE FdEnd
      BY <2>1, <2>3 DEF FdEnd
    <2>4. CASE FdError \/ FdFull
      BY <2>1, <2>4 DEF FdError, FdFull, FdNone, Fd
    <2> QED BY <2>2, <2>3, <2>4
  <1>4. /\ at' \in {"readfd", "parse", "done", "closed"}
        /\ status' \in {0, 400, 413, 414, 505} /\ faults' \in 0 .. MaxFaults
    BY <1>2 DEF Inv, Around, Data, FdData, FdEnd, FdError, FdFull, FdNone, Fd
  <1>5. Around'
    BY <1>1, <1>3, <1>4 DEF Inv, Around
  <1>6. rqs.m \in Nat
    BY DEF Inv, Between, Reading
  <1>7. Between'
    BY <1>1, <1>3, <1>6 DEF Inv, Between
  <1> QED BY <1>5, <1>7 DEF Inv

LEMMA ParseKeeps ==
  Inv /\ Parse => Inv'
  <1> SUFFICES ASSUME Inv, Parse PROVE Inv'
    OBVIOUS
  <1> DEFINE s == minute_http_read
  <1>1. at = "parse" /\ UNCHANGED <<conn, k, write, eof, wraps, faults>>
    BY DEF Parse
  <1>2. ParseMore(s) \/ ParseDone(s) \/ ParseError(s)
    BY DEF Parse
  <1>3. PICK p \in Nat : Reading(s, p) /\ p = write + (IF eof THEN 1 ELSE 0)
    BY <1>1, ReadReads
  <1> HIDE DEF s
  <1>4. eof \in BOOLEAN /\ write \in Nat /\ rqs.m \in Nat
    BY DEF Inv, Around, Between, Reading
  <1>5. /\ Base(s, s.m) /\ s.m \in Nat /\ s.b \in Nat /\ s.b <= s.m /\ s.m <= p
        /\ s.ret \in {Again, 0, 400, 413, 414, 505}
    BY <1>3 DEF Reading, Done, Base
  <1>6. CASE ParseMore(s)
    <2> DEFINE t == [s EXCEPT !.flag = "NULL"]
    <2>1. Reading(t, t.m) /\ t.st \in States /\ t.m = s.m
      BY <1>3, <1>6 DEF ParseMore, Reading, Done, Base, Placed, ParserFields
    <2>2. rqs' = t /\ read' = s.b /\ at' = "readfd" /\ status' = status
      BY <1>6 DEF ParseMore
    <2> HIDE DEF t
    <2>3. Around'
      BY <1>1, <1>5, <2>2 DEF Inv, Around
    <2>4. Between'
      BY <1>1, <1>3, <1>4, <1>5, <2>1, <2>2 DEF Between
    <2> QED BY <2>3, <2>4 DEF Inv
  <1>7. CASE ParseDone(s)
    <2>1. rqs' = s /\ read' = s.m /\ at' = "done" /\ status' = 0 /\ s.ret = 0
      BY <1>7 DEF ParseDone
    <2>2. Reading(s, s.m) /\ s.st \in States
      BY <1>3, <2>1 DEF Reading, Done, Again
    <2>3. Around'
      BY <1>1, <1>5, <2>1 DEF Inv, Around
    <2>4. Between'
      BY <1>1, <1>3, <1>4, <1>5, <2>1, <2>2 DEF Between
    <2> QED BY <2>3, <2>4 DEF Inv
  <1>8. CASE ParseError(s)
    <2> DEFINE q == s.rq
               x == s.text
               t == [rqs EXCEPT !.rq = q, !.text = x]
    <2>1. Stored(x)
      BY <1>5 DEF Base
    <2>2. rqs' = t /\ read' = read /\ at' = "done" /\ status' = s.ret
          /\ s.ret \notin {Again, 0}
      BY <1>8 DEF ParseError
    <2> HIDE DEF q, x
    <2>3. Reading(t, t.m) /\ t.st \in States /\ t.m = rqs.m
      BY <2>1 DEF Inv, Between, Reading, Done, Base, Placed, ParserFields
    <2> HIDE DEF t
    <2>4. Around'
      BY <1>1, <1>5, <2>2 DEF Inv, Around
    <2>5. Between'
      BY <1>1, <2>2, <2>3 DEF Inv, Between
    <2> QED BY <2>4, <2>5 DEF Inv
  <1> QED BY <1>2, <1>6, <1>7, <1>8

LEMMA NextRequestKeeps ==
  Inv /\ NextRequest => Inv'
  <1> SUFFICES ASSUME Inv, NextRequest PROVE Inv'
    OBVIOUS
  <1>1. /\ UNCHANGED <<conn, read, write, eof, status, wraps, faults>> /\ ~eof
        /\ k' = k + 1 /\ k < Len(conn.asked) /\ rqs' = minute_http_init(read)
        /\ at' \in {"readfd", "parse"}
    BY DEF NextRequest, Begin
  <1>2. k + 1 \in DOMAIN conn.asked
    BY <1>1, HttpParserAssumption DEF Inv, Around, ConnectionType
  <1>3. Around'
    BY <1>1, <1>2 DEF Inv, Around
  <1>4. read \in Nat /\ read <= write
    BY <1>1 DEF Inv, Around, Between, Reading
  <1>5. Reading(rqs', read) /\ rqs'.m = read /\ rqs'.st \in States
    BY <1>1, <1>4, InitReads
  <1>6. Between'
    BY <1>1, <1>4, <1>5 DEF Between
  <1> QED BY <1>3, <1>6 DEF Inv

LEMMA InvKept ==
  Inv /\ [Next]_vars => Inv'
  <1>1. Inv /\ UNCHANGED vars => Inv'
    BY DEF Inv, Around, Between, vars
  <1> QED BY <1>1, FdKeeps, ParseKeeps, NextRequestKeeps DEF Next, Server

LEMMA AlwaysInv ==
  Spec => []Inv
  BY InitInv, InvKept, PTL DEF Spec

---------------------------------------------------------------------------
(* The theorems                                                            *)

\* The parser and the ring it reads from are always what their types say.
THEOREM TypeCorrect ==
  Spec => []TypeOK
  BY AlwaysInv, InvGives, PTL

\* However much a client sends and however it arrives, the strings and the integers of
\* the store never meet: every minute_textint_put is refused before they would.
THEOREM StoreApartHolds ==
  Spec => []StoreApart
  BY AlwaysInv, InvGives, PTL

\* A call that goes on with the value of a flag header finds a node of its trie: the
\* local variable that holds the root is never dereferenced when it is null.
THEOREM FlagResumedHolds ==
  Spec => []FlagResumed
  BY AlwaysInv, InvGives, PTL

\* The ring is never asked to give back bytes the parser has not looked at, and the
\* parser never looks beyond what has been read.
THEOREM WindowHolds ==
  Spec => []Window
  BY AlwaysInv, InvGives, PTL
=============================================================================
