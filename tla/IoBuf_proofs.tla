---------------------------- MODULE IoBuf_proofs ----------------------------
(* Proofs about the ring, for every size, modulus, set of strings and set   *)
(* of buffer sizes.                                                         *)
EXTENDS IoBuf, SequenceTheorems, TLAPS

---------------------------------------------------------------------------
(* Remainders                                                              *)

\* Division with remainder.
LEMMA Mod ==
  ASSUME NEW x \in Int, NEW m \in Nat \ {0}
  PROVE  /\ x % m \in 0 .. m - 1
         /\ x \div m \in Int
         /\ x = m * (x \div m) + (x % m)
  OBVIOUS

\* The remainder is the only one.
LEMMA ModUnique ==
  ASSUME NEW m \in Nat \ {0}, NEW q \in Int, NEW r \in 0 .. m - 1
  PROVE  (m * q + r) % m = r
  <1> DEFINE x == m * q + r
             p == x \div m
             s == x % m
  <1>1. x \in Int /\ p \in Int /\ s \in 0 .. m - 1 /\ x = m * p + s
    BY Mod
  <1>2. m * (p - q) = r - s
    BY <1>1
  <1> HIDE DEF x, p, s
  <1>3. p - q >= 1 => m * (p - q) >= m
    BY <1>1
  <1>4. p - q =< -1 => m * (p - q) =< -m
    BY <1>1
  <1>5. p = q
    BY <1>1, <1>2, <1>3, <1>4
  <1> QED BY <1>1, <1>2, <1>5 DEF x, s

\* Multiples do not count.
LEMMA ModShift ==
  ASSUME NEW x \in Int, NEW m \in Nat \ {0}, NEW q \in Int
  PROVE  (x + m * q) % m = x % m
  <1> DEFINE p == x \div m
             s == x % m
  <1>1. p \in Int /\ s \in 0 .. m - 1 /\ x = m * p + s
    BY Mod
  <1>2. x + m * q = m * (p + q) + s
    BY <1>1
  <1> HIDE DEF p, s
  <1>3. (m * (p + q) + s) % m = s
    BY <1>1, ModUnique
  <1> QED BY <1>2, <1>3 DEF s

\* Nor does the modulus itself.
LEMMA ModNext ==
  ASSUME NEW x \in Int, NEW m \in Nat \ {0}
  PROVE  (x + m) % m = x % m
  <1> DEFINE p == x \div m
             s == x % m
  <1>1. p \in Int /\ s \in 0 .. m - 1 /\ x = m * p + s
    BY Mod
  <1>2. x + m = m * (p + 1) + s
    BY <1>1
  <1> HIDE DEF p, s
  <1>3. (m * (p + 1) + s) % m = s
    BY <1>1, ModUnique
  <1> QED BY <1>2, <1>3 DEF s

\* Numbers around the interval of remainders.
LEMMA ModNear ==
  ASSUME NEW x \in Int, NEW m \in Nat \ {0}
  PROVE  /\ x \in 0 .. m - 1 => x % m = x
         /\ x \in m .. 2 * m - 1 => x % m = x - m
         /\ x \in -m .. -1 => x % m = x + m
  <1>1. CASE x \in 0 .. m - 1
    <2>1. (m * 0 + x) % m = x  BY <1>1, ModUnique
    <2> QED BY <1>1, <2>1
  <1>2. CASE x \in m .. 2 * m - 1
    <2>1. x - m \in 0 .. m - 1  BY <1>2
    <2>2. (m * 1 + (x - m)) % m = x - m  BY <2>1, ModUnique
    <2>3. m * 1 + (x - m) = x  OBVIOUS
    <2> QED BY <1>2, <2>2, <2>3
  <1>3. CASE x \in -m .. -1
    <2>1. x + m \in 0 .. m - 1  BY <1>3
    <2>2. (m * (-1) + (x + m)) % m = x + m  BY <2>1, ModUnique
    <2>3. m * (-1) + (x + m) = x  OBVIOUS
    <2> QED BY <1>3, <2>2, <2>3
  <1> QED BY <1>1, <1>2, <1>3

\* An index can be taken before or after an offset wraps.
LEMMA IndexWraps ==
  ASSUME NEW x \in Int
  PROVE  Index(x % Modulus) = Index(x)
  <1> USE IoBufAssumption
  <1> DEFINE k == Modulus \div Size
             q == x \div Modulus
  <1>1. Modulus \in Nat \ {0} /\ Size \in Nat \ {0}  OBVIOUS
  <1>2. k \in Int /\ Modulus = Size * k
    BY <1>1, Mod
  <1>3. q \in Int /\ x = Modulus * q + (x % Modulus) /\ x % Modulus \in Int
    BY <1>1, Mod
  <1> HIDE DEF k, q
  <1>4. x = (x % Modulus) + Size * (k * q)
    BY <1>1, <1>2, <1>3
  <1>5. k * q \in Int  BY <1>2, <1>3
  <1>6. ((x % Modulus) + Size * (k * q)) % Size = (x % Modulus) % Size
    BY <1>1, <1>3, <1>5, ModShift
  <1> QED BY <1>4, <1>6 DEF Index

---------------------------------------------------------------------------
(* Offsets and positions                                                   *)

\* What the assumption says of the two sizes.
LEMMA Sizes == Size \in Nat \ {0} /\ Modulus \in Nat \ {0} /\ Size < Modulus
  BY IoBufAssumption

Offset == 0 .. Modulus - 1

\* The slot of the ring i places after slot b.
Slot(b, i) == IF b + i < Size THEN b + i ELSE b + i - Size

\* The difference of two offsets.
LEMMA Difference ==
  ASSUME NEW r \in Offset, NEW w \in Offset
  PROVE  /\ (w - r) % Modulus = IF r =< w THEN w - r ELSE w - r + Modulus
         /\ (w - r) % Modulus \in Offset
  <1> DEFINE d == w - r
  <1>1. d \in -Modulus .. Modulus - 1 /\ d \in Int /\ (r =< w <=> d >= 0)
    BY Sizes DEF Offset
  <1> HIDE DEF d
  <1>2. d % Modulus = IF d >= 0 THEN d ELSE d + Modulus
    <2>1. CASE d >= 0
      <3>1. d \in 0 .. Modulus - 1  BY <1>1, <2>1, Sizes
      <3> QED BY <2>1, <3>1, <1>1, Sizes, ModNear
    <2>2. CASE ~ (d >= 0)
      <3>1. d \in -Modulus .. -1  BY <1>1, <2>2, Sizes
      <3> QED BY <2>2, <3>1, <1>1, Sizes, ModNear
    <2> QED BY <1>1, <2>1, <2>2
  <1>3. d % Modulus \in Offset
    BY <1>1, Sizes, Mod DEF Offset
  <1> QED BY <1>1, <1>2, <1>3 DEF d

\* The sum of an offset and a number of bytes.
LEMMA Sum ==
  ASSUME NEW o \in Offset, NEW n \in 0 .. Modulus
  PROVE  /\ Plus(o, n) = IF o + n < Modulus THEN o + n ELSE o + n - Modulus
         /\ Plus(o, n) \in Offset
  <1> DEFINE d == o + n
  <1>1. d \in 0 .. 2 * Modulus - 1 /\ d \in Int
    BY Sizes DEF Offset
  <1> HIDE DEF d
  <1>2. d % Modulus = IF d < Modulus THEN d ELSE d - Modulus
    <2>1. CASE d < Modulus
      <3>1. d \in 0 .. Modulus - 1  BY <1>1, <2>1, Sizes
      <3> QED BY <2>1, <3>1, <1>1, Sizes, ModNear
    <2>2. CASE d >= Modulus
      <3>1. d \in Modulus .. 2 * Modulus - 1  BY <1>1, <2>2, Sizes
      <3>2. ~ (d < Modulus)  BY <1>1, <2>2, Sizes
      <3> QED BY <3>2, <3>1, <1>1, Sizes, ModNear
    <2> QED BY <1>1, <2>1, <2>2, Sizes
  <1>3. d % Modulus \in Offset
    BY <1>1, Sizes, Mod DEF Offset
  <1> QED BY <1>2, <1>3, Sizes DEF d, Plus, Offset

\* Bytes that are added count once, as long as they are fewer than the offsets tell apart.
LEMMA UsedGrows ==
  ASSUME NEW r \in Offset, NEW w \in Offset, NEW n \in Nat,
         ((w - r) % Modulus) + n < Modulus
  PROVE  /\ Plus(w, n) \in Offset
         /\ (Plus(w, n) - r) % Modulus = ((w - r) % Modulus) + n
  <1> DEFINE u == (w - r) % Modulus
             v == Plus(w, n)
  <1>1. u = IF r =< w THEN w - r ELSE w - r + Modulus
    BY Difference
  <1>2. u \in Offset
    BY Difference
  <1> HIDE DEF u
  <1>3. u + n < Modulus
    BY DEF u
  <1>4. n \in 0 .. Modulus
    BY <1>2, <1>3, Sizes DEF Offset
  <1>5. v = (IF w + n < Modulus THEN w + n ELSE w + n - Modulus) /\ v \in Offset
    BY <1>4, Sum
  <1> HIDE DEF v
  <1>6. (v - r) % Modulus = IF r =< v THEN v - r ELSE v - r + Modulus
    BY <1>5, Difference
  <1>7. (v - r) % Modulus = u + n
    BY <1>1, <1>2, <1>3, <1>5, <1>6, Sizes DEF Offset
  <1> QED BY <1>5, <1>7 DEF u, v

\* Bytes that are taken out count once.
LEMMA UsedShrinks ==
  ASSUME NEW r \in Offset, NEW w \in Offset, NEW n \in 0 .. ((w - r) % Modulus)
  PROVE  /\ Plus(r, n) \in Offset
         /\ (w - Plus(r, n)) % Modulus = ((w - r) % Modulus) - n
  <1> DEFINE u == (w - r) % Modulus
             v == Plus(r, n)
  <1>1. u = IF r =< w THEN w - r ELSE w - r + Modulus
    BY Difference
  <1>2. u \in Offset
    BY Difference
  <1> HIDE DEF u
  <1>3. n \in 0 .. u
    BY DEF u
  <1>4. n \in 0 .. Modulus
    BY <1>2, <1>3, Sizes DEF Offset
  <1>5. v = (IF r + n < Modulus THEN r + n ELSE r + n - Modulus) /\ v \in Offset
    BY <1>4, Sum
  <1> HIDE DEF v
  <1>6. (w - v) % Modulus = IF v =< w THEN w - v ELSE w - v + Modulus
    BY <1>5, Difference
  <1>7. (w - v) % Modulus = u - n
    BY <1>1, <1>2, <1>3, <1>5, <1>6, Sizes DEF Offset
  <1> QED BY <1>5, <1>7 DEF u, v

\* An offset and the slot it stands for.
LEMMA IndexSlot ==
  ASSUME NEW o \in Offset, NEW i \in 0 .. Size
  PROVE  /\ Index(o) \in 0 .. Size - 1
         /\ Index(o + i) = Slot(Index(o), i)
         /\ Index(Plus(o, i)) = Slot(Index(o), i)
  <1> DEFINE b == Index(o)
             q == o \div Size
             d == b + i
  <1>1. o \in Int
    BY DEF Offset
  <1>2. b \in 0 .. Size - 1 /\ q \in Int /\ o = Size * q + b
    BY <1>1, Sizes, Mod DEF Index
  <1>3. d \in 0 .. 2 * Size - 1 /\ d \in Int
    BY <1>2, Sizes
  <1> HIDE DEF b, q
  <1>4. o + i = d + Size * q
    BY <1>1, <1>2, Sizes
  <1> HIDE DEF d
  <1>5. (d + Size * q) % Size = d % Size
    BY <1>2, <1>3, Sizes, ModShift
  <1>6. d % Size = IF d < Size THEN d ELSE d - Size
    <2>1. CASE d < Size
      <3>1. d \in 0 .. Size - 1  BY <1>3, <2>1, Sizes
      <3> QED BY <2>1, <3>1, <1>3, Sizes, ModNear
    <2>2. CASE ~ (d < Size)
      <3>1. d \in Size .. 2 * Size - 1  BY <1>3, <2>2, Sizes
      <3> QED BY <2>2, <3>1, <1>3, Sizes, ModNear
    <2> QED BY <2>1, <2>2
  <1>7. Index(o + i) = Slot(b, i)
    BY <1>1, <1>2, <1>4, <1>5, <1>6, Sizes DEF Index, Slot, d
  <1>8. o + i \in Int
    BY <1>1
  <1>9. Index((o + i) % Modulus) = Index(o + i)
    BY <1>8, IndexWraps
  <1> QED BY <1>2, <1>7, <1>9 DEF b, Plus

\* Where the contents lie: from slot bi, Used bytes, up to slot ei.
LEMMA Position ==
  ASSUME TypeOK, Used =< Size
  PROVE  /\ Used \in 0 .. Size /\ bi \in 0 .. Size - 1 /\ ei \in 0 .. Size - 1
         /\ ei = Slot(bi, Used)
         /\ Used = 0 <=> read = write
         /\ \A i \in 0 .. Size : Index(read + i) = Slot(bi, i)
         /\ \A i \in 0 .. Size : Index(write + i) = Slot(ei, i)
  <1>1. read \in Offset /\ write \in Offset
    BY DEF TypeOK, Offset
  <1>2. Used = (IF read =< write THEN write - read ELSE write - read + Modulus) /\ Used \in Offset
    BY <1>1, Difference DEF Used
  <1>3. Used \in 0 .. Size /\ (Used = 0 <=> read = write)
    BY <1>1, <1>2, Sizes DEF Offset
  <1>4. Used \in 0 .. Modulus
    BY <1>3, Sizes
  <1>5. Plus(read, Used) = IF read + Used < Modulus THEN read + Used ELSE read + Used - Modulus
    BY <1>1, <1>4, Sum
  <1>6. write = Plus(read, Used)
    BY <1>1, <1>2, <1>5, Sizes DEF Offset
  <1>7. ei = Slot(bi, Used)
    BY <1>1, <1>3, <1>6, IndexSlot DEF bi, ei
  <1>8. bi \in 0 .. Size - 1 /\ ei \in 0 .. Size - 1
    BY <1>1, <1>3, IndexSlot, Sizes DEF bi, ei
  <1> QED BY <1>1, <1>3, <1>7, <1>8, IndexSlot DEF bi, ei

---------------------------------------------------------------------------
(* The contents of a ring: u bytes from slot b on                           *)

Ring == [0 .. Size - 1 -> Byte]

Held(d, b, u) == [i \in 1 .. u |-> d[Slot(b, i - 1)]]

\* Slots are slots, and a way round the ring meets each of them once.
LEMMA Slots ==
  ASSUME NEW b \in 0 .. Size - 1
  PROVE  /\ \A i \in 0 .. Size : Slot(b, i) \in 0 .. Size - 1
         /\ \A i, j \in 0 .. Size - 1 : Slot(b, i) = Slot(b, j) => i = j
         /\ \A x \in 0 .. Size - 1 : \E i \in 0 .. Size - 1 : x = Slot(b, i)
         /\ \A i, j \in 0 .. Size : i + j =< Size => Slot(Slot(b, i), j) = Slot(b, i + j)
  <1>1. \A x \in 0 .. Size - 1 : \E i \in 0 .. Size - 1 : x = Slot(b, i)
    <2> TAKE x \in 0 .. Size - 1
    <2>1. CASE x >= b
      <3>1. x - b \in 0 .. Size - 1 /\ x = Slot(b, x - b)
        BY <2>1, Sizes DEF Slot
      <3> QED BY <3>1
    <2>2. CASE ~ (x >= b)
      <3>1. x - b + Size \in 0 .. Size - 1 /\ x = Slot(b, x - b + Size)
        BY <2>2, Sizes DEF Slot
      <3> QED BY <3>1
    <2> QED BY <2>1, <2>2
  <1> QED BY <1>1, Sizes DEF Slot

\* What is held is a sequence of bytes.
LEMMA HeldIsSeq ==
  ASSUME NEW d \in Ring, NEW b \in 0 .. Size - 1, NEW u \in 0 .. Size
  PROVE  /\ Held(d, b, u) \in Seq(Byte)
         /\ Len(Held(d, b, u)) = u
         /\ \A i \in 1 .. u : Held(d, b, u)[i] = d[Slot(b, i - 1)]
  <1>1. u \in Nat  BY Sizes
  <1>2. \A i \in 1 .. u : Slot(b, i - 1) \in 0 .. Size - 1
    BY Slots, Sizes
  <1>3. \A i \in 1 .. u : d[Slot(b, i - 1)] \in Byte
    BY <1>2 DEF Ring
  <1>4. Held(d, b, u) \in [1 .. u -> Byte]
    BY <1>3 DEF Held
  <1>5. Held(d, b, u) \in Seq(Byte)
    BY <1>1, <1>4, SeqDef
  <1> QED BY <1>1, <1>4, <1>5, LenProperties DEF Held

\* Contents, by offsets, are what is held, by slots.
LEMMA ContentsHeld ==
  ASSUME NEW d, NEW o \in Offset, NEW u \in 0 .. Size
  PROVE  [i \in 1 .. u |-> d[Index(o + i - 1)]] = Held(d, Index(o), u)
  <1>1. \A i \in 1 .. u : Index(o + i - 1) = Slot(Index(o), i - 1)
    <2> TAKE i \in 1 .. u
    <2>1. i - 1 \in 0 .. Size  BY Sizes
    <2>2. o + i - 1 = o + (i - 1)  BY Sizes DEF Offset
    <2> QED BY <2>1, <2>2, IndexSlot
  <1> QED BY <1>1 DEF Held

\* e is d with s written into the slots from x on.
Written(e, d, x, s) ==
    \A j \in 0 .. Size - 1 :
        e[Slot(x, j)] = IF j < Len(s) THEN s[j + 1] ELSE d[Slot(x, j)]

\* Bytes written behind what is held are held behind it.
LEMMA HeldGrows ==
  ASSUME NEW d \in Ring, NEW e \in Ring, NEW b \in 0 .. Size - 1, NEW u \in 0 .. Size,
         NEW s \in Seq(Byte), u + Len(s) =< Size, Written(e, d, Slot(b, u), s)
  PROVE  Held(e, b, u + Len(s)) = Held(d, b, u) \o s
  <1> DEFINE n == u + Len(s)
             g == Held(e, b, n)
             h == Held(d, b, u)
  <1>1. n \in 0 .. Size /\ Len(s) \in Nat
    BY LenProperties, Sizes
  <1>2. g \in Seq(Byte) /\ Len(g) = n /\ \A i \in 1 .. n : g[i] = e[Slot(b, i - 1)]
    BY <1>1, HeldIsSeq
  <1>3. h \in Seq(Byte) /\ Len(h) = u /\ \A i \in 1 .. u : h[i] = d[Slot(b, i - 1)]
    BY HeldIsSeq
  <1> HIDE DEF g, h
  <1>4. /\ h \o s \in Seq(Byte) /\ Len(h \o s) = n
        /\ \A i \in 1 .. n : (h \o s)[i] = IF i =< u THEN h[i] ELSE s[i - u]
    BY <1>3, ConcatProperties
  <1>5. ASSUME NEW i \in 1 .. n
        PROVE  e[Slot(b, i - 1)] = IF i =< u THEN d[Slot(b, i - 1)] ELSE s[i - u]
    <2>1. CASE i =< u
      <3> DEFINE j == Size - u + i - 1
      <3>1. j \in 0 .. Size - 1 /\ ~ (j < Len(s))
        BY <1>1, <2>1, Sizes
      <3>2. Slot(Slot(b, u), j) = Slot(b, i - 1)
        BY <2>1, Sizes DEF Slot
      <3>3. e[Slot(Slot(b, u), j)] = d[Slot(Slot(b, u), j)]
        BY <3>1 DEF Written
      <3> QED BY <2>1, <3>2, <3>3
    <2>2. CASE ~ (i =< u)
      <3> DEFINE j == i - 1 - u
      <3>1. j \in 0 .. Size - 1 /\ j < Len(s) /\ j + 1 = i - u
        BY <1>1, <2>2, Sizes
      <3>2. Slot(Slot(b, u), j) = Slot(b, i - 1)
        BY <1>1, <2>2, Sizes DEF Slot
      <3>3. e[Slot(Slot(b, u), j)] = s[j + 1]
        BY <3>1 DEF Written
      <3> QED BY <2>2, <3>1, <3>2, <3>3
    <2> QED BY <2>1, <2>2
  <1> HIDE DEF n
  <1>6. ASSUME NEW i \in 1 .. n
        PROVE  g[i] = (h \o s)[i]
    <2>1. i =< u => h[i] = d[Slot(b, i - 1)]
      BY <1>1, <1>3
    <2> QED BY <1>2, <1>4, <1>5, <2>1
  <1>7. g = h \o s
    BY <1>2, <1>4, <1>6, SeqEqual
  <1> QED BY <1>7 DEF n, g, h

\* Without the first n bytes, the rest is held from n slots further on.
LEMMA HeldShrinks ==
  ASSUME NEW d \in Ring, NEW b \in 0 .. Size - 1, NEW u \in 0 .. Size, NEW n \in 0 .. u
  PROVE  Held(d, Slot(b, n), u - n) = SubSeq(Held(d, b, u), n + 1, u)
  <1> DEFINE h == Held(d, b, u)
             t == SubSeq(h, n + 1, u)
             g == Held(d, Slot(b, n), u - n)
  <1>1. h \in Seq(Byte) /\ Len(h) = u /\ \A i \in 1 .. u : h[i] = d[Slot(b, i - 1)]
    BY HeldIsSeq
  <1>2. u - n \in 0 .. Size /\ n + 1 \in Int /\ u \in Int /\ n \in 0 .. Size
    BY Sizes
  <1>3. Slot(b, n) \in 0 .. Size - 1
    BY <1>2, Slots
  <1>4. /\ g \in Seq(Byte) /\ Len(g) = u - n
        /\ \A i \in 1 .. u - n : g[i] = d[Slot(Slot(b, n), i - 1)]
    BY <1>2, <1>3, HeldIsSeq
  <1> HIDE DEF h, g
  <1>5. \A i \in n + 1 .. u : h[i] \in Byte
    BY <1>1, <1>2, ElementOfSeq
  <1>6. /\ t \in Seq(Byte) /\ Len(t) = IF n + 1 =< u THEN u - (n + 1) + 1 ELSE 0
        /\ \A i \in 1 .. u - (n + 1) + 1 : t[i] = h[n + 1 + i - 1]
    BY <1>2, <1>5, SubSeqProperties
  <1> HIDE DEF t
  <1>7. Len(t) = u - n
    BY <1>2, <1>6
  <1>8. ASSUME NEW i \in 1 .. u - n
        PROVE  g[i] = t[i]
    <2>1. t[i] = h[n + i]
      <3>1. i \in 1 .. u - (n + 1) + 1 /\ n + 1 + i - 1 = n + i  BY <1>2
      <3> QED BY <1>6, <3>1
    <2>2. n + i \in 1 .. u  BY <1>2
    <2>3. h[n + i] = d[Slot(b, n + i - 1)]
      BY <1>1, <2>2
    <2>4. Slot(Slot(b, n), i - 1) = Slot(b, n + i - 1)
      BY <1>2, Sizes DEF Slot
    <2> QED BY <1>4, <2>1, <2>3, <2>4
  <1>9. g = t
    BY <1>4, <1>6, <1>7, <1>8, SeqEqual
  <1> QED BY <1>9 DEF g, t, h

---------------------------------------------------------------------------
(* Copies                                                                  *)

\* memcpy into the ring.
LEMMA CopyInIs ==
  ASSUME NEW d \in Ring, NEW at \in 0 .. Size - 1, NEW s \in Seq(Byte)
  PROVE  /\ CopyIn(d, at, s) \in Ring
         /\ \A x \in 0 .. Size - 1 : CopyIn(d, at, s)[x] =
                IF x \in at .. at + Len(s) - 1 THEN s[x - at + 1] ELSE d[x]
  <1>1. DOMAIN d = 0 .. Size - 1 /\ \A x \in 0 .. Size - 1 : d[x] \in Byte
    BY DEF Ring
  <1>2. Len(s) \in Nat
    BY LenProperties
  <1>3. ASSUME NEW x \in 0 .. Size - 1, x \in at .. at + Len(s) - 1
        PROVE  s[x - at + 1] \in Byte
    <2>1. x - at + 1 \in 1 .. Len(s)  BY <1>2, <1>3, Sizes
    <2> QED BY <2>1, ElementOfSeq
  <1> QED BY <1>1, <1>3 DEF CopyIn, Ring

\* In one piece, where the ring does not end before the bytes do.
LEMMA CopiedOnce ==
  ASSUME NEW d \in Ring, NEW x \in 0 .. Size - 1, NEW s \in Seq(Byte), x + Len(s) =< Size
  PROVE  CopyIn(d, x, s) \in Ring /\ Written(CopyIn(d, x, s), d, x, s)
  <1> DEFINE e == CopyIn(d, x, s)
  <1>1. /\ e \in Ring
        /\ \A y \in 0 .. Size - 1 :
              e[y] = IF y \in x .. x + Len(s) - 1 THEN s[y - x + 1] ELSE d[y]
    BY CopyInIs
  <1>2. Len(s) \in Nat
    BY LenProperties
  <1> HIDE DEF e
  <1>3. ASSUME NEW j \in 0 .. Size - 1
        PROVE  e[Slot(x, j)] = IF j < Len(s) THEN s[j + 1] ELSE d[Slot(x, j)]
    <2>1. Slot(x, j) \in 0 .. Size - 1
      BY Slots, Sizes
    <2>2. CASE j < Len(s)
      <3>1. Slot(x, j) = x + j /\ x + j \in x .. x + Len(s) - 1 /\ x + j - x + 1 = j + 1
        BY <1>2, <2>2, Sizes DEF Slot
      <3> QED BY <1>1, <2>1, <2>2, <3>1
    <2>3. CASE ~ (j < Len(s))
      <3>1. Slot(x, j) \notin x .. x + Len(s) - 1
        BY <1>2, <2>3, Sizes DEF Slot
      <3> QED BY <1>1, <2>1, <2>3, <3>1
    <2> QED BY <2>2, <2>3
  <1> QED BY <1>1, <1>3 DEF Written, e

\* In two pieces, where it does.
LEMMA CopiedSplit ==
  ASSUME data \in Ring, ei \in 0 .. Size - 1, NEW s \in Seq(Byte), Len(s) =< Size
  PROVE  CopySplit(Size - ei, s) \in Ring /\ Written(CopySplit(Size - ei, s), data, ei, s)
  <1>1. Len(s) \in Nat
    BY LenProperties
  <1>2. CASE Len(s) =< Size - ei
    <2>1. ei + Len(s) =< Size  BY <1>1, <1>2, Sizes
    <2> QED BY <1>2, <2>1, CopiedOnce DEF CopySplit
  <1>3. CASE ~ (Len(s) =< Size - ei)
    <2> DEFINE k == Size - ei
               s1 == SubSeq(s, 1, k)
               s2 == SubSeq(s, k + 1, Len(s))
               d == CopyIn(data, ei, s1)
               e == CopyIn(d, 0, s2)
    <2>1. k \in 1 .. Size /\ k < Len(s)
      BY <1>1, <1>3, Sizes
    <2>2. \A i \in 1 .. Len(s) : s[i] \in Byte
      BY ElementOfSeq
    <2>3. s1 \in Seq(Byte) /\ Len(s1) = k /\ \A i \in 1 .. k : s1[i] = s[i]
      <3>1. \A i \in 1 .. k : s[i] \in Byte  BY <1>1, <2>1, <2>2, Sizes
      <3>2. k \in Int /\ 1 =< k /\ k - 1 + 1 = k  BY <2>1, Sizes
      <3>3. /\ s1 \in Seq(Byte) /\ Len(s1) = k
            /\ \A i \in 1 .. k : s1[i] = s[1 + i - 1]
        BY <3>1, <3>2, SubSeqProperties
      <3>4. \A i \in 1 .. k : 1 + i - 1 = i  BY <3>2
      <3> QED BY <3>3, <3>4
    <2>4. /\ s2 \in Seq(Byte) /\ Len(s2) = Len(s) - k
          /\ \A i \in 1 .. Len(s) - k : s2[i] = s[k + i]
      <3>1. \A i \in k + 1 .. Len(s) : s[i] \in Byte  BY <1>1, <2>1, <2>2, Sizes
      <3>2. /\ k + 1 \in Int /\ Len(s) \in Int /\ k + 1 =< Len(s)
            /\ Len(s) - (k + 1) + 1 = Len(s) - k
        BY <1>1, <2>1, Sizes
      <3>3. /\ s2 \in Seq(Byte) /\ Len(s2) = Len(s) - k
            /\ \A i \in 1 .. Len(s) - k : s2[i] = s[k + 1 + i - 1]
        BY <3>1, <3>2, SubSeqProperties
      <3>4. \A i \in 1 .. Len(s) - k : k + 1 + i - 1 = k + i  BY <1>1, <2>1, Sizes
      <3> QED BY <3>3, <3>4
    <2> HIDE DEF s1, s2
    <2>5. /\ d \in Ring
          /\ \A y \in 0 .. Size - 1 :
                d[y] = IF y \in ei .. ei + Len(s1) - 1 THEN s1[y - ei + 1] ELSE data[y]
      BY <2>3, CopyInIs
    <2> HIDE DEF d
    <2>6. 0 \in 0 .. Size - 1
      BY Sizes
    <2>7. /\ e \in Ring
          /\ \A y \in 0 .. Size - 1 :
                e[y] = IF y \in 0 .. 0 + Len(s2) - 1 THEN s2[y - 0 + 1] ELSE d[y]
      <3>1. s2 \in Seq(Byte)
        BY <2>4
      <3>2. d \in Ring
        BY <2>5
      <3> QED BY <2>6, <3>1, <3>2, CopyInIs
    <2> HIDE DEF e
    <2>8. ASSUME NEW j \in 0 .. Size - 1
          PROVE  e[Slot(ei, j)] = IF j < Len(s) THEN s[j + 1] ELSE data[Slot(ei, j)]
      <3>1. Slot(ei, j) \in 0 .. Size - 1
        BY Slots, Sizes
      <3>2. CASE j < k
        <4>1. /\ Slot(ei, j) = ei + j /\ ei + j \in ei .. ei + Len(s1) - 1
              /\ ei + j - ei + 1 = j + 1 /\ j + 1 \in 1 .. k /\ j < Len(s)
          BY <1>1, <2>1, <2>3, <3>2, Sizes DEF Slot
        <4>2. ei + j \notin 0 .. 0 + Len(s2) - 1
          BY <1>1, <2>1, <2>4, <3>2, Sizes
        <4>3. e[ei + j] = d[ei + j]
          BY <2>7, <3>1, <4>1, <4>2
        <4>4. d[ei + j] = s1[j + 1]
          BY <2>5, <3>1, <4>1
        <4> QED BY <2>3, <4>1, <4>3, <4>4
      <3>3. CASE ~ (j < k) /\ j < Len(s)
        <4>1. /\ Slot(ei, j) = j - k /\ j - k \in 0 .. 0 + Len(s2) - 1
              /\ j - k - 0 + 1 = j - k + 1 /\ j - k + 1 \in 1 .. Len(s) - k
              /\ k + (j - k + 1) = j + 1
          BY <1>1, <2>1, <2>4, <3>3, Sizes DEF Slot
        <4>2. e[j - k] = s2[j - k + 1]
          BY <2>7, <3>1, <4>1
        <4> QED BY <2>4, <3>3, <4>1, <4>2
      <3>4. CASE ~ (j < Len(s))
        <4>1. /\ Slot(ei, j) \notin 0 .. 0 + Len(s2) - 1
              /\ Slot(ei, j) \notin ei .. ei + Len(s1) - 1
          BY <1>1, <2>1, <2>3, <2>4, <3>4, Sizes DEF Slot
        <4> QED BY <2>5, <2>7, <3>1, <3>4, <4>1
      <3> QED BY <3>2, <3>3, <3>4
    <2>9. CopySplit(Size - ei, s) = e
      BY <1>3 DEF CopySplit, e, d, s1, s2
    <2> QED BY <2>7, <2>8, <2>9 DEF Written
  <1> QED BY <1>2, <1>3

\* memcpy out of the ring.
LEMMA CopyOutIs ==
  ASSUME data \in Ring, NEW at \in 0 .. Size - 1, NEW n \in Nat, at + n =< Size
  PROVE  /\ CopyOut(at, n) \in Seq(Byte) /\ Len(CopyOut(at, n)) = n
         /\ \A i \in 1 .. n : CopyOut(at, n)[i] = data[at + i - 1]
  <1>1. \A i \in 1 .. n : data[at + i - 1] \in Byte
    BY Sizes DEF Ring
  <1>2. CopyOut(at, n) \in [1 .. n -> Byte]
    BY <1>1 DEF CopyOut
  <1>3. CopyOut(at, n) \in Seq(Byte)
    BY <1>2, SeqDef
  <1> QED BY <1>2, <1>3, LenProperties DEF CopyOut

\* In one piece, what is copied out is what was held first.
LEMMA TakenOnce ==
  ASSUME data \in Ring, NEW b \in 0 .. Size - 1, NEW u \in 0 .. Size, NEW n \in 0 .. u,
         b + n =< Size
  PROVE  CopyOut(b, n) = SubSeq(Held(data, b, u), 1, n)
  <1> DEFINE h == Held(data, b, u)
             c == CopyOut(b, n)
             t == SubSeq(h, 1, n)
  <1>1. h \in Seq(Byte) /\ Len(h) = u /\ \A i \in 1 .. u : h[i] = data[Slot(b, i - 1)]
    BY HeldIsSeq
  <1>2. n \in Nat /\ n \in Int
    BY Sizes
  <1>3. c \in Seq(Byte) /\ Len(c) = n /\ \A i \in 1 .. n : c[i] = data[b + i - 1]
    BY <1>2, CopyOutIs
  <1> HIDE DEF h, c
  <1>4. \A i \in 1 .. n : h[i] \in Byte
    BY <1>1, <1>2, ElementOfSeq, Sizes
  <1>5. /\ t \in Seq(Byte) /\ Len(t) = (IF 1 =< n THEN n - 1 + 1 ELSE 0)
        /\ \A i \in 1 .. n - 1 + 1 : t[i] = h[1 + i - 1]
    BY <1>2, <1>4, SubSeqProperties
  <1> HIDE DEF t
  <1>6. Len(t) = n
    BY <1>2, <1>5
  <1>7. ASSUME NEW i \in 1 .. n
        PROVE  c[i] = t[i]
    <2>1. i \in 1 .. n - 1 + 1 /\ 1 + i - 1 = i /\ i \in 1 .. u
      BY <1>2, Sizes
    <2>2. Slot(b, i - 1) = b + i - 1
      BY <1>2, Sizes DEF Slot
    <2> QED BY <1>1, <1>3, <1>5, <2>1, <2>2
  <1>8. c = t
    BY <1>3, <1>5, <1>6, <1>7, SeqEqual
  <1> QED BY <1>8 DEF c, t, h

\* And in two pieces, when that goes past the end of the ring.
LEMMA TakenSplit ==
  ASSUME data \in Ring, NEW b \in 0 .. Size - 1, NEW u \in 0 .. Size,
         NEW n \in Size - b .. u
  PROVE  CopyOut(b, Size - b) \o CopyOut(0, n - (Size - b)) = SubSeq(Held(data, b, u), 1, n)
  <1> DEFINE h == Held(data, b, u)
             k == Size - b
             c1 == CopyOut(b, k)
             c2 == CopyOut(0, n - k)
             t == SubSeq(h, 1, n)
  <1>1. h \in Seq(Byte) /\ Len(h) = u /\ \A i \in 1 .. u : h[i] = data[Slot(b, i - 1)]
    BY HeldIsSeq
  <1>2. n \in 1 .. Size /\ n \in Int /\ k \in 1 .. Size /\ k =< n /\ k \in Nat /\ n - k \in Nat
    BY Sizes
  <1>3. b + k =< Size /\ 0 + (n - k) =< Size /\ 0 \in 0 .. Size - 1
    BY <1>2, Sizes
  <1> HIDE DEF h
  <1>4. c1 \in Seq(Byte) /\ Len(c1) = k /\ \A i \in 1 .. k : c1[i] = data[b + i - 1]
    BY <1>2, <1>3, CopyOutIs
  <1>5. c2 \in Seq(Byte) /\ Len(c2) = n - k /\ \A i \in 1 .. n - k : c2[i] = data[0 + i - 1]
    BY <1>2, <1>3, CopyOutIs
  <1> HIDE DEF c1, c2
  <1>6. /\ c1 \o c2 \in Seq(Byte) /\ Len(c1 \o c2) = Len(c1) + Len(c2)
        /\ \A i \in 1 .. Len(c1) + Len(c2) :
              (c1 \o c2)[i] = IF i =< Len(c1) THEN c1[i] ELSE c2[i - Len(c1)]
    BY <1>4, <1>5, ConcatProperties
  <1>7. Len(c1) + Len(c2) = n
    BY <1>2, <1>4, <1>5
  <1>8. \A i \in 1 .. n : h[i] \in Byte
    BY <1>1, <1>2, ElementOfSeq, Sizes
  <1>9. /\ t \in Seq(Byte) /\ Len(t) = n
        /\ \A i \in 1 .. n : t[i] = h[i]
    <2>1. /\ t \in Seq(Byte) /\ Len(t) = (IF 1 =< n THEN n - 1 + 1 ELSE 0)
          /\ \A i \in 1 .. n - 1 + 1 : t[i] = h[1 + i - 1]
      BY <1>2, <1>8, SubSeqProperties
    <2>2. n - 1 + 1 = n /\ 1 =< n /\ \A i \in 1 .. n : 1 + i - 1 = i
      BY <1>2
    <2> QED BY <2>1, <2>2
  <1> HIDE DEF t
  <1>10. ASSUME NEW i \in 1 .. n
         PROVE  (c1 \o c2)[i] = t[i]
    <2>1. t[i] = data[Slot(b, i - 1)]
      <3>1. i \in 1 .. u
        BY <1>2, Sizes
      <3>2. t[i] = h[i] /\ h[i] = data[Slot(b, i - 1)]
        BY <1>1, <1>9, <3>1
      <3> QED BY <3>2
    <2>2. CASE i =< k
      <3>1. i \in 1 .. k /\ Slot(b, i - 1) = b + i - 1
        BY <1>2, <2>2, Sizes DEF Slot
      <3> QED BY <1>4, <1>6, <1>7, <2>1, <2>2, <3>1
    <2>3. CASE ~ (i =< k)
      <3>1. i - k \in 1 .. n - k /\ Slot(b, i - 1) = 0 + (i - k) - 1
        BY <1>2, <2>3, Sizes DEF Slot
      <3> QED BY <1>4, <1>5, <1>6, <1>7, <2>1, <2>3, <3>1
    <2> QED BY <2>2, <2>3
  <1>11. c1 \o c2 = t
    BY <1>6, <1>7, <1>9, <1>10, SeqEqual
  <1> QED BY <1>11 DEF c1, c2, t, h

---------------------------------------------------------------------------
(* The invariant, and what the three kinds of call do to the queue          *)

Sound == TypeOK /\ WithinSize

\* What is known of a ring that is not broken.
LEMMA Standing ==
  ASSUME Sound, ~broken
  PROVE  /\ read \in Offset /\ write \in Offset /\ data \in Ring
         /\ Used \in 0 .. Size /\ bi \in 0 .. Size - 1 /\ ei \in 0 .. Size - 1
         /\ ei = Slot(bi, Used)
         /\ Used = 0 <=> read = write
         /\ Contents = Held(data, bi, Used)
         /\ Contents \in Seq(Byte) /\ Len(Contents) = Used
         /\ eof \in BOOLEAN
  <1>1. TypeOK /\ Used =< Size
    BY DEF Sound, WithinSize
  <1>2. read \in Offset /\ write \in Offset /\ data \in Ring /\ eof \in BOOLEAN
    BY <1>1 DEF TypeOK, Offset, Ring
  <1>3. /\ Used \in 0 .. Size /\ bi \in 0 .. Size - 1 /\ ei \in 0 .. Size - 1
        /\ ei = Slot(bi, Used)
        /\ Used = 0 <=> read = write
    BY <1>1, Position
  <1>4. Contents = Held(data, bi, Used)
    BY <1>2, <1>3, ContentsHeld DEF Contents, bi
  <1> QED BY <1>2, <1>3, <1>4, HeldIsSeq

\* The contents after a step, from the ring after it.
LEMMA ContentsNext ==
  ASSUME read' \in Offset, NEW u \in 0 .. Size, Used' = u
  PROVE  Contents' = Held(data', Index(read'), u)
  <1>1. Contents' = [i \in 1 .. u |-> data'[Index(read' + i - 1)]]
    BY DEF Contents, Index
  <1> QED BY <1>1, ContentsHeld

\* A call that changes nothing.
LEMMA RefuseStep ==
  ASSUME Sound, ~broken, NEW n \in Int, out' = Result(n, <<>>),
         UNCHANGED <<read, write, data, broken>>, eof' \in BOOLEAN
  PROVE  Sound' /\ Contents' = Contents
  <1>1. Used' = Used
    BY DEF Used
  <1>2. <<>> \in Seq(Byte)
    BY EmptySeq
  <1>3. TypeOK'
    BY <1>2 DEF Sound, TypeOK, Result
  <1>4. WithinSize'
    BY <1>1 DEF Sound, WithinSize
  <1>5. Contents' = Contents
    BY <1>1 DEF Contents, Index
  <1> QED BY <1>3, <1>4, <1>5 DEF Sound

\* A call that adds bytes.
LEMMA InStep ==
  ASSUME Sound, ~broken, NEW s \in Seq(Byte), Used + Len(s) =< Size,
         NEW n \in Int, out' = Result(n, <<>>),
         data' \in Ring, Written(data', data, ei, s), write' = Plus(write, Len(s)),
         UNCHANGED <<read, eof, broken>>
  PROVE  Sound' /\ Contents' = Contents \o s
  <1>1. /\ read \in Offset /\ write \in Offset /\ data \in Ring
        /\ Used \in 0 .. Size /\ bi \in 0 .. Size - 1 /\ ei = Slot(bi, Used)
        /\ Contents = Held(data, bi, Used)
    BY Standing
  <1>2. Len(s) \in Nat /\ Used + Len(s) < Modulus /\ Used + Len(s) \in 0 .. Size
    BY <1>1, Sizes, LenProperties
  <1>3. write' \in Offset /\ Used' = Used + Len(s)
    BY <1>1, <1>2, UsedGrows DEF Used
  <1>4. <<>> \in Seq(Byte)
    BY EmptySeq
  <1>5. TypeOK'
    BY <1>1, <1>3, <1>4 DEF Sound, TypeOK, Result, Offset, Ring
  <1>6. WithinSize'
    BY <1>2, <1>3 DEF WithinSize
  <1>7. Contents' = Held(data', bi, Used + Len(s))
    BY <1>1, <1>2, <1>3, ContentsNext DEF bi
  <1>8. Held(data', bi, Used + Len(s)) = Held(data, bi, Used) \o s
    BY <1>1, HeldGrows
  <1> QED BY <1>1, <1>5, <1>6, <1>7, <1>8 DEF Sound

\* A call that takes bytes out.
LEMMA OutStep ==
  ASSUME Sound, ~broken, NEW n \in 0 .. Used, out' = Result(n, SubSeq(Contents, 1, n)),
         read' = Plus(read, n), UNCHANGED <<write, data, eof, broken>>
  PROVE  Sound' /\ Contents' = SubSeq(Contents, n + 1, Len(Contents))
  <1>1. /\ read \in Offset /\ write \in Offset /\ data \in Ring
        /\ Used \in 0 .. Size /\ bi \in 0 .. Size - 1
        /\ Contents = Held(data, bi, Used)
        /\ Contents \in Seq(Byte) /\ Len(Contents) = Used
    BY Standing
  <1>2. n \in 0 .. Size /\ n \in Int /\ Used - n \in 0 .. Size
    BY <1>1, Sizes
  <1>3. read' \in Offset /\ Used' = Used - n
    BY <1>1, UsedShrinks DEF Used
  <1>4. Index(read') = Slot(bi, n)
    BY <1>1, <1>2, IndexSlot DEF bi
  <1>5. SubSeq(Contents, 1, n) \in Seq(Byte)
    <2>1. \A i \in 1 .. n : Contents[i] \in Byte
      BY <1>1, <1>2, ElementOfSeq, Sizes
    <2> QED BY <1>2, <2>1, SubSeqProperties
  <1>6. TypeOK'
    BY <1>1, <1>2, <1>3, <1>5 DEF Sound, TypeOK, Result, Offset
  <1>7. WithinSize'
    BY <1>2, <1>3, Sizes DEF WithinSize
  <1>8. Contents' = Held(data, Slot(bi, n), Used - n)
    BY <1>2, <1>3, <1>4, ContentsNext
  <1>9. Held(data, Slot(bi, n), Used - n) = SubSeq(Held(data, bi, Used), n + 1, Used)
    BY <1>1, HeldShrinks
  <1> QED BY <1>1, <1>6, <1>7, <1>8, <1>9 DEF Sound

\* A call that breaks the ring: only the types remain.
LEMMA BreakStep ==
  ASSUME TypeOK', Break, ~broken
  PROVE  Sound' /\ Fifo!Break
  BY DEF Sound, WithinSize, Break, Fifo!Break

---------------------------------------------------------------------------
(* The calls: each keeps the invariant, and is one of the queue or breaks   *)
(* the ring                                                                 *)

\* minute_iobuf_clear.
LEMMA ClearStep ==
  ASSUME Sound, ~broken, Clear
  PROVE  Sound' /\ Fifo!Clear
  <1>1. read' \in Offset /\ Used' = 0
    <2>1. 0 \in Offset  BY Sizes DEF Offset
    <2>2. (0 - 0) % Modulus = 0  BY <2>1, Difference, Sizes
    <2> QED BY <2>1, <2>2 DEF Clear, Used
  <1>2. TypeOK'
    <2>1. <<>> \in Seq(Byte)  BY EmptySeq
    <2> QED BY <2>1, Sizes DEF Sound, TypeOK, Clear, Result, Fine
  <1>3. WithinSize'
    BY <1>1, Sizes DEF WithinSize
  <1>4. Contents' = <<>>
    BY <1>1 DEF Contents
  <1> QED BY <1>2, <1>3, <1>4 DEF Sound, Clear, Fine, Fifo!Clear, Result, Fifo!Result

\* minute_iobuf_put.
LEMMA PutStep ==
  ASSUME Sound, ~broken, NEW c \in Byte, Put(c)
  PROVE  Sound' /\ (Fifo!Put(c) \/ Fifo!Break)
  <1>0. /\ read \in Offset /\ write \in Offset /\ data \in Ring
        /\ Used \in 0 .. Size /\ bi \in 0 .. Size - 1 /\ ei \in 0 .. Size - 1
        /\ ei = Slot(bi, Used) /\ (Used = 0 <=> read = write)
        /\ Contents \in Seq(Byte) /\ Len(Contents) = Used /\ eof \in BOOLEAN
    BY Standing
  <1>1. CASE read < write /\ bi = ei
    <2>1. Sound' /\ Contents' = Contents
      BY <1>0, <1>1, RefuseStep DEF Put, Fine
    <2>2. Used = Size
      BY <1>0, <1>1, Sizes DEF Slot, Offset
    <2>3. ~ Fifo!Fits(1)
      BY <1>0, <2>2, Sizes DEF Fifo!Fits
    <2> QED BY <1>1, <2>1, <2>3 DEF Put, Fine, Fifo!Put, Fifo!Refuse, Result, Fifo!Result
  <1>2. CASE ~ (read < write /\ bi = ei) /\ Used < Size
    <2> DEFINE s == <<c>>
    <2>1. s \in Seq(Byte) /\ Len(s) = 1 /\ s[1] = c
      OBVIOUS
    <2>2. data' = [data EXCEPT ![ei] = c] /\ write' = Plus(write, 1) /\ out' = Result(1, <<>>)
      BY <1>2 DEF Put
    <2>3. UNCHANGED <<read, eof, broken>>
      BY <1>0, <1>2 DEF Put, Fine
    <2>4. data' \in Ring
      BY <1>0, <2>2 DEF Ring
    <2>5. Written(data', data, ei, s)
      <3>1. ASSUME NEW j \in 0 .. Size - 1
            PROVE  data'[Slot(ei, j)] = IF j < Len(s) THEN s[j + 1] ELSE data[Slot(ei, j)]
        <4>1. Slot(ei, j) \in 0 .. Size - 1 /\ (Slot(ei, j) = ei <=> j = 0)
          BY <1>0, Sizes DEF Slot
        <4>2. CASE j = 0
          BY <1>0, <2>1, <2>2, <4>1, <4>2 DEF Ring
        <4>3. CASE j # 0
          BY <1>0, <2>1, <2>2, <4>1, <4>3 DEF Ring
        <4> QED BY <4>2, <4>3
      <3> QED BY <3>1 DEF Written
    <2> DEFINE n == 1
    <2>6. Used + Len(s) =< Size /\ write' = Plus(write, Len(s)) /\ n \in Int /\ out' = Result(n, <<>>)
      BY <1>0, <1>2, <2>1, <2>2, Sizes
    <2> HIDE DEF s, n
    <2>7. Sound' /\ Contents' = Contents \o s
      BY <2>1, <2>3, <2>4, <2>5, <2>6, InStep
    <2>8. Fifo!Fits(1)
      BY <1>0, <1>2, Sizes DEF Fifo!Fits
    <2> QED BY <2>2, <2>3, <2>7, <2>8 DEF Fifo!Put, Fifo!In, Result, Fifo!Result, s
  <1>3. CASE ~ (read < write /\ bi = ei) /\ Used = Size
    <2>1. Break
      BY <1>3 DEF Put
    <2>2. TypeOK'
      <3>1. data' \in Ring
        BY <1>0, <1>3 DEF Put, Ring
      <3>2. write' \in Offset
        BY <1>0, <1>3, Sum, Sizes DEF Put
      <3>3. out' \in [ret : Int, data : Seq(Byte)]
        <4>1. <<>> \in Seq(Byte)  BY EmptySeq
        <4>2. out' = Result(1, <<>>)  BY <1>3 DEF Put
        <4> QED BY <4>1, <4>2 DEF Result
      <3> QED BY <1>0, <1>3, <2>1, <3>1, <3>2, <3>3 DEF Put, TypeOK, Break, Offset, Ring
    <2> QED BY <2>1, <2>2, BreakStep
  <1> QED BY <1>0, <1>1, <1>2, <1>3, Sizes

\* minute_iobuf_replace.
LEMMA ReplaceStep ==
  ASSUME Sound, ~broken, NEW c \in Byte, NEW offset \in -Size .. Size, Replace(offset, c)
  PROVE  Sound' /\ Fifo!Replace(offset, c)
  <1>0. /\ read \in Offset /\ write \in Offset /\ data \in Ring
        /\ Used \in 0 .. Size /\ bi \in 0 .. Size - 1 /\ ei \in 0 .. Size - 1
        /\ ei = Slot(bi, Used)
        /\ Contents = Held(data, bi, Used)
        /\ Contents \in Seq(Byte) /\ Len(Contents) = Used /\ eof \in BOOLEAN
    BY Standing
  <1> DEFINE k == (IF offset < 0 THEN Used ELSE 0) + offset
             x == Index((IF offset < 0 THEN write ELSE read) + offset)
  <1>1. offset \in -Used .. Used - 1 /\ offset \in Int
    BY DEF Replace
  <1>2. k \in 0 .. Used - 1 /\ k \in 0 .. Size
    BY <1>0, <1>1, Sizes
  <1>3. x = Slot(bi, k)
    <2>1. CASE offset < 0
      <3>1. Plus(read, Used) = write
        <4>1. Used = IF read =< write THEN write - read ELSE write - read + Modulus
          BY <1>0, Difference DEF Used
        <4>2. Used \in 0 .. Modulus
          BY <1>0, Sizes
        <4>3. Plus(read, Used) = IF read + Used < Modulus THEN read + Used ELSE read + Used - Modulus
          BY <1>0, <4>2, Sum
        <4> QED BY <1>0, <4>1, <4>3, Sizes DEF Offset
      <3>2. Index(write + offset) = Index(read + k)
        <4>1. CASE write = read + Used
          <5>1. write + offset = read + k
            BY <1>0, <1>1, <2>1, <4>1 DEF Offset
          <5> QED BY <5>1
        <4>2. CASE write = read + Used - Modulus
          <5>1. read + k \in Int /\ write + offset \in Int /\ read + k = write + offset + Modulus
            BY <1>0, <1>1, <2>1, <4>2, Sizes DEF Offset
          <5> DEFINE y == write + offset
          <5>2. y + Modulus \in Int /\ y \in Int
            BY <5>1, Sizes
          <5> HIDE DEF y
          <5>3. (y + Modulus) % Modulus = y % Modulus
            BY <5>2, Sizes, ModNext
          <5>4. Index((y + Modulus) % Modulus) = Index(y + Modulus) /\ Index(y % Modulus) = Index(y)
            BY <5>2, IndexWraps
          <5>5. Index(y + Modulus) = Index(y)
            BY <5>3, <5>4
          <5> QED BY <5>1, <5>5 DEF y
        <4>3. Plus(read, Used) = IF read + Used < Modulus THEN read + Used ELSE read + Used - Modulus
          <5>1. Used \in 0 .. Modulus
            BY <1>0, Sizes
          <5> QED BY <1>0, <5>1, Sum
        <4> QED BY <3>1, <4>1, <4>2, <4>3
      <3>3. Index(read + k) = Slot(bi, k)
        BY <1>0, <1>2, IndexSlot DEF bi
      <3> QED BY <2>1, <3>2, <3>3
    <2>2. CASE ~ (offset < 0)
      <3>1. k = offset /\ x = Index(read + offset)
        BY <1>1, <2>2
      <3> QED BY <1>0, <1>2, <3>1, IndexSlot DEF bi
    <2> QED BY <2>1, <2>2
  <1>4. /\ data' = [data EXCEPT ![x] = c] /\ out' = Result(1, <<>>)
        /\ UNCHANGED <<read, write, eof, broken>>
    BY DEF Replace, Fine
  <1> HIDE DEF x, k
  <1>5. x \in 0 .. Size - 1
    BY <1>0, <1>2, <1>3, Slots
  <1>6. data' \in Ring
    BY <1>0, <1>4, <1>5 DEF Ring
  <1>7. Used' = Used
    BY <1>4 DEF Used
  <1>8. Sound'
    <2>1. out' \in [ret : Int, data : Seq(Byte)]
      BY <1>4, EmptySeq DEF Result
    <2>2. TypeOK'
      BY <1>4, <1>6, <2>1 DEF Sound, TypeOK, Ring
    <2> QED BY <1>4, <1>7, <2>2 DEF Sound, WithinSize
  <1>9. Contents' = Held(data', bi, Used)
    BY <1>0, <1>4, <1>7, ContentsNext DEF bi
  <1>10. Held(data', bi, Used) = [Contents EXCEPT ![1 + k] = c]
    <2>1. /\ Held(data', bi, Used) \in Seq(Byte) /\ Len(Held(data', bi, Used)) = Used
          /\ \A i \in 1 .. Used : Held(data', bi, Used)[i] = data'[Slot(bi, i - 1)]
      BY <1>0, <1>6, HeldIsSeq
    <2>2. \A i \in 1 .. Used : Contents[i] = data[Slot(bi, i - 1)]
      BY <1>0, HeldIsSeq
    <2>3. 1 + k \in 1 .. Len(Contents)
      BY <1>0, <1>2, Sizes
    <2> DEFINE t == [Contents EXCEPT ![1 + k] = c]
    <2>4. /\ t \in Seq(Byte) /\ Len(t) = Used
          /\ \A j \in 1 .. Used : t[j] = IF j = 1 + k THEN c ELSE Contents[j]
      BY <1>0, <2>3, ExceptSeq
    <2> HIDE DEF t
    <2>5. ASSUME NEW i \in 1 .. Used
          PROVE  Held(data', bi, Used)[i] = t[i]
      <3>1. /\ i - 1 \in 0 .. Size - 1 /\ k \in 0 .. Size - 1 /\ i - 1 \in 0 .. Size
            /\ (i - 1 = k <=> i = 1 + k)
        BY <1>0, <1>2, Sizes
      <3>2. Slot(bi, i - 1) \in 0 .. Size - 1 /\ (Slot(bi, i - 1) = x <=> i = 1 + k)
        BY <1>0, <1>3, <3>1, Slots
      <3>3. data'[Slot(bi, i - 1)] = IF Slot(bi, i - 1) = x THEN c ELSE data[Slot(bi, i - 1)]
        BY <1>0, <1>4, <3>2 DEF Ring
      <3> QED BY <2>1, <2>2, <2>4, <3>2, <3>3
    <2>6. Held(data', bi, Used) = t
      BY <2>1, <2>4, <2>5, SeqEqual
    <2> QED BY <2>6 DEF t
  <1>11. 1 + k = 1 + (IF offset < 0 THEN Len(Contents) ELSE 0) + offset
    BY <1>0, <1>1 DEF k
  <1>12. offset \in -Len(Contents) .. Len(Contents) - 1
    BY <1>0, <1>1
  <1> QED BY <1>4, <1>8, <1>9, <1>10, <1>11, <1>12 DEF Fifo!Replace, Result, Fifo!Result

\* minute_iobuf_write.
LEMMA WriteStep ==
  ASSUME Sound, ~broken, NEW s \in Strings, Write(s)
  PROVE  Sound' /\ (Fifo!Write(s) \/ Fifo!Break)
  <1>0. /\ read \in Offset /\ write \in Offset /\ data \in Ring
        /\ Used \in 0 .. Size /\ bi \in 0 .. Size - 1 /\ ei \in 0 .. Size - 1
        /\ Contents \in Seq(Byte) /\ Len(Contents) = Used /\ eof \in BOOLEAN
    BY Standing
  <1> DEFINE ne == Plus(write, Len(s))
             nei == Index(ne)
             m == Len(s)
             left == (ne - read) % Modulus
  <1>1. s \in Seq(Byte) /\ m \in Nat /\ Used + m < Modulus
    <2>1. s \in Seq(Byte) /\ m < Modulus - Size  BY IoBufAssumption
    <2>2. m \in Nat  BY <2>1, LenProperties
    <2> QED BY <1>0, <2>1, <2>2, Sizes
  <1>2. left = Used + m /\ ne \in Offset
    BY <1>0, <1>1, UsedGrows DEF Used
  <1>3. CASE left > Size
    <2> DEFINE n == -1
    <2>1. out' = Result(n, <<>>) /\ n \in Int /\ UNCHANGED <<read, write, data, eof, broken>>
      BY <1>3 DEF Write, Fine
    <2> HIDE DEF n
    <2>2. Sound' /\ Contents' = Contents
      BY <1>0, <2>1, RefuseStep
    <2>3. ~ Fifo!Fits(Len(s))
      BY <1>0, <1>1, <1>2, <1>3, Sizes DEF Fifo!Fits
    <2> QED BY <2>1, <2>2, <2>3 DEF Fifo!Write, Fifo!Refuse, Result, Fifo!Result, n
  <1>4. CASE ~ (left > Size)
    <2>1. /\ data' = IF nei > ei THEN CopyIn(data, ei, s) ELSE CopySplit(Size - ei, s)
          /\ write' = ne /\ out' = Result(m, <<>>)
          /\ IF nei =< ei /\ m < Size - ei THEN Break ELSE Fine
          /\ UNCHANGED <<read, eof>>
      BY <1>4 DEF Write
    <2>2. Used + m =< Size /\ m \in 0 .. Size
      BY <1>0, <1>1, <1>2, <1>4, Sizes
    <2>3. nei = Slot(ei, m)
      BY <1>0, <2>2, IndexSlot DEF ei
    <2> HIDE DEF nei, ne, left
    <2>4. data' \in Ring /\ Written(data', data, ei, s)
      <3>1. CASE nei > ei
        <4>1. ei + m =< Size
          BY <1>0, <2>2, <2>3, <3>1, Sizes DEF Slot
        <4>2. data' = CopyIn(data, ei, s)
          BY <2>1, <3>1
        <4> QED BY <1>0, <1>1, <4>1, <4>2, CopiedOnce
      <3>2. CASE ~ (nei > ei)
        <4>1. data' = CopySplit(Size - ei, s)
          BY <2>1, <3>2
        <4> QED BY <1>0, <1>1, <2>2, <4>1, CopiedSplit
      <3> QED BY <3>1, <3>2
    <2>5. CASE nei =< ei /\ m < Size - ei
      <3>1. Break
        BY <2>1, <2>5
      <3>2. out' \in [ret : Int, data : Seq(Byte)]
        <4>1. <<>> \in Seq(Byte)  BY EmptySeq
        <4> QED BY <1>1, <2>1, <4>1 DEF Result
      <3>3. write' \in Offset
        BY <1>2, <2>1
      <3>4. TypeOK'
        BY <1>0, <2>1, <2>4, <3>1, <3>2, <3>3 DEF TypeOK, Break, Offset, Ring
      <3> QED BY <3>1, <3>4, BreakStep
    <2>6. CASE ~ (nei =< ei /\ m < Size - ei)
      <3>1. UNCHANGED <<read, eof, broken>> /\ m \in Int
        BY <1>1, <2>1, <2>6 DEF Fine
      <3>2. Sound' /\ Contents' = Contents \o s
        BY <1>1, <2>1, <2>2, <2>4, <3>1, InStep DEF ne
      <3>3. Fifo!Fits(Len(s))
        BY <1>0, <2>2 DEF Fifo!Fits
      <3> QED BY <2>1, <3>1, <3>2, <3>3 DEF Fifo!Write, Fifo!In, Result, Fifo!Result
    <2> QED BY <2>5, <2>6
  <1> QED BY <1>3, <1>4

\* minute_iobuf_readfd, when bytes arrive.
LEMMA ReadFdStep ==
  ASSUME Sound, ~broken, NEW s \in Strings, ReadFd(s)
  PROVE  Sound' /\ Fifo!ReadFd(s)
  <1>0. /\ read \in Offset /\ write \in Offset /\ data \in Ring
        /\ Used \in 0 .. Size /\ bi \in 0 .. Size - 1 /\ ei \in 0 .. Size - 1
        /\ ei = Slot(bi, Used) /\ (Used = 0 <=> read = write)
        /\ Contents \in Seq(Byte) /\ Len(Contents) = Used
    BY Standing
  <1> DEFINE m == Len(s)
  <1>1. s \in Seq(Byte) /\ m \in Nat
    <2>1. s \in Seq(Byte)  BY IoBufAssumption
    <2> QED BY <2>1, LenProperties
  <1>2. /\ ~ (read # write /\ bi = ei) /\ m \in 1 .. Room1 + Room2
        /\ data' = CopySplit(Room1, s) /\ write' = Plus(write, m) /\ out' = Result(m, <<>>)
        /\ UNCHANGED <<read, eof, broken>>
    BY DEF ReadFd, Full, Fine
  <1>3. Used + m =< Size /\ m =< Size
    BY <1>0, <1>1, <1>2, Sizes DEF Slot, Room1, Room2
  <1>4. data' \in Ring /\ Written(data', data, ei, s)
    <2>1. CASE bi > ei
      <3>1. m =< Room1 /\ ei + m =< Size
        BY <1>0, <1>1, <1>2, <2>1, Sizes DEF Room1, Room2
      <3>2. data' = CopyIn(data, ei, s)
        BY <1>2, <3>1 DEF CopySplit
      <3> QED BY <1>0, <1>1, <3>1, <3>2, CopiedOnce
    <2>2. CASE ~ (bi > ei)
      <3>1. data' = CopySplit(Size - ei, s)
        BY <1>2, <2>2 DEF Room1
      <3> QED BY <1>0, <1>1, <1>3, <3>1, CopiedSplit
    <2> QED BY <2>1, <2>2
  <1>5. m \in Int
    BY <1>1
  <1>6. Sound' /\ Contents' = Contents \o s
    BY <1>1, <1>2, <1>3, <1>4, <1>5, InStep
  <1>7. s # <<>> /\ Fifo!Fits(Len(s))
    BY <1>0, <1>2, <1>3, EmptySeq DEF Fifo!Fits
  <1> QED BY <1>2, <1>6, <1>7 DEF Fifo!ReadFd, Fifo!In, Result, Fifo!Result

\* minute_iobuf_readfd, when none do.
LEMMA ReadFdElseStep ==
  ASSUME Sound, ~broken, ReadFdFull \/ ReadFdEnd \/ ReadFdError
  PROVE  Sound' /\ (Fifo!ReadFdFull \/ Fifo!ReadFdEnd \/ Fifo!Break)
  <1>0. /\ read \in Offset /\ write \in Offset /\ data \in Ring
        /\ Used \in 0 .. Size /\ bi \in 0 .. Size - 1 /\ ei = Slot(bi, Used)
        /\ (Used = 0 <=> read = write)
        /\ Contents \in Seq(Byte) /\ Len(Contents) = Used /\ eof \in BOOLEAN
    BY Standing
  <1> DEFINE n == -1
             z == 0
  <1>1. n \in Int /\ z \in Int
    OBVIOUS
  <1>2. CASE ReadFdFull
    <2>1. out' = Result(n, <<>>) /\ UNCHANGED <<read, write, data, eof, broken>>
      BY <1>2 DEF ReadFdFull, Fine
    <2> HIDE DEF n
    <2>2. Sound' /\ Contents' = Contents
      BY <1>0, <1>1, <2>1, RefuseStep
    <2>3. ~ Fifo!Fits(1)
      BY <1>0, <1>2, Sizes DEF Fifo!Fits, ReadFdFull, Full, Slot
    <2> QED BY <2>1, <2>2, <2>3 DEF Fifo!ReadFdFull, Fifo!Refuse, Result, Fifo!Result, n
  <1>3. CASE ReadFdEnd
    <2>1. out' = Result(z, <<>>) /\ eof' = TRUE /\ UNCHANGED <<read, write, data, broken>>
      BY <1>3 DEF ReadFdEnd, Fine
    <2> HIDE DEF z
    <2>2. Sound' /\ Contents' = Contents
      BY <1>1, <2>1, RefuseStep
    <2> QED BY <2>1, <2>2 DEF Fifo!ReadFdEnd, Result, Fifo!Result, z
  <1>4. CASE ReadFdError
    <2>1. out' = Result(n, <<>>) /\ write' = Plus(write, n) /\ Break /\ UNCHANGED <<read, data, eof>>
      BY <1>4 DEF ReadFdError
    <2>2. write' \in Offset
      <3>1. write + n \in Int  BY <1>0, <1>1 DEF Offset
      <3>2. (write + n) % Modulus \in Offset  BY <3>1, Sizes, Mod DEF Offset
      <3> QED BY <2>1, <3>2 DEF Plus
    <2>3. out' \in [ret : Int, data : Seq(Byte)]
      <3>1. <<>> \in Seq(Byte)  BY EmptySeq
      <3> QED BY <1>1, <2>1, <3>1 DEF Result
    <2>4. TypeOK'
      BY <1>0, <2>1, <2>2, <2>3 DEF TypeOK, Break, Offset, Ring
    <2> QED BY <2>1, <2>4, BreakStep
  <1> QED BY <1>2, <1>3, <1>4

\* minute_iobuf_read.
LEMMA ReadStep ==
  ASSUME Sound, ~broken, NEW sz \in ReadSizes, Read(sz)
  PROVE  Sound' /\ (Fifo!Read(sz) \/ Fifo!Break)
  <1>0. /\ read \in Offset /\ write \in Offset /\ data \in Ring
        /\ Used \in 0 .. Size /\ bi \in 0 .. Size - 1 /\ ei = Slot(bi, Used)
        /\ Contents = Held(data, bi, Used)
        /\ Contents \in Seq(Byte) /\ Len(Contents) = Used /\ eof \in BOOLEAN
    BY Standing
  <1> DEFINE e == IF Used > sz THEN Plus(read, sz) ELSE write
             l == (e - read) % Modulus
             tail == Size - bi
             n == IF sz < Used THEN sz ELSE Used
  <1>1. sz \in Nat /\ n \in 0 .. Used /\ n \in 0 .. Size /\ n \in Nat
    BY <1>0, Sizes, IoBufAssumption
  <1>2. e = Plus(read, n)
    <2>1. CASE sz < Used
      BY <1>0, <1>1, <2>1
    <2>2. CASE ~ (sz < Used)
      <3>1. n = Used /\ e = write  BY <1>0, <1>1, <2>2
      <3>2. Used = IF read =< write THEN write - read ELSE write - read + Modulus
        BY <1>0, Difference DEF Used
      <3>3. Used \in 0 .. Modulus  BY <1>0, Sizes
      <3>4. Plus(read, Used) = IF read + Used < Modulus THEN read + Used ELSE read + Used - Modulus
        BY <1>0, <3>3, Sum
      <3>5. Plus(read, Used) = write
        BY <1>0, <3>2, <3>4, Sizes DEF Offset
      <3> QED BY <3>1, <3>5
    <2> QED BY <2>1, <2>2
  <1>3. l = n
    <2>1. Plus(read, n) = (IF read + n < Modulus THEN read + n ELSE read + n - Modulus)
          /\ Plus(read, n) \in Offset
      <3>1. n \in 0 .. Modulus  BY <1>1, Sizes
      <3> QED BY <1>0, <3>1, Sum
    <2>2. l = IF read =< e THEN e - read ELSE e - read + Modulus
      BY <1>0, <1>2, <2>1, Difference
    <2> HIDE DEF e, n
    <2> QED BY <1>0, <1>1, <1>2, <2>1, <2>2, Sizes DEF Offset
  <1>4. Index(e) = Slot(bi, n)
    BY <1>0, <1>1, <1>2, IndexSlot DEF bi
  <1>5. /\ read' = e /\ UNCHANGED <<write, data, eof>>
        /\ IF Index(e) < bi
           THEN out' = Result(l, CopyOut(bi, tail) \o CopyOut(0, l - tail)) /\ Fine
           ELSE IF bi + l =< Size
           THEN out' = Result(l, CopyOut(bi, l)) /\ Fine
           ELSE out' = Result(l, CopyOut(bi, tail)) /\ Break
    BY DEF Read
  <1> HIDE DEF e, n, l
  <1>6. ASSUME out' = Result(n, SubSeq(Contents, 1, n)), Fine
        PROVE  Sound' /\ Fifo!Read(sz)
    <2>1. Sound' /\ Contents' = SubSeq(Contents, n + 1, Len(Contents))
      BY <1>1, <1>2, <1>5, <1>6, OutStep DEF Fine
    <2>2. Fifo!Out(n)
      <3>1. n =< Len(Contents)
        BY <1>0, <1>1, Sizes
      <3>2. out' = Fifo!Result(n, SubSeq(Contents, 1, n))
        BY <1>6 DEF Result, Fifo!Result
      <3>3. UNCHANGED <<eof, ~broken>>
        BY <1>5, <1>6 DEF Fine
      <3> QED BY <2>1, <3>1, <3>2, <3>3 DEF Fifo!Out
    <2> QED BY <1>0, <2>1, <2>2 DEF Fifo!Read, n
  <1>7. CASE Index(e) < bi
    <2>1. n \in Size - bi .. Used
      BY <1>0, <1>1, <1>4, <1>7, Sizes DEF Slot
    <2>2. CopyOut(bi, tail) \o CopyOut(0, n - tail) = SubSeq(Contents, 1, n)
      BY <1>0, <2>1, TakenSplit
    <2> QED BY <1>3, <1>5, <1>6, <1>7, <2>2
  <1>8. CASE ~ (Index(e) < bi) /\ bi + n =< Size
    <2>1. CopyOut(bi, n) = SubSeq(Contents, 1, n)
      BY <1>0, <1>1, <1>8, TakenOnce
    <2> QED BY <1>3, <1>5, <1>6, <1>8, <2>1
  <1>9. CASE ~ (Index(e) < bi) /\ ~ (bi + n =< Size)
    <2>1. out' = Result(n, CopyOut(bi, tail)) /\ Break
      BY <1>3, <1>5, <1>9
    <2>2. tail \in Nat /\ bi + tail =< Size
      BY <1>0, Sizes
    <2>3. CopyOut(bi, tail) \in Seq(Byte)
      BY <1>0, <2>2, CopyOutIs
    <2>4. out' \in [ret : Int, data : Seq(Byte)]
      BY <1>1, <2>1, <2>3 DEF Result
    <2>5. read' \in Offset
      <3>1. n \in 0 .. Modulus  BY <1>1, Sizes
      <3> QED BY <1>0, <1>2, <1>5, <3>1, Sum
    <2>6. TypeOK'
      BY <1>0, <1>5, <2>1, <2>4, <2>5 DEF TypeOK, Break, Offset, Ring
    <2> QED BY <2>1, <2>6, BreakStep
  <1> QED BY <1>7, <1>8, <1>9

\* What is gathered is the contents, or nothing once the write offset alone has wrapped.
LEMMA Gathered ==
  ASSUME Sound, ~broken
  PROVE  Gather = Contents \/ Gather = <<>>
  <1>0. /\ read \in Offset /\ write \in Offset /\ data \in Ring
        /\ Used \in 0 .. Size /\ bi \in 0 .. Size - 1 /\ ei \in 0 .. Size - 1
        /\ ei = Slot(bi, Used) /\ (Used = 0 <=> read = write)
        /\ Contents = Held(data, bi, Used)
        /\ Contents \in Seq(Byte) /\ Len(Contents) = Used
    BY Standing
  <1>1. SubSeq(Contents, 1, Used) = Contents
    BY <1>0, SubSeqFull
  <1>2. CASE write > read /\ bi < ei
    <2>1. Used \in 0 .. Used /\ Used = ei - bi /\ bi + Used =< Size
      BY <1>0, <1>2, Sizes DEF Slot, Offset
    <2>2. CopyOut(bi, Used) = Contents
      BY <1>0, <1>1, <2>1, TakenOnce
    <2>3. CopyOut(0, 0) = <<>>
      <3>1. 0 \in Nat /\ 0 + 0 =< Size /\ 0 \in 0 .. Size - 1
        BY Sizes
      <3>2. CopyOut(0, 0) \in Seq(Byte) /\ Len(CopyOut(0, 0)) = 0
        BY <1>0, <3>1, CopyOutIs
      <3> QED BY <3>2, EmptySeq
    <2>4. Contents \o <<>> = Contents
      BY <1>0, ConcatEmptySeq
    <2>5. Gather = CopyOut(bi, ei - bi) \o CopyOut(0, 0)
      BY <1>2 DEF Gather
    <2> QED BY <2>1, <2>2, <2>3, <2>4, <2>5
  <1>3. CASE write > read /\ ~ (bi < ei)
    <2>1. /\ Used \in Size - bi .. Used /\ Used - (Size - bi) = ei
      BY <1>0, <1>3, Sizes DEF Slot, Offset
    <2>2. CopyOut(bi, Size - bi) \o CopyOut(0, ei) = Contents
      BY <1>0, <1>1, <2>1, TakenSplit
    <2>3. Gather = CopyOut(bi, Size - bi) \o CopyOut(0, ei)
      BY <1>3 DEF Gather
    <2> QED BY <2>2, <2>3
  <1>4. CASE ~ (write > read)
    BY <1>4 DEF Gather
  <1> QED BY <1>2, <1>3, <1>4

\* minute_iobuf_flushfd.
LEMMA FlushFdStep ==
  ASSUME Sound, ~broken, NEW n \in -1 .. Size, FlushFd(n)
  PROVE  Sound' /\ Fifo!FlushFd
  <1>0. /\ read \in Offset /\ Used \in 0 .. Size /\ eof \in BOOLEAN
        /\ Contents \in Seq(Byte) /\ Len(Contents) = Used
    BY Standing
  <1>1. /\ n =< Len(Gather) /\ read' = (IF n > 0 THEN Plus(read, n) ELSE read)
        /\ out' = Result(n, SubSeq(Gather, 1, n))
        /\ UNCHANGED <<write, data, eof, broken>>
    BY DEF FlushFd, Fine
  <1>2. n \in Int /\ n >= -1 /\ n =< Size
    BY Sizes
  <1>3. CASE n < 0
    <2>1. n = -1
      BY <1>2, <1>3
    <2>2. SubSeq(Gather, 1, n) = <<>>
      BY <1>2, <1>3, SubSeqEmpty
    <2>3. out' = Result(n, <<>>) /\ read' = read
      <3>1. out' = Result(n, <<>>)
        BY <1>1, <2>2
      <3>2. ~ (n > 0)
        BY <1>2, <1>3
      <3>3. read' = read
        BY <1>1, <3>2
      <3> QED BY <3>1, <3>3
    <2>4. Sound' /\ Contents' = Contents
      BY <1>0, <1>1, <1>2, <2>3, RefuseStep
    <2> QED BY <1>1, <2>1, <2>3, <2>4 DEF Fifo!FlushFd, Fifo!Refuse, Result, Fifo!Result
  <1>4. CASE n >= 0
    <2>1. n \in 0 .. Used
      <3>1. Len(<<>>) = 0
        BY EmptySeq
      <3> QED BY <1>0, <1>1, <1>2, <1>4, <3>1, Gathered
    <2>2. SubSeq(Gather, 1, n) = SubSeq(Contents, 1, n)
      <3>1. CASE n = 0
        <4>1. \A g : SubSeq(g, 1, 0) = <<>>
          BY SubSeqEmpty
        <4> QED BY <3>1, <4>1
      <3>2. CASE n > 0
        <4>1. Len(<<>>) = 0
          BY EmptySeq
        <4>2. Gather = Contents
          BY <1>1, <1>2, <3>2, <4>1, Gathered
        <4> QED BY <4>2
      <3> QED BY <1>2, <1>4, <3>1, <3>2
    <2>3. read' = Plus(read, n)
      <3>1. CASE n = 0
        <4>1. n \in 0 .. Modulus
          BY <3>1, Sizes
        <4>2. Plus(read, n) = IF read + n < Modulus THEN read + n ELSE read + n - Modulus
          BY <1>0, <4>1, Sum
        <4> QED BY <1>0, <1>1, <3>1, <4>2, Sizes DEF Offset
      <3>2. CASE n > 0
        BY <1>1, <3>2
      <3> QED BY <1>2, <1>4, <3>1, <3>2
    <2>4. out' = Result(n, SubSeq(Contents, 1, n))
      BY <1>1, <2>2
    <2>5. Sound' /\ Contents' = SubSeq(Contents, n + 1, Len(Contents))
      BY <1>1, <2>1, <2>3, <2>4, OutStep
    <2>6. Fifo!Out(n)
      <3>1. n =< Len(Contents)
        BY <1>0, <2>1, Sizes
      <3>2. out' = Fifo!Result(n, SubSeq(Contents, 1, n))
        BY <2>4 DEF Result, Fifo!Result
      <3>3. UNCHANGED <<eof, ~broken>>
        BY <1>1
      <3> QED BY <2>5, <3>1, <3>2, <3>3 DEF Fifo!Out
    <2> QED BY <1>0, <2>1, <2>5, <2>6 DEF Fifo!FlushFd
  <1> QED BY <1>2, <1>3, <1>4

---------------------------------------------------------------------------
(* The specification                                                       *)

\* A new ring is sound, and an empty queue.
LEMMA InitStep ==
  ASSUME Init
  PROVE  Sound /\ Fifo!FifoInit
  <1>1. 0 \in Offset /\ Used = 0
    <2>1. 0 \in Offset  BY Sizes DEF Offset
    <2>2. (0 - 0) % Modulus = 0  BY <2>1, Difference, Sizes
    <2> QED BY <2>1, <2>2 DEF Init, Used
  <1>2. <<>> \in Seq(Byte)
    BY EmptySeq
  <1>3. TypeOK
    <2> DEFINE z == 0
    <2>1. z \in Int /\ out = Result(z, <<>>)
      BY DEF Init
    <2> HIDE DEF z
    <2>2. out \in [ret : Int, data : Seq(Byte)]
      BY <1>2, <2>1 DEF Result
    <2> QED BY <1>1, <2>2 DEF Init, TypeOK, Offset
  <1>4. WithinSize
    BY <1>1, Sizes DEF WithinSize
  <1>5. Contents = <<>>
    BY <1>1 DEF Contents
  <1> QED BY <1>3, <1>4, <1>5 DEF Init, Sound, Fifo!FifoInit, Result, Fifo!Result

\* A step of the queue.
FifoStep == [Fifo!FifoNext(Strings, ReadSizes)]_<<Contents, eof, out, broken>>

\* Every step keeps the invariant and is a step of the queue.
LEMMA NextStep ==
  ASSUME Sound, [Next]_vars
  PROVE  Sound' /\ FifoStep
  <1>1. CASE UNCHANGED vars
    <2>1. Used' = Used
      BY <1>1 DEF vars, Used
    <2>2. Contents' = Contents
      BY <1>1, <2>1 DEF vars, Contents, Index
    <2>3. Sound'
      BY <1>1, <2>1 DEF vars, Sound, TypeOK, WithinSize
    <2> QED BY <1>1, <2>2, <2>3 DEF vars, FifoStep
  <1> SUFFICES ASSUME Next PROVE Sound' /\ Fifo!FifoNext(Strings, ReadSizes)
    BY <1>1 DEF FifoStep
  <1>2. ~broken
    BY DEF Next
  <1>3. CASE Clear
    BY <1>2, <1>3, ClearStep DEF Fifo!FifoNext
  <1>4. ASSUME NEW c \in Byte, Put(c)
        PROVE  Sound' /\ Fifo!FifoNext(Strings, ReadSizes)
    BY <1>2, <1>4, PutStep DEF Fifo!FifoNext
  <1>5. ASSUME NEW c \in Byte, NEW offset \in -Size .. Size, Replace(offset, c)
        PROVE  Sound' /\ Fifo!FifoNext(Strings, ReadSizes)
    BY <1>2, <1>5, ReplaceStep DEF Fifo!FifoNext
  <1>6. ASSUME NEW s \in Strings, Write(s)
        PROVE  Sound' /\ Fifo!FifoNext(Strings, ReadSizes)
    BY <1>2, <1>6, WriteStep DEF Fifo!FifoNext
  <1>7. ASSUME NEW s \in Strings, ReadFd(s)
        PROVE  Sound' /\ Fifo!FifoNext(Strings, ReadSizes)
    BY <1>2, <1>7, ReadFdStep DEF Fifo!FifoNext
  <1>8. ASSUME NEW sz \in ReadSizes, Read(sz)
        PROVE  Sound' /\ Fifo!FifoNext(Strings, ReadSizes)
    BY <1>2, <1>8, ReadStep DEF Fifo!FifoNext
  <1>9. CASE ReadFdFull \/ ReadFdEnd \/ ReadFdError
    BY <1>2, <1>9, ReadFdElseStep DEF Fifo!FifoNext
  <1>10. ASSUME NEW n \in -1 .. Size, FlushFd(n)
         PROVE  Sound' /\ Fifo!FifoNext(Strings, ReadSizes)
    BY <1>2, <1>10, FlushFdStep DEF Fifo!FifoNext
  <1> QED BY <1>3, <1>4, <1>5, <1>6, <1>7, <1>8, <1>9, <1>10 DEF Next

\* The ring is always sound.
LEMMA SoundHolds == Spec => []Sound
  <1>1. Init => Sound
    BY InitStep
  <1>2. Sound /\ [Next]_vars => Sound'
    BY NextStep
  <1> QED BY <1>1, <1>2, PTL DEF Spec

\* Both offsets stay unsigned integers, the ring keeps its size and a call
\* answers with a number and bytes, whatever calls are made (all of iobuf.c
\* and iobuf-util.c).
THEOREM TypeCorrect == Spec => []TypeOK
  <1>1. Sound => TypeOK
    BY DEF Sound
  <1> QED BY <1>1, SoundHolds, PTL

\* The offsets are never further apart than the ring is long, however often
\* they wrap, as iobuf.h:6-9 says of them.
THEOREM WithinSizeHolds == Spec => []WithinSize
  <1>1. Sound => WithinSize
    BY DEF Sound
  <1> QED BY <1>1, SoundHolds, PTL

\* The ring of iobuf.c, with its wrapping offsets and copies in two pieces,
\* is a bounded first-in first-out queue of bytes up to the first call that
\* breaks it.
THEOREM Implements == Spec => IsFifo
  <1>1. Init => Fifo!FifoInit
    BY InitStep
  <1>2. Sound /\ [Next]_vars => [Fifo!FifoNext(Strings, ReadSizes)]_<<Contents, eof, out, broken>>
    BY NextStep DEF FifoStep
  <1> QED BY <1>1, <1>2, SoundHolds, PTL DEF Spec, IsFifo

=============================================================================
