--------------------------- MODULE SeqFold_proofs ---------------------------
(* Laws of a loop over a sequence, for every step: what it comes to after   *)
(* no element, after one more and after a further sequence, and how an      *)
(* invariant of the step is one of the loop.  They need induction; that of  *)
(* the library takes a predicate, so here it is derived, over sets, from    *)
(* the well-foundedness of the natural numbers.                             *)
EXTENDS SeqFold, SequenceTheorems, WellFoundedInduction, TLAPS

---------------------------------------------------------------------------
(* Induction                                                               *)

\* The order of the natural numbers, as a set of pairs, is well-founded.
LEMMA NatLessThan == IsWellFoundedOn({p \in Nat \X Nat : p[1] < p[2]}, Nat)
  <1> HIDE DEF IsWellFoundedOn
  <1>1. OpToRel(<, Nat) = {p \in Nat \X Nat : p[1] < p[2]}
    BY Zenon DEF OpToRel
  <1> QED BY NatLessThanWellFounded, <1>1, Zenon

\* A set of natural numbers that is not empty has a least element.
LEMMA LeastNat ==
  ASSUME NEW S, S \subseteq Nat, S # {}
  PROVE  \E x \in S : \A y \in S : ~(y < x)
  <1> DEFINE R == {p \in Nat \X Nat : p[1] < p[2]}
  <1>1. PICK x \in S : \A y \in S : <<y, x>> \notin R
    <2> HIDE DEF R
    <2>1. IsWellFoundedOn(R, Nat) BY NatLessThan DEF R
    <2> QED BY <2>1, WFMin
  <1> QED BY <1>1

\* A set that has 0, and with any number the next, has them all.
LEMMA Inductive ==
  ASSUME NEW S, 0 \in S, \A i \in Nat : i \in S => i + 1 \in S
  PROVE  Nat \subseteq S
  <1> SUFFICES ASSUME ~(Nat \subseteq S) PROVE FALSE
    OBVIOUS
  <1> DEFINE T == {i \in Nat : i \notin S}
  <1>1. PICK x \in T : \A y \in T : ~(y < x) BY LeastNat
  <1>2. x # 0 /\ x - 1 \in Nat /\ x - 1 \notin T BY <1>1
  <1> QED BY <1>2

---------------------------------------------------------------------------
(* The recursive function                                                  *)

\* f holds the states of the loop over the first m elements of s.
Folding(base, s, m, f) ==
    f = [i \in 0 .. m |-> IF i = 0 THEN base ELSE Step(f[i - 1], s[i])]

\* There is such a function.
LEMMA FoldingExists ==
  ASSUME NEW base, NEW s, NEW m \in Nat
  PROVE  \E f : Folding(base, s, m, f)
  <1> DEFINE S == {i \in Nat : \E f : Folding(base, s, i, f)}
  <1>1. 0 \in S
    <2>1. Folding(base, s, 0, [i \in 0 .. 0 |-> base]) BY DEF Folding
    <2> QED BY <2>1
  <1>2. ASSUME NEW i \in Nat, i \in S PROVE i + 1 \in S
    <2>1. PICK f : Folding(base, s, i, f) BY <1>2
    <2> DEFINE g == [j \in 0 .. i + 1 |-> IF j = i + 1 THEN Step(f[i], s[i + 1]) ELSE f[j]]
    <2>2. g = [j \in 0 .. i + 1 |-> IF j = 0 THEN base ELSE Step(g[j - 1], s[j])]
      <3> SUFFICES ASSUME NEW j \in 0 .. i + 1
                   PROVE  g[j] = IF j = 0 THEN base ELSE Step(g[j - 1], s[j])
        OBVIOUS
      <3>1. j \in 0 .. i => f[j] = IF j = 0 THEN base ELSE Step(f[j - 1], s[j])
        BY <2>1 DEF Folding
      <3>2. CASE j = i + 1
        BY <3>2
      <3>3. CASE j # i + 1
        BY <3>1, <3>3
      <3> QED BY <3>2, <3>3
    <2> HIDE DEF g
    <2>3. Folding(base, s, i + 1, g) BY <2>2 DEF Folding
    <2> QED BY <2>3
  <1> HIDE DEF S
  <1>3. Nat \subseteq S BY <1>1, <1>2, Inductive
  <1> QED BY <1>3 DEF S

\* Its values are determined by the elements before.
LEMMA FoldingAgrees ==
  ASSUME NEW base, NEW s, NEW t, NEW m \in Nat, NEW n \in Nat, NEW f, NEW g,
         m <= n, \A i \in 1 .. m : s[i] = t[i],
         Folding(base, s, m, f), Folding(base, t, n, g)
  PROVE  f[m] = g[m]
  <1> DEFINE S == {i \in Nat : i <= m => f[i] = g[i]}
  <1>1. 0 \in S BY DEF Folding
  <1>2. ASSUME NEW i \in Nat, i \in S PROVE i + 1 \in S
    <2> SUFFICES ASSUME i + 1 <= m PROVE f[i + 1] = g[i + 1]
      OBVIOUS
    <2>1. f[i + 1] = Step(f[i], s[i + 1]) BY DEF Folding
    <2>2. g[i + 1] = Step(g[i], t[i + 1]) BY DEF Folding
    <2>3. f[i] = g[i] /\ s[i + 1] = t[i + 1] BY <1>2
    <2> QED BY <2>1, <2>2, <2>3
  <1> HIDE DEF S
  <1>3. Nat \subseteq S BY <1>1, <1>2, Inductive
  <1> QED BY <1>3 DEF S

\* Fold is the last value of it.
LEMMA FoldIs ==
  ASSUME NEW base, NEW s, Len(s) \in Nat
  PROVE  \E f : Folding(base, s, Len(s), f) /\ Fold(base, s) = f[Len(s)]
  <1> DEFINE f == CHOOSE f : Folding(base, s, Len(s), f)
  <1>1. Folding(base, s, Len(s), f) BY FoldingExists
  <1>2. Fold(base, s) = f[Len(s)] BY DEF Fold, Folding
  <1> HIDE DEF f
  <1> QED BY <1>1, <1>2

---------------------------------------------------------------------------
(* The laws                                                                *)

\* After no element the state is the one at the start.
LEMMA FoldEmpty ==
  ASSUME NEW base
  PROVE  Fold(base, <<>>) = base
  BY FoldIs DEF Folding

\* One element more is one step more.
LEMMA FoldAppend ==
  ASSUME NEW base, NEW T, NEW s \in Seq(T), NEW x \in T
  PROVE  Fold(base, Append(s, x)) = Step(Fold(base, s), x)
  <1> DEFINE t == Append(s, x)
  <1>1. /\ Len(s) \in Nat /\ Len(t) = Len(s) + 1 /\ t[Len(t)] = x
        /\ \A i \in 1 .. Len(s) : s[i] = t[i]
    OBVIOUS
  <1> HIDE DEF t
  <1>2. PICK f : Folding(base, s, Len(s), f) /\ Fold(base, s) = f[Len(s)]
    BY <1>1, FoldIs
  <1>3. PICK g : Folding(base, t, Len(t), g) /\ Fold(base, t) = g[Len(t)]
    BY <1>1, FoldIs
  <1>4. g[Len(t)] = Step(g[Len(s)], x)
    BY <1>1, <1>3 DEF Folding
  <1>5. Len(s) <= Len(t) /\ Len(t) \in Nat
    BY <1>1
  <1>6. f[Len(s)] = g[Len(s)]
    BY <1>1, <1>2, <1>3, <1>5, FoldingAgrees
  <1> QED BY <1>2, <1>3, <1>4, <1>6 DEF t

\* What holds of the start, and passes from each state of the loop to the next, holds
\* of the end: I[i] are the states there may be after i elements.
LEMMA FoldInvariant ==
  ASSUME NEW base, NEW s, Len(s) \in Nat, NEW I,
         base \in I[0],
         \A i \in 1 .. Len(s) : \A c \in I[i - 1] : Step(c, s[i]) \in I[i]
  PROVE  Fold(base, s) \in I[Len(s)]
  <1>1. PICK f : Folding(base, s, Len(s), f) /\ Fold(base, s) = f[Len(s)]
    BY FoldIs
  <1> DEFINE S == {i \in Nat : i <= Len(s) => f[i] \in I[i]}
  <1>2. 0 \in S BY <1>1 DEF Folding
  <1>3. ASSUME NEW i \in Nat, i \in S PROVE i + 1 \in S
    <2> SUFFICES ASSUME i + 1 <= Len(s) PROVE f[i + 1] \in I[i + 1]
      OBVIOUS
    <2>1. f[i + 1] = Step(f[i], s[i + 1]) BY <1>1 DEF Folding
    <2>2. i + 1 \in 1 .. Len(s) /\ f[i] \in I[(i + 1) - 1] BY <1>3
    <2> QED BY <2>1, <2>2
  <1> HIDE DEF S
  <1>4. Nat \subseteq S BY <1>2, <1>3, Inductive
  <1> QED BY <1>1, <1>4 DEF S

\* A further sequence goes on from the state after the first.
LEMMA FoldConcat ==
  ASSUME NEW base, NEW T, NEW s \in Seq(T), NEW t \in Seq(T)
  PROVE  Fold(base, s \o t) = Fold(Fold(base, s), t)
  <1> DEFINE c == Fold(base, s)
             part(i) == s \o SubSeq(t, 1, i)
             S == {i \in Nat : i <= Len(t) => Fold(base, part(i)) = Fold(c, SubSeq(t, 1, i))}
  <1>0. \A b, q, x : q \in Seq(T) /\ x \in T => Fold(b, Append(q, x)) = Step(Fold(b, q), x)
    BY FoldAppend
  <1>1. 0 \in S
    <2>1. SubSeq(t, 1, 0) = <<>> /\ part(0) = s OBVIOUS
    <2> QED BY <2>1, FoldEmpty
  <1>2. ASSUME NEW i \in Nat, i \in S PROVE i + 1 \in S
    <2> SUFFICES ASSUME i + 1 <= Len(t)
                 PROVE  Fold(base, part(i + 1)) = Fold(c, SubSeq(t, 1, i + 1))
      OBVIOUS
    <2> DEFINE q == SubSeq(t, 1, i)
               p == s \o q
               x == t[i + 1]
    <2>1. q \in Seq(T) /\ p \in Seq(T) /\ x \in T
      OBVIOUS
    <2>2. SubSeq(t, 1, i + 1) = Append(q, x)
      OBVIOUS
    <2>3. s \o Append(q, x) = Append(p, x)
      OBVIOUS
    <2>4. Fold(base, p) = Fold(c, q)
      BY <1>2
    <2> HIDE DEF q, p, x, c
    <2>5. Fold(base, Append(p, x)) = Step(Fold(base, p), x)
      BY <1>0, <2>1
    <2>6. Fold(c, Append(q, x)) = Step(Fold(c, q), x)
      BY <1>0, <2>1
    <2> QED BY <2>2, <2>3, <2>4, <2>5, <2>6
  <1> HIDE DEF S
  <1>3. Nat \subseteq S BY <1>1, <1>2, Inductive
  <1>4. Fold(base, part(Len(t))) = Fold(c, SubSeq(t, 1, Len(t))) BY <1>3 DEF S
  <1>5. SubSeq(t, 1, Len(t)) = t OBVIOUS
  <1> QED BY <1>4, <1>5
=============================================================================
