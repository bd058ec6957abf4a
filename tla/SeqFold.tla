------------------------------- MODULE SeqFold -------------------------------
(* A loop over a sequence: what a state becomes when Step takes one element *)
(* after the other.  It is FoldLeft of the community modules, written as a   *)
(* recursive function with the operator as a constant, so that its laws can *)
(* be proved once (SeqFold_proofs) and used for every loop.                 *)
EXTENDS Integers, Sequences

CONSTANT Step(_, _)

Fold(base, s) ==
    LET f[i \in 0 .. Len(s)] == IF i = 0 THEN base ELSE Step(f[i - 1], s[i])
    IN  f[Len(s)]
=============================================================================
