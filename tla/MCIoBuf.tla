------------------------------ MODULE MCIoBuf ------------------------------
(* A small ring whose offsets wrap after a few times its size.                     *)
EXTENDS IoBuf

CONSTANTS x, y

TwoBytes == {x, y}
UpToFive == UNION {[1 .. n -> TwoBytes] : n \in 0 .. 5}
Sizes    == 0 .. 5
====
