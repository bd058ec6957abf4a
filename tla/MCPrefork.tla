----------------------------- MODULE MCPrefork -----------------------------
(* Model values and symmetry for checking Prefork with TLC.                *)
EXTENDS Prefork, TLC

CONSTANTS p1, p2, p3

TwoPids   == {p1, p2}
ThreePids == {p1, p2, p3}
One       == {0}
Two       == {0, 1}

\* No action and no safety property tells one process id from another.
Symmetry == Permutations(Pids)
====
