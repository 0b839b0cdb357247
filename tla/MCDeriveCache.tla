---------------------------- MODULE MCDeriveCache ----------------------------
(* Small instances of DeriveCache: a bundle with links into two others. *)
EXTENDS DeriveCache, TLC

CONSTANTS own, e1, e2, p1, p2
ProcSymmetry == Permutations(Procs)
TwoLinks == <<{e1, e2}, {e2}>>
OwnAndBoth == <<own, e1, e2>>
\* Nothing, or a result of before e2 was stored.
OldResult == {{}, {<<e1, NoLink>>}}
=============================================================================
