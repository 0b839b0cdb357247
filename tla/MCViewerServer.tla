--------------------------- MODULE MCViewerServer ---------------------------
(* Small instances of ViewerServer: one bundle with an eager and a lazy key, *)
(* or with its eager key alone.                                             *)
EXTENDS ViewerServer, TLC

CONSTANTS ke, kl, d1, w1, w2

OneBundle == (ke :> d1) @@ (kl :> d1)
OneKey == ke :> d1
WorkerSymmetry == Permutations(Workers)
=============================================================================
