---------------------------- MODULE MCJobManager ----------------------------
(* Small instances of JobManager for TLC: one bundle with an eager and a    *)
(* lazy key, or two bundles of one key each.                                *)
EXTENDS JobManager, TLC

CONSTANTS ke, kl, d1, d2, w1, w2

OneBundle == (ke :> d1) @@ (kl :> d1)
TwoBundles == (ke :> d1) @@ (kl :> d2)
WorkerSymmetry == Permutations(Workers)
=============================================================================
