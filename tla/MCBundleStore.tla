---------------------------- MODULE MCBundleStore ----------------------------
(* Small instances of BundleStore: two or three callers, one or two bundles. *)
EXTENDS BundleStore, TLC

CONSTANTS p1, p2, p3
ProcSymmetry == Permutations(Procs)
=============================================================================
