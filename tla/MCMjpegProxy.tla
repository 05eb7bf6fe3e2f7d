----------------------------- MODULE MCMjpegProxy -----------------------------
(* MjpegProxy for TLC.  Connections differ in nothing but their id, and no *)
(* property names one, so the safety run takes them up to permutation.     *)
EXTENDS MjpegProxy, TLC

PeerSymmetry == Permutations(Downstream)
=============================================================================
