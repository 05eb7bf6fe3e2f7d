----------------------------- MODULE MCIosGuiStore -----------------------------
(* IosGuiStore for TLC.  Concurrent start calls differ only in the phone   *)
(* each one picks, and phones only in their name.                          *)
EXTENDS IosGuiStore, TLC

StoreSymmetry == Permutations(Command) \cup Permutations(Device)
=============================================================================
