----------------------------- MODULE MCGuiShutdown -----------------------------
(* GuiShutdown for TLC.  Two start calls differ in nothing but their name. *)
EXTENDS GuiShutdown, TLC

CallSymmetry == Permutations(StartCall)
=============================================================================
