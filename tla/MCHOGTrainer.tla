---------------------------- MODULE MCHOGTrainer ----------------------------
(* Instances of HOGTrainer for TLC: sets that may be empty for callers     *)
(* that catch and try again, and sets that never are.                      *)
EXTENDS HOGTrainer

EmptyOrFew == 0 .. 2
NonEmpty == 1 .. 3
ZeroedMemory == {0}
=============================================================================
