------------------------------ MODULE MC_DevFs ------------------------------
(* Four installers and MAX_MINOR_DEVICE lowered to 5, so that the numbers  *)
(* 2, 3 and 4 are handed out and the fourth installer meets exhaustion;    *)
(* the listing runs concurrently with all of them.                         *)
EXTENDS DevFs, TLC

CONSTANTS i1, i2, i3, i4

MCInstallers == {i1, i2, i3, i4}
MCMaxMinor == 5
MCSymmetry == Permutations(MCInstallers)
=============================================================================
