--------------------------- MODULE MCMainDispatch ---------------------------
(***************************************************************************)
(* MainDispatch for TLC: the two options that main tells apart, one that   *)
(* the usage names and one it does not.                                    *)
(***************************************************************************)
EXTENDS MainDispatch

FourWords == {"-g", "-w", "-k", "other"}
=============================================================================
