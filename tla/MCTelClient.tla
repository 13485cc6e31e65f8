---------------------------- MODULE MCTelClient -----------------------------
(***************************************************************************)
(* TelClient for TLC.  Its constants are numbers, which the .cfg files     *)
(* give; nothing is symmetric, because the services and the objects of     *)
(* AppClient are told apart by the order in which they came.               *)
(***************************************************************************)
EXTENDS TelClient
=============================================================================
