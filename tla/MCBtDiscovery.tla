--------------------------- MODULE MCBtDiscovery ----------------------------
(***************************************************************************)
(* BtDiscovery for TLC.  Its only constant is the number of tests, which   *)
(* the .cfg files give: two, so that a test meets what the one before it   *)
(* left behind.                                                            *)
(***************************************************************************)
EXTENDS BtDiscovery
=============================================================================
