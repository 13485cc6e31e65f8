---------------------------- MODULE MCBtConsole -----------------------------
(***************************************************************************)
(* BtConsole for TLC: two peers, so that one can go while the other stays, *)
(* and two calls of the console.                                           *)
(***************************************************************************)
EXTENDS BtConsole

TwoPeers == {1, 2}
=============================================================================
