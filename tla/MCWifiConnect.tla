---------------------------- MODULE MCWifiConnect ----------------------------
(* Small instances of WifiConnect for TLC. *)
EXTENDS WifiConnect

\* The first network of an empty configuration and one more.
MCNetIds == {0, 1}
=============================================================================
