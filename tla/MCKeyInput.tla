----------------------------- MODULE MCKeyInput -----------------------------
(* The key test with two keys of two devices, or of one.                    *)
EXTENDS KeyInput

\* ZIB_KEY_POWER, ZIB_KEY_BACK and ZIB_KEY_OK are three different codes.
MCThreeKeys == {116, 117, 118}
MCTwoKeys   == {116, 117}
MCPowerAlone == [k \in MCTwoKeys |-> IF k = 116 THEN 1 ELSE 2]
=============================================================================
