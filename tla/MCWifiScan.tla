----------------------------- MODULE MCWifiScan -----------------------------
(* Small instances of WifiScan for TLC. *)
EXTENDS WifiScan

\* One network besides the target.
MCSSIDs == {ZIB_SSID, "other"}

\* One dBm on either side of the threshold, and the threshold itself.
Strong == [name |-> ZIB_SSID, sig_level |-> -79]
Weak   == [name |-> ZIB_SSID, sig_level |-> -80]
Other  == [name |-> "other", sig_level |-> -40]

\* An empty report; the target alone, last, not last, hidden behind a weaker
\* or a stronger one of the same name; and reports longer than the table, with
\* the target inside and outside the part that fits.
MCTables == {<< >>, <<Other>>, <<Strong>>, <<Weak>>, <<Other, Strong>>,
             <<Strong, Weak>>, <<Weak, Strong>>, <<Other, Other, Strong>>,
             <<Weak, Other, Strong>>}

MCPass == 1
MCFail == 0
MCLevel == -80
Unreliable == BOOLEAN
=============================================================================
