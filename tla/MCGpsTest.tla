------------------------------ MODULE MCGpsTest ------------------------------
(* Small instances of GpsTest for TLC. *)
EXTENDS GpsTest

\* n valid entries, all silent but the one at k, which has strength v.
Sky(n, k, v) ==
  [num_svs |-> n, snr |-> [j \in 1 .. GPS_MAX_SVS |-> IF j = k THEN v ELSE 0]]

\* Enough satellites, one as strong as it must be; enough satellites, all of
\* them weak; too few, one of them strong.
MCReports == {Sky(5, 5, 35), Sky(5, 5, 34), Sky(4, 1, 40)}
=============================================================================
