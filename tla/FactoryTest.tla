----------------------------- MODULE FactoryTest -----------------------------
(***************************************************************************)
(* What one factory test promises to whoever started it: a test that is    *)
(* begun either gives up without an answer or reports one verdict, and a   *)
(* verdict that has been reported is never withdrawn or replaced.  The     *)
(* tests of the program are shown to implement this module.                *)
(***************************************************************************)
CONSTANTS Verdicts,     \* the verdicts a test can report
          Unknown       \* no verdict has been reported, not one of them

VARIABLES phase,        \* is a test under way?
          verdict       \* the verdict reported, or Unknown

vars == <<phase, verdict>>

\* Nothing has been tested.
Init == phase = "idle" /\ verdict = Unknown

\* The caller starts a test; a verdict reported earlier stays on record.
Begin == /\ phase = "idle"
         /\ phase' = "testing"
         /\ UNCHANGED verdict

\* The hardware could not be brought up: the test ends with no verdict.
GiveUp == /\ phase = "testing"
          /\ verdict = Unknown
          /\ phase' = "idle"
          /\ UNCHANGED verdict

\* The test ends with its one verdict.
Report == /\ phase = "testing"
          /\ verdict = Unknown
          /\ verdict' \in Verdicts
          /\ phase' = "idle"

Next == Begin \/ GiveUp \/ Report

Spec == Init /\ [][Next]_vars
=============================================================================
