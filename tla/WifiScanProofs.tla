--------------------------- MODULE WifiScanProofs ---------------------------
(***************************************************************************)
(* Proofs about WifiScan for every table size, number of attempts, set of  *)
(* reports and threshold.                                                  *)
(***************************************************************************)
EXTENDS WifiScan, TLAPS

-----------------------------------------------------------------------------
(* The inductive invariant.                                                *)

\* Who holds the token of g_sem, which threads exist, and which status bits
\* may be set, by the place of the test thread.
Handover ==
  /\ pc # "wait2" => spc = "none"
  /\ pc \notin {"wait1", "wait2"} => g_sem = 0
  /\ pc \in {"open", "supplicant", "cnn"} =>
       sStatus = {} /\ wifi_test_over_flag = 0
  /\ pc = "wait1" /\ wifi_test_over_flag = 0 => sStatus = {"OPENED"}
  /\ pc = "wait2" =>
       /\ wifi_test_over_flag = 0
       /\ "OPENED" \in sStatus
       /\ spc # "none" => g_sem = 0
       /\ spc \in {"scan", "lock", "wait", "fetch", "finish"} =>
            "SCAN_END" \notin sStatus
       /\ spc = "post" \/ g_sem = 1 =>
            /\ "SCANNING" \notin sStatus
            /\ "SCAN_END" \in sStatus <=> sAPNum > 0
  /\ pc \in {"verdict", "over"} =>
       wifi_test_over_flag = 0 /\ "OPENED" \in sStatus
  /\ pc = "connect" => wifi_test_over_flag = 1
  /\ pc = "idle" /\ wifi_test_over_flag = 0 => sStatus = {}
  /\ wifi_test_over_flag = 1 =>
       "OPENED" \in sStatus /\ g_sem = 0
  /\ pc \in {"verdict", "over"} \/ wifi_test_over_flag = 1 =>
       /\ "SCANNING" \notin sStatus
       /\ "SCAN_END" \in sStatus <=> sAPNum > 0

\* The scan thread stops only with the target in its table or after all its
\* attempts; a refused SCAN uses up an attempt like an empty table does
\* (wifiScanThread).
GivesUpOnlyAfterRetries ==
  spc \in {"finish", "post"} => retryNum = 0 \/ Hits # {}

\* The counters of the two retry loops.
Attempts ==
  /\ pc = "cnn" => cnn > 0
  /\ spc \in {"scan", "lock", "wait", "fetch"} => retryNum > 0
  /\ GivesUpOnlyAfterRetries

\* The counted entries are those of one report.
TableFromReport ==
  sAPNum > 0 =>
    \E t \in Tables :
      /\ sAPNum <= Len(t)
      /\ sAPNum = Len(t) \/ sAPNum = WIFI_MAX_AP
      /\ \A i \in 1 .. WIFI_MAX_AP : i <= sAPNum => sAPs[i] = t[i]

\* The verdict is ZIB_FAIL until wifi_result has judged the table.
VerdictFormed ==
  /\ wifi_test_over_flag = 0 /\ pc \in {"wait1", "wait2", "verdict"} =>
       wifi_test_result = ZIB_FAIL
  /\ pc = "over" \/ wifi_test_over_flag = 1 =>
       (wifi_test_result = ZIB_PASS
          <=> "SCAN_END" \in sStatus /\ LastHitStrong)
  /\ pc = "connect" => wifi_test_result = ZIB_PASS

IInv == TypeOK /\ Handover /\ Attempts /\ TableFromReport /\ VerdictFormed

-----------------------------------------------------------------------------
(* Lemmas about the table.                                                 *)

\* What a table says depends on the table alone.
LEMMA TableUnchanged ==
  ASSUME UNCHANGED tableVars
  PROVE  /\ Hits' = Hits
         /\ LastHitStrong' <=> LastHitStrong
         /\ TableFromReport => TableFromReport'
  BY DEF tableVars, Hits, LastHitStrong, TableFromReport

\* A cleared or failed table has no hits and no counted entries.
LEMMA NoTable ==
  ASSUME sAPNum' \in Int, sAPNum' <= 0
  PROVE  Hits' = {} /\ TableFromReport'
  BY DEF Hits, TableFromReport

-----------------------------------------------------------------------------
(* The invariant is inductive.                                             *)

LEMMA InitIInv == Init => IInv
  <1> SUFFICES ASSUME Init PROVE IInv
    OBVIOUS
  <1> USE DEF Init
  <1>1. TypeOK
    <2>1. sAPs \in [1 .. WIFI_MAX_AP -> AP]
      BY DEF AP, NoAP, NoName
    <2>2. sAPNum \in -2 .. WIFI_MAX_AP
      BY TableAssumption
    <2> QED
      BY <2>1, <2>2, RetryAssumption DEF TypeOK
  <1>2. Handover
    BY DEF Handover
  <1>3. Attempts
    BY DEF Attempts, GivesUpOnlyAfterRetries
  <1>4. TableFromReport
    BY DEF TableFromReport
  <1>5. VerdictFormed
    BY DEF VerdictFormed
  <1> QED
    BY <1>1, <1>2, <1>3, <1>4, <1>5 DEF IInv

LEMMA NextIInv == IInv /\ [Next]_vars => IInv'
<1> SUFFICES ASSUME IInv, [Next]_vars PROVE IInv'
  OBVIOUS
<1> USE RetryAssumption
<1>0. TypeOK /\ Handover /\ Attempts /\ TableFromReport /\ VerdictFormed
  BY DEF IInv
<1> USE <1>0
<1>1. CASE StartTest
  <2> USE <1>1 DEF StartTest, NoTokens, OpenOnce, testVars, scanVars, tableVars, verdictVars, pollVars
  <2>1. TypeOK'
    BY DEF TypeOK
  <2>2. Handover'
    BY DEF TypeOK, Handover
  <2>3. Attempts'
    BY TableUnchanged DEF TypeOK, Handover, Attempts, GivesUpOnlyAfterRetries
  <2>4. TableFromReport'
    BY TableUnchanged
  <2>5. VerdictFormed'
    BY TableUnchanged DEF TypeOK, Handover, VerdictFormed
  <2> QED
    BY <2>1, <2>2, <2>3, <2>4, <2>5 DEF IInv
<1>2. CASE OpenDriver
  <2> USE <1>2 DEF OpenDriver, testVars, scanVars, tableVars, verdictVars,
                   pollVars
  <2>1. TypeOK'
    <3>1. sAPs' \in [1 .. WIFI_MAX_AP -> AP]
      BY DEF TypeOK, AP, NoAP, NoName
    <3>2. sAPNum' \in -2 .. WIFI_MAX_AP
      BY TableAssumption DEF TypeOK
    <3> QED
      BY <3>1, <3>2 DEF TypeOK
  <2>2. Handover'
    BY DEF TypeOK, Handover
  <2>3. Attempts'
    BY DEF TypeOK, Handover, Attempts, GivesUpOnlyAfterRetries
  <2>4. TableFromReport'
    <3>1. CASE driver
      BY <3>1, NoTable
    <3>2. CASE ~driver
      BY <3>2, TableUnchanged
    <3> QED
      BY <3>1, <3>2
  <2>5. VerdictFormed'
    BY DEF TypeOK, Handover, VerdictFormed
  <2> QED
    BY <2>1, <2>2, <2>3, <2>4, <2>5 DEF IInv
<1>3. CASE StartSupplicant
  <2> USE <1>3 DEF StartSupplicant, testVars, scanVars, tableVars, verdictVars, pollVars
  <2>1. TypeOK'
    BY DEF TypeOK
  <2>2. Handover'
    BY DEF TypeOK, Handover
  <2>3. Attempts'
    BY TableUnchanged DEF TypeOK, Handover, Attempts, GivesUpOnlyAfterRetries
  <2>4. TableFromReport'
    BY TableUnchanged
  <2>5. VerdictFormed'
    BY TableUnchanged DEF TypeOK, Handover, VerdictFormed
  <2> QED
    BY <2>1, <2>2, <2>3, <2>4, <2>5 DEF IInv
<1>4. CASE ConnectFails
  <2> USE <1>4 DEF ConnectFails, testVars, scanVars, tableVars, verdictVars, pollVars
  <2>1. TypeOK'
    <3>1. cnn' \in 0 .. CNN_NUM
      BY DEF TypeOK, Attempts
    <3> QED
      BY <3>1 DEF TypeOK
  <2>2. Handover'
    BY DEF TypeOK, Handover
  <2>3. Attempts'
    BY TableUnchanged DEF TypeOK, Handover, Attempts, GivesUpOnlyAfterRetries
  <2>4. TableFromReport'
    BY TableUnchanged
  <2>5. VerdictFormed'
    BY TableUnchanged DEF TypeOK, Handover, VerdictFormed
  <2> QED
    BY <2>1, <2>2, <2>3, <2>4, <2>5 DEF IInv
<1>5. CASE FinishOpen
  <2> USE <1>5 DEF FinishOpen, testVars, scanVars, tableVars, verdictVars,
                   pollVars
  <2>1. TypeOK'
    <3>1. g_sem' \in 0 .. 1
      BY DEF TypeOK, Handover
    <3>2. sAPNum' \in -2 .. WIFI_MAX_AP
      BY TableAssumption
    <3>3. epc' \in {"none", "loop"}
      OBVIOUS
    <3> QED
      BY <3>1, <3>2, <3>3 DEF TypeOK
  <2>2. Handover'
    BY DEF TypeOK, Handover
  <2>3. Attempts'
    BY DEF TypeOK, Handover, Attempts, GivesUpOnlyAfterRetries
  <2>4. TableFromReport'
    BY NoTable
  <2>5. VerdictFormed'
    BY DEF TypeOK, Handover, VerdictFormed
  <2> QED
    BY <2>1, <2>2, <2>3, <2>4, <2>5 DEF IInv
<1>6. CASE BeginScan
  <2> USE <1>6 DEF BeginScan, testVars, scanVars, tableVars, verdictVars, pollVars
  <2>1. TypeOK'
    <3>1. retryNum' \in 0 .. SCAN_RETRY
      BY DEF TypeOK
    <3>2. spc' \in {"none", "scan", "lock", "wait", "fetch", "finish", "post"}
      BY DEF TypeOK
    <3>3. sStatus' \subseteq {"OPENED", "SCANNING", "SCAN_END"}
      BY DEF TypeOK
    <3> QED
      BY <3>1, <3>2, <3>3 DEF TypeOK
  <2>2. Handover'
    BY DEF TypeOK, Handover
  <2>3. Attempts'
    BY TableUnchanged DEF TypeOK, Handover, Attempts, GivesUpOnlyAfterRetries
  <2>4. TableFromReport'
    BY TableUnchanged
  <2>5. VerdictFormed'
    BY TableUnchanged DEF TypeOK, Handover, VerdictFormed
  <2> QED
    BY <2>1, <2>2, <2>3, <2>4, <2>5 DEF IInv
<1>7. CASE ScanDone
  <2> USE <1>7 DEF ScanDone, testVars, scanVars, tableVars, verdictVars, pollVars
  <2>1. TypeOK'
    BY DEF TypeOK
  <2>2. Handover'
    BY DEF TypeOK, Handover
  <2>3. Attempts'
    BY TableUnchanged DEF TypeOK, Handover, Attempts, GivesUpOnlyAfterRetries
  <2>4. TableFromReport'
    BY TableUnchanged
  <2>5. VerdictFormed'
    BY TableUnchanged DEF TypeOK, Handover, VerdictFormed
  <2> QED
    BY <2>1, <2>2, <2>3, <2>4, <2>5 DEF IInv
<1>8. CASE Verdict
  <2> USE <1>8 DEF Verdict, testVars, scanVars, tableVars, verdictVars, pollVars
  <2>1. TypeOK'
    BY DEF TypeOK, Judged
  <2>2. Handover'
    BY DEF TypeOK, Handover
  <2>3. Attempts'
    BY TableUnchanged DEF TypeOK, Handover, Attempts, GivesUpOnlyAfterRetries
  <2>4. TableFromReport'
    BY TableUnchanged
  <2>5. VerdictFormed'
    BY TableUnchanged, VerdictAssumption
    DEF TypeOK, Handover, VerdictFormed, Judged, LastHitStrong
  <2> QED
    BY <2>1, <2>2, <2>3, <2>4, <2>5 DEF IInv
<1>9. CASE TestOver
  <2> USE <1>9 DEF TestOver, testVars, scanVars, tableVars, verdictVars, pollVars
  <2>1. TypeOK'
    BY DEF TypeOK
  <2>2. Handover'
    BY DEF TypeOK, Handover
  <2>3. Attempts'
    BY TableUnchanged DEF TypeOK, Handover, Attempts, GivesUpOnlyAfterRetries
  <2>4. TableFromReport'
    BY TableUnchanged
  <2>5. VerdictFormed'
    BY TableUnchanged DEF TypeOK, Handover, VerdictFormed
  <2> QED
    BY <2>1, <2>2, <2>3, <2>4, <2>5 DEF IInv
<1>10. CASE ConnectReturns
  <2> USE <1>10 DEF ConnectReturns, testVars, scanVars, tableVars, verdictVars, pollVars
  <2>1. TypeOK'
    BY DEF TypeOK
  <2>2. Handover'
    BY DEF TypeOK, Handover
  <2>3. Attempts'
    BY TableUnchanged DEF TypeOK, Handover, Attempts, GivesUpOnlyAfterRetries
  <2>4. TableFromReport'
    BY TableUnchanged
  <2>5. VerdictFormed'
    BY TableUnchanged DEF TypeOK, Handover, VerdictFormed
  <2> QED
    BY <2>1, <2>2, <2>3, <2>4, <2>5 DEF IInv
<1>11. CASE ScanRefused
  <2> USE <1>11 DEF ScanRefused, testVars, verdictVars, pollVars
  <2>0. sAPNum' = -2 /\ sAPs' = sAPs /\ retryNum' = retryNum - 1
        /\ spc' = IF Hits' # {} \/ retryNum' = 0 THEN "finish" ELSE "scan"
    BY DEF EndAttempt
  <2>1. TypeOK'
    <3>1. retryNum' \in 0 .. SCAN_RETRY
      BY <2>0 DEF TypeOK, Attempts
    <3>2. sAPNum' \in -2 .. WIFI_MAX_AP
      BY <2>0, TableAssumption
    <3> QED
      BY <2>0, <3>1, <3>2 DEF TypeOK
  <2>2. Handover'
    BY <2>0 DEF TypeOK, Handover
  <2>3. Attempts'
    BY <2>0 DEF TypeOK, Handover, Attempts, GivesUpOnlyAfterRetries
  <2>4. TableFromReport'
    BY <2>0, NoTable
  <2>5. VerdictFormed'
    BY <2>0 DEF TypeOK, Handover, VerdictFormed
  <2> QED
    BY <2>1, <2>2, <2>3, <2>4, <2>5 DEF IInv
<1>12. CASE ScanAccepted
  <2> USE <1>12 DEF ScanAccepted, testVars, scanVars, tableVars, verdictVars, pollVars
  <2>1. TypeOK'
    BY DEF TypeOK
  <2>2. Handover'
    BY DEF TypeOK, Handover
  <2>3. Attempts'
    BY TableUnchanged DEF TypeOK, Handover, Attempts, GivesUpOnlyAfterRetries
  <2>4. TableFromReport'
    BY TableUnchanged
  <2>5. VerdictFormed'
    BY TableUnchanged DEF TypeOK, Handover, VerdictFormed
  <2> QED
    BY <2>1, <2>2, <2>3, <2>4, <2>5 DEF IInv
<1>13. CASE WaitEvent
  <2> USE <1>13 DEF WaitEvent, testVars, scanVars, tableVars, verdictVars, pollVars
  <2>1. TypeOK'
    BY DEF TypeOK
  <2>2. Handover'
    BY DEF TypeOK, Handover
  <2>3. Attempts'
    BY TableUnchanged DEF TypeOK, Handover, Attempts, GivesUpOnlyAfterRetries
  <2>4. TableFromReport'
    BY TableUnchanged
  <2>5. VerdictFormed'
    BY TableUnchanged DEF TypeOK, Handover, VerdictFormed
  <2> QED
    BY <2>1, <2>2, <2>3, <2>4, <2>5 DEF IInv
<1>14. CASE WaitReturns
  <2> USE <1>14 DEF WaitReturns, testVars, scanVars, tableVars, verdictVars, pollVars
  <2>1. TypeOK'
    BY DEF TypeOK
  <2>2. Handover'
    BY DEF TypeOK, Handover
  <2>3. Attempts'
    BY TableUnchanged DEF TypeOK, Handover, Attempts, GivesUpOnlyAfterRetries
  <2>4. TableFromReport'
    BY TableUnchanged
  <2>5. VerdictFormed'
    BY TableUnchanged DEF TypeOK, Handover, VerdictFormed
  <2> QED
    BY <2>1, <2>2, <2>3, <2>4, <2>5 DEF IInv
<1>15. CASE ResultsRefused
  <2> USE <1>15 DEF ResultsRefused, testVars, verdictVars, pollVars
  <2>0. sAPNum' = -2 /\ sAPs' = sAPs /\ retryNum' = retryNum - 1
        /\ spc' = IF Hits' # {} \/ retryNum' = 0 THEN "finish" ELSE "scan"
    BY DEF EndAttempt
  <2>1. TypeOK'
    <3>1. retryNum' \in 0 .. SCAN_RETRY
      BY <2>0 DEF TypeOK, Attempts
    <3>2. sAPNum' \in -2 .. WIFI_MAX_AP
      BY <2>0, TableAssumption
    <3> QED
      BY <2>0, <3>1, <3>2 DEF TypeOK
  <2>2. Handover'
    BY <2>0 DEF TypeOK, Handover
  <2>3. Attempts'
    BY <2>0 DEF TypeOK, Handover, Attempts, GivesUpOnlyAfterRetries
  <2>4. TableFromReport'
    BY <2>0, NoTable
  <2>5. VerdictFormed'
    BY <2>0 DEF TypeOK, Handover, VerdictFormed
  <2> QED
    BY <2>1, <2>2, <2>3, <2>4, <2>5 DEF IInv
<1>16. CASE ResultsRead
  <2> USE <1>16 DEF ResultsRead, testVars, verdictVars, pollVars
  <2>0. PICK t \in Tables :
          EndAttempt(FittingLines(t),
                     [i \in 1 .. WIFI_MAX_AP |->
                        IF i <= FittingLines(t) THEN t[i] ELSE sAPs[i]])
    OBVIOUS
  <2> DEFINE num == FittingLines(t)
  <2>t. t \in Seq(AP) /\ WIFI_MAX_AP \in Nat \ {0}
    BY TableAssumption
  <2>n. num \in 0 .. WIFI_MAX_AP /\ num <= Len(t)
          /\ (num = Len(t) \/ num = WIFI_MAX_AP)
    BY <2>t DEF FittingLines
  <2>a. /\ sAPNum' = num
        /\ sAPs' = [i \in 1 .. WIFI_MAX_AP |->
                      IF i <= num THEN t[i] ELSE sAPs[i]]
        /\ retryNum' = retryNum - 1
        /\ spc' = IF Hits' # {} \/ retryNum' = 0 THEN "finish" ELSE "scan"
    BY <2>0 DEF EndAttempt
  <2>e. \A i \in 1 .. WIFI_MAX_AP : i <= num => t[i] \in AP
    BY <2>t, <2>n
  <2> HIDE DEF num
  <2>f. sAPs' \in [1 .. WIFI_MAX_AP -> AP]
    BY <2>a, <2>e DEF TypeOK
  <2>1. TypeOK'
    BY <2>a, <2>f, <2>n, <2>t DEF TypeOK, Attempts
  <2>2. Handover'
    BY <2>a, <2>n DEF TypeOK, Handover
  <2>3. Attempts'
    BY <2>a DEF TypeOK, Handover, Attempts, GivesUpOnlyAfterRetries
  <2>4. TableFromReport'
    BY <2>a, <2>n, <2>t DEF TableFromReport
  <2>5. VerdictFormed'
    BY <2>a DEF TypeOK, Handover, VerdictFormed
  <2> QED
    BY <2>1, <2>2, <2>3, <2>4, <2>5 DEF IInv
<1>17. CASE FinishScan
  <2> USE <1>17 DEF FinishScan, testVars, scanVars, tableVars, verdictVars, pollVars
  <2>1. TypeOK'
    BY DEF TypeOK
  <2>2. Handover'
    BY DEF TypeOK, Handover
  <2>3. Attempts'
    BY TableUnchanged DEF TypeOK, Handover, Attempts, GivesUpOnlyAfterRetries
  <2>4. TableFromReport'
    BY TableUnchanged
  <2>5. VerdictFormed'
    BY TableUnchanged DEF TypeOK, Handover, VerdictFormed
  <2> QED
    BY <2>1, <2>2, <2>3, <2>4, <2>5 DEF IInv
<1>18. CASE PostScan
  <2> USE <1>18 DEF PostScan, testVars, scanVars, tableVars, verdictVars, pollVars
  <2>1. TypeOK'
    BY DEF TypeOK, Handover
  <2>2. Handover'
    BY DEF TypeOK, Handover
  <2>3. Attempts'
    BY TableUnchanged DEF TypeOK, Handover, Attempts, GivesUpOnlyAfterRetries
  <2>4. TableFromReport'
    BY TableUnchanged
  <2>5. VerdictFormed'
    BY TableUnchanged DEF TypeOK, Handover, VerdictFormed
  <2> QED
    BY <2>1, <2>2, <2>3, <2>4, <2>5 DEF IInv
<1>19. CASE ScanResultsEvent
  <2> USE <1>19 DEF ScanResultsEvent, testVars, scanVars, tableVars, verdictVars, pollVars
  <2>1. TypeOK'
    BY DEF TypeOK
  <2>2. Handover'
    BY DEF TypeOK, Handover
  <2>3. Attempts'
    BY TableUnchanged DEF TypeOK, Handover, Attempts, GivesUpOnlyAfterRetries
  <2>4. TableFromReport'
    BY TableUnchanged
  <2>5. VerdictFormed'
    BY TableUnchanged DEF TypeOK, Handover, VerdictFormed
  <2> QED
    BY <2>1, <2>2, <2>3, <2>4, <2>5 DEF IInv
<1>20. CASE Terminating
  <2> USE <1>20 DEF Terminating, testVars, scanVars, tableVars, verdictVars, pollVars
  <2>1. TypeOK'
    BY DEF TypeOK
  <2>2. Handover'
    BY DEF TypeOK, Handover
  <2>3. Attempts'
    BY TableUnchanged DEF TypeOK, Handover, Attempts, GivesUpOnlyAfterRetries
  <2>4. TableFromReport'
    BY TableUnchanged
  <2>5. VerdictFormed'
    BY TableUnchanged DEF TypeOK, Handover, VerdictFormed
  <2> QED
    BY <2>1, <2>2, <2>3, <2>4, <2>5 DEF IInv
<1>21. CASE PollStart
  <2> USE <1>21 DEF PollStart, testVars, scanVars, tableVars, verdictVars, pollVars
  <2>1. TypeOK'
    BY DEF TypeOK
  <2>2. Handover'
    BY DEF TypeOK, Handover
  <2>3. Attempts'
    BY TableUnchanged DEF TypeOK, Handover, Attempts, GivesUpOnlyAfterRetries
  <2>4. TableFromReport'
    BY TableUnchanged
  <2>5. VerdictFormed'
    BY TableUnchanged DEF TypeOK, Handover, VerdictFormed
  <2> QED
    BY <2>1, <2>2, <2>3, <2>4, <2>5 DEF IInv
<1>22. CASE PollReturn
  <2> USE <1>22 DEF PollReturn, testVars, scanVars, tableVars, verdictVars, pollVars
  <2>1. TypeOK'
    BY DEF TypeOK
  <2>2. Handover'
    BY DEF TypeOK, Handover
  <2>3. Attempts'
    BY TableUnchanged DEF TypeOK, Handover, Attempts, GivesUpOnlyAfterRetries
  <2>4. TableFromReport'
    BY TableUnchanged
  <2>5. VerdictFormed'
    BY TableUnchanged DEF TypeOK, Handover, VerdictFormed
  <2> QED
    BY <2>1, <2>2, <2>3, <2>4, <2>5 DEF IInv
<1>23. CASE UNCHANGED vars
  <2> USE <1>23 DEF vars, testVars, scanVars, tableVars, verdictVars, pollVars
  <2>1. TypeOK'
    BY DEF TypeOK
  <2>2. Handover'
    BY DEF Handover
  <2>3. Attempts'
    BY TableUnchanged DEF Attempts, GivesUpOnlyAfterRetries
  <2>4. TableFromReport'
    BY TableUnchanged
  <2>5. VerdictFormed'
    BY TableUnchanged DEF VerdictFormed
  <2> QED
    BY <2>1, <2>2, <2>3, <2>4, <2>5 DEF IInv
<1> QED
  BY <1>1, <1>2, <1>3, <1>4, <1>5, <1>6, <1>7, <1>8, <1>9, <1>10, <1>11, <1>12, <1>13, <1>14, <1>15, <1>16, <1>17, <1>18, <1>19, <1>20, <1>21, <1>22, <1>23
  DEF Next, TestStep, ScanStep

-----------------------------------------------------------------------------
(* The theorems.                                                           *)

\* The strengthened invariant holds in every reachable state.
THEOREM Invariance == Spec => []IInv
  <1> QED
    BY InitIInv, NextIInv, PTL DEF Spec

\* Type correctness: the table is never over-counted and the semaphore of
\* eng_wifi_scan_start never holds more than one token.
THEOREM TypeCorrect == Spec => []TypeOK
  <1>1. IInv => TypeOK
    BY DEF IInv
  <1> QED
    BY <1>1, Invariance, PTL

\* test_wifi_start reads sStatus, sAPNum and sAPs only while no scan thread
\* exists: the two sem_wait calls are enough to keep the threads apart.
THEOREM Quiescence == Spec => []ScanQuiescent
  <1>1. IInv => ScanQuiescent
    BY DEF IInv, Handover, ScanQuiescent, TypeOK
  <1> QED
    BY <1>1, Invariance, PTL

\* The published verdict is a pass exactly when the last target network of
\* the table is above the threshold (wifi_result).
THEOREM VerdictCorrect == Spec => []VerdictExact
  <1>1. IInv => VerdictExact
    BY DEF IInv, VerdictFormed, VerdictExact
  <1> QED
    BY <1>1, Invariance, PTL

\* A published pass rests on a single report of wpa_supplicant, whatever the
\* attempts before it left in sAPs (wifiGetScanResult).
THEOREM OneReport == Spec => []PassFromOneReport
  <1>1. IInv => PassFromOneReport
    <2> SUFFICES ASSUME IInv, wifi_test_over_flag = 1,
                        wifi_test_result = ZIB_PASS
                 PROVE  /\ LastHitStrong
                        /\ \E t \in Tables :
                             /\ sAPNum = FittingLines(t)
                             /\ \A i \in 1 .. WIFI_MAX_AP :
                                  i <= sAPNum => sAPs[i] = t[i]
      BY DEF PassFromOneReport
    <2>1. LastHitStrong /\ sAPNum \in Int
      BY DEF IInv, VerdictFormed, TypeOK
    <2>2. sAPNum > 0
      <3>1. PICK i \in Hits : i \in 1 .. WIFI_MAX_AP /\ i <= sAPNum
        BY <2>1 DEF LastHitStrong, Hits
      <3> QED
        BY <2>1, <3>1, TableAssumption
    <2>3. PICK t \in Tables :
            /\ sAPNum <= Len(t)
            /\ sAPNum = Len(t) \/ sAPNum = WIFI_MAX_AP
            /\ \A i \in 1 .. WIFI_MAX_AP : i <= sAPNum => sAPs[i] = t[i]
      BY <2>2 DEF IInv, TableFromReport
    <2>4. Len(t) \in Nat /\ WIFI_MAX_AP \in Nat /\ sAPNum <= WIFI_MAX_AP
      BY TableAssumption DEF IInv, TypeOK
    <2>5. sAPNum = FittingLines(t)
      BY <2>1, <2>3, <2>4 DEF FittingLines
    <2> QED
      BY <2>1, <2>3, <2>5
  <1> QED
    BY <1>1, Invariance, PTL

\* wifiScanThread stops only with the target found or its attempts used up.
THEOREM Retries == Spec => []GivesUpOnlyAfterRetries
  <1>1. IInv => GivesUpOnlyAfterRetries
    BY DEF IInv, Attempts
  <1> QED
    BY <1>1, Invariance, PTL

\* A test begun with the adapter open never gets past its first sem_wait
\* (eng_wifi_scan_start).
THEOREM Retest == Spec => []RetestBlocked
  <1>1. IInv => RetestBlocked
    BY DEF IInv, Handover, TypeOK, RetestBlocked
  <1> QED
    BY <1>1, Invariance, PTL

\* From the moment wifi_test_over_flag is set, neither the verdict nor the
\* table it came from changes, so pollers all read the same answer.
VerdictFinal ==
  [][wifi_test_over_flag = 1 =>
       UNCHANGED <<wifi_test_over_flag, wifi_test_result, sAPNum, sAPs>>]_vars

\* A published verdict and its table never change again.
THEOREM Final == Spec => VerdictFinal
  <1>1. IInv /\ [Next]_vars =>
          [wifi_test_over_flag = 1 =>
             UNCHANGED <<wifi_test_over_flag, wifi_test_result,
                         sAPNum, sAPs>>]_vars
    <2> SUFFICES ASSUME IInv, [Next]_vars, wifi_test_over_flag = 1
                 PROVE  UNCHANGED <<wifi_test_over_flag, wifi_test_result,
                                    sAPNum, sAPs>>
      OBVIOUS
    <2>1. /\ spc = "none" /\ g_sem = 0
          /\ pc \in {"idle", "wait1", "connect"}
      BY DEF IInv, Handover, TypeOK
    <2>2. CASE UNCHANGED vars
      BY <2>2 DEF vars, tableVars, verdictVars
    <2>3. CASE Next
      BY <2>1, <2>3
      DEF Next, TestStep, ScanStep, StartTest, OpenOnce, OpenDriver, StartSupplicant,
          ConnectFails, FinishOpen, BeginScan, ScanDone, Verdict, TestOver,
          ConnectReturns, ScanRefused, ScanAccepted, WaitEvent, WaitReturns,
          ResultsRefused, ResultsRead, FinishScan, PostScan,
          ScanResultsEvent, Terminating, PollStart, PollReturn,
          testVars, tableVars, verdictVars
    <2> QED
      BY <2>2, <2>3
  <1> QED
    BY <1>1, Invariance, PTL DEF Spec, VerdictFinal

\* The threads of the scan implement the abstract factory test.
THEOREM Implements == Spec => ImplementsFactoryTest
  <1>1. Init => Abstract!Init
    BY DEF Init, Abstract!Init
  <1>2. IInv /\ [Next]_vars => [Abstract!Next]_(Abstract!vars)
    <2> SUFFICES ASSUME IInv, [Next]_vars
                 PROVE  [Abstract!Next]_(Abstract!vars)
      OBVIOUS
    <2> USE DEF Abstract!Next, Abstract!vars, Abstract!Begin,
                Abstract!GiveUp, Abstract!Report
    <2>0. TypeOK /\ Handover
      BY DEF IInv
    <2>1. CASE StartTest
      BY <2>1 DEF StartTest, OpenOnce, verdictVars
    <2>2. CASE OpenDriver
      BY <2>0, <2>2 DEF OpenDriver, verdictVars, Handover
    <2>3. CASE StartSupplicant
      BY <2>3 DEF StartSupplicant, verdictVars
    <2>4. CASE ConnectFails
      BY <2>0, <2>4 DEF ConnectFails, verdictVars, Handover
    <2>5. CASE FinishOpen
      BY <2>0, <2>5 DEF FinishOpen, Handover
    <2>6. CASE BeginScan \/ ScanDone
      BY <2>6 DEF BeginScan, ScanDone, verdictVars
    <2>7. CASE Verdict
      BY <2>0, <2>7 DEF Verdict, Handover
    <2>8. CASE TestOver
      BY <2>0, <2>8 DEF TestOver, Handover
    <2>9. CASE ConnectReturns
      BY <2>9 DEF ConnectReturns, verdictVars
    <2>10. CASE ScanStep
      BY <2>10 DEF ScanStep, ScanRefused, ScanAccepted, WaitEvent,
                   WaitReturns, ResultsRefused, ResultsRead, FinishScan,
                   PostScan, testVars, verdictVars
    <2>11. CASE ScanResultsEvent \/ Terminating \/ PollStart \/ PollReturn
      BY <2>11 DEF ScanResultsEvent, Terminating, PollStart, PollReturn,
                   testVars, verdictVars
    <2>12. CASE UNCHANGED vars
      BY <2>12 DEF vars, testVars, verdictVars
    <2> QED
      BY <2>1, <2>2, <2>3, <2>4, <2>5, <2>6, <2>7, <2>8, <2>9, <2>10,
         <2>11, <2>12 DEF Next, TestStep
  <1> QED
    BY <1>1, <1>2, Invariance, PTL
    DEF Spec, ImplementsFactoryTest, Abstract!Spec

-----------------------------------------------------------------------------
(* Why a test ends.                                                        *)

\* The test thread has a step to take: it waits only in its two sem_wait
\* calls, and there only for a token.
TestCan ==
  \/ pc \in {"open", "supplicant", "cnn", "verdict", "over", "connect"}
  \/ pc \in {"wait1", "wait2"} /\ g_sem > 0

\* Before there is a verdict a test is stuck only if pthread_create has failed
\* and left the bit SCANNING set; else its thread or the scan thread, which
\* never waits without a timeout, has a step to take.
NeverStuck ==
  pc # "idle" /\ wifi_test_over_flag = 0 =>
    \/ TestCan
    \/ spc # "none"
    \/ NoScanThread /\ "SCANNING" \in sStatus /\ FALSE \in SpawnOutcomes

\* No token is lost between the threads: where creating the scan thread cannot
\* fail, no test ever waits for one that does not come (eng_wifi_scan_start).
THEOREM NoTokenLost == Spec => []NeverStuck
  <1>1. Init => NeverStuck
    BY DEF Init, NeverStuck
  <1>2. IInv /\ NeverStuck /\ [Next]_vars => NeverStuck'
    <2> SUFFICES ASSUME IInv, NeverStuck, [Next]_vars
                 PROVE  NeverStuck'
      OBVIOUS
    <2> USE DEF NeverStuck, TestCan, NoScanThread
    <2>0. TypeOK /\ Handover
      BY DEF IInv
    <2>1. CASE StartTest
      BY <2>0, <2>1 DEF StartTest, OpenOnce, NoTokens, Handover, verdictVars
    <2>2. CASE OpenDriver \/ StartSupplicant \/ ConnectFails
      BY <2>0, <2>2 DEF OpenDriver, StartSupplicant, ConnectFails, TypeOK
    <2>3. CASE FinishOpen
      BY <2>0, <2>3 DEF FinishOpen, TypeOK
    <2>4. CASE BeginScan
      <3>1. wifi_test_over_flag = 0 /\ sStatus = {"OPENED"}
        BY <2>0, <2>4 DEF BeginScan, Handover, TypeOK
      <3>2. /\ "SCANNING" \in sStatus' /\ pc' = "wait2" /\ g_sem' = 0
            /\ \E spawned \in SpawnOutcomes :
                 spc' = IF spawned THEN "scan" ELSE "none"
        BY <2>0, <2>4, <3>1 DEF BeginScan, TypeOK
      <3>3. CASE spc' = "none"
        BY <3>2, <3>3, SpawnAssumption
      <3> QED
        BY <3>3
    <2>5. CASE ScanDone \/ Verdict \/ TestOver \/ ConnectReturns
      BY <2>0, <2>5 DEF ScanDone, Verdict, TestOver, ConnectReturns
    <2>6. CASE ScanRefused \/ ResultsRefused \/ ResultsRead
      BY <2>6 DEF ScanRefused, ResultsRefused, ResultsRead, EndAttempt
    <2>7. CASE ScanAccepted \/ WaitEvent \/ WaitReturns \/ FinishScan
                 \/ ScanResultsEvent
      BY <2>7 DEF ScanAccepted, WaitEvent, WaitReturns, FinishScan,
                  ScanResultsEvent
    <2>8. CASE PostScan
      <3>1. pc = "wait2" /\ pc' = pc /\ g_sem' = 1
        BY <2>0, <2>8 DEF PostScan, testVars, TypeOK, Handover
      <3> QED
        BY <3>1
    <2>9. CASE Terminating \/ PollStart \/ PollReturn \/ UNCHANGED vars
      BY <2>9 DEF Terminating, PollStart, PollReturn, vars, testVars, scanVars,
                  verdictVars
    <2> QED
      BY <2>1, <2>2, <2>3, <2>4, <2>5, <2>6, <2>7, <2>8, <2>9
      DEF Next, TestStep, ScanStep
  <1> QED
    BY <1>1, <1>2, Invariance, PTL DEF Spec

\* The steps the test thread has left; four for each attempt of a scan thread
\* it is still to start.
TestLeft ==
  CASE pc = "idle" -> 0 [] pc = "connect" -> 1 [] pc = "over" -> 2
    [] pc = "verdict" -> 3 [] pc = "wait2" -> 4
    [] pc = "wait1" -> 4 * SCAN_RETRY + 7
    [] pc = "cnn" -> 4 * SCAN_RETRY + 7 + cnn
    [] pc = "supplicant" -> 4 * SCAN_RETRY + CNN_NUM + 8
    [] pc = "open" -> 4 * SCAN_RETRY + CNN_NUM + 9

\* The steps the scan thread has left.
ScanLeft ==
  CASE spc = "none" -> 0 [] spc = "post" -> 1 [] spc = "finish" -> 2
    [] spc = "fetch" -> 4 * retryNum - 1 [] spc = "wait" -> 4 * retryNum
    [] spc = "lock" -> 4 * retryNum + 1 [] spc = "scan" -> 4 * retryNum + 2

StepsLeft == TestLeft + ScanLeft

\* A test takes at most 4 * SCAN_RETRY + CNN_NUM + 10 steps.
StepsBounded == StepsLeft \in 0 .. 4 * SCAN_RETRY + CNN_NUM + 9

\* Every step of a test uses up steps it has left, other steps use up none,
\* and the next test begins when there are none.
StepsUsedUp ==
  [][/\ TestStep \/ ScanStep \/ ScanResultsEvent => StepsLeft' < StepsLeft
     /\ Terminating \/ PollStart \/ PollReturn => StepsLeft' = StepsLeft
     /\ StartTest => StepsLeft = 0]_vars

\* A sum shrinks with either of its parts.
LEMMA SumLess ==
  ASSUME NEW a \in Nat, NEW b \in Nat, NEW c \in Int
  PROVE  /\ c < a => \A d : d = b => c + d < a + b
         /\ c < b => \A d : d = a => d + c < a + b
  OBVIOUS

LEMMA StepsCounted ==
  ASSUME IInv
  PROVE  /\ TestLeft \in Nat /\ ScanLeft \in Nat /\ StepsBounded
         /\ pc = "idle" => StepsLeft = 0
  <1>1. /\ cnn \in 0 .. CNN_NUM /\ retryNum \in 0 .. SCAN_RETRY
        /\ SCAN_RETRY \in Nat /\ CNN_NUM \in Nat
    BY RetryAssumption DEF IInv, TypeOK
  <1>2. TestLeft \in 0 .. 4 * SCAN_RETRY + CNN_NUM + 9
        /\ (pc = "wait2" => TestLeft = 4) /\ (pc = "idle" => TestLeft = 0)
    <2>1. pc \in {"idle", "open", "supplicant", "cnn", "wait1", "wait2",
                  "verdict", "over", "connect"}
      BY DEF IInv, TypeOK
    <2>2. CASE pc \in {"idle", "wait2", "verdict", "over", "connect"}
      <3>1. TestLeft \in 0 .. 4 /\ (pc = "wait2" => TestLeft = 4)
            /\ (pc = "idle" => TestLeft = 0)
        BY <2>2 DEF TestLeft
      <3>2. 0 .. 4 \subseteq 0 .. 4 * SCAN_RETRY + CNN_NUM + 9
        BY <1>1
      <3> QED
        BY <3>1, <3>2
    <2>3. CASE pc = "open"
      BY <1>1, <2>3 DEF TestLeft
    <2>4. CASE pc = "supplicant"
      BY <1>1, <2>4 DEF TestLeft
    <2>5. CASE pc = "cnn"
      BY <1>1, <2>5 DEF TestLeft
    <2>6. CASE pc = "wait1"
      BY <1>1, <2>6 DEF TestLeft
    <2> QED
      BY <2>1, <2>2, <2>3, <2>4, <2>5, <2>6
  <1>3. ScanLeft \in 0 .. 4 * SCAN_RETRY + 2
        /\ (spc = "none" => ScanLeft = 0)
    BY <1>1 DEF IInv, TypeOK, Attempts, ScanLeft
  <1>4. pc # "wait2" => spc = "none"
    BY DEF IInv, Handover
  <1> QED
    BY <1>1, <1>2, <1>3, <1>4 DEF StepsBounded, StepsLeft

\* One attempt less is four steps less.
LEMMA AttemptUsesSteps ==
  ASSUME IInv, spc \in {"scan", "fetch"}, UNCHANGED testVars,
         retryNum' = retryNum - 1,
         spc' = IF Hits' # {} \/ retryNum' = 0 THEN "finish" ELSE "scan"
  PROVE  StepsLeft' < StepsLeft
  <1>1. retryNum \in Nat /\ retryNum > 0
    BY RetryAssumption DEF IInv, TypeOK, Attempts
  <1>2. TestLeft \in Nat /\ TestLeft' = TestLeft
    BY StepsCounted DEF testVars, TestLeft
  <1>3. ScanLeft \in Nat /\ ScanLeft' \in Int /\ ScanLeft' < ScanLeft
    BY <1>1, StepsCounted DEF ScanLeft
  <1> QED
    BY <1>2, <1>3, SumLess, Zenon DEF StepsLeft

\* A test is a bounded number of steps, whatever is refused and however often
\* the waits return early; with NoTokenLost this is why it ends.
THEOREM BoundedTest == Spec => []StepsBounded /\ StepsUsedUp
  <1>1. IInv => StepsBounded
    BY StepsCounted
  <1>2. IInv /\ [Next]_vars =>
          [/\ TestStep \/ ScanStep \/ ScanResultsEvent =>
                StepsLeft' < StepsLeft
           /\ Terminating \/ PollStart \/ PollReturn => StepsLeft' = StepsLeft
           /\ StartTest => StepsLeft = 0]_vars
    <2> SUFFICES ASSUME IInv
                 PROVE  /\ TestStep \/ ScanStep \/ ScanResultsEvent =>
                             StepsLeft' < StepsLeft
                        /\ Terminating \/ PollStart \/ PollReturn =>
                             StepsLeft' = StepsLeft
                        /\ StartTest => StepsLeft = 0
      OBVIOUS
    <2>0. /\ TypeOK /\ Handover /\ Attempts
          /\ TestLeft \in Nat /\ ScanLeft \in Nat
          /\ SCAN_RETRY \in Nat \ {0} /\ CNN_NUM \in Nat \ {0}
          /\ retryNum \in Nat /\ cnn \in 0 .. CNN_NUM
      BY StepsCounted, RetryAssumption DEF IInv, TypeOK
    <2>1. ASSUME OpenDriver \/ StartSupplicant \/ ConnectFails \/ FinishOpen
                   \/ ScanDone \/ Verdict \/ TestOver \/ ConnectReturns
          PROVE  StepsLeft' < StepsLeft
      <3>1. UNCHANGED scanVars
        BY <2>1 DEF OpenDriver, StartSupplicant, ConnectFails, FinishOpen,
                    ScanDone, Verdict, TestOver, ConnectReturns
      <3>2. ScanLeft' = ScanLeft
        BY <3>1 DEF scanVars, ScanLeft
      <3>3. TestLeft' \in Int /\ TestLeft' < TestLeft
        <4>1. CASE OpenDriver
          BY <2>0, <4>1 DEF OpenDriver, TestLeft
        <4>4. CASE StartSupplicant
          BY <2>0, <4>4 DEF StartSupplicant, TestLeft
        <4>2. CASE ConnectFails \/ FinishOpen
          BY <2>0, <4>2 DEF ConnectFails, FinishOpen, TestLeft, Attempts
        <4>3. CASE ScanDone \/ Verdict \/ TestOver \/ ConnectReturns
          BY <2>0, <4>3 DEF ScanDone, Verdict, TestOver, ConnectReturns,
                            TestLeft
        <4> QED
          BY <2>1, <4>1, <4>2, <4>3, <4>4
      <3> QED
        BY <2>0, <3>2, <3>3, SumLess, Zenon DEF StepsLeft
    <2>2. ASSUME BeginScan PROVE StepsLeft' < StepsLeft
      <3>1. spc = "none" /\ pc = "wait1" /\ pc' = "wait2"
        BY <2>0, <2>2 DEF BeginScan, Handover
      <3>2. ScanLeft' = 0 \/ ScanLeft' = 4 * SCAN_RETRY + 2
        <4>1. CASE sStatus \cap {"SCANNING", "SCAN_END"} = {}
          BY <2>0, <2>2, <4>1 DEF BeginScan, ScanLeft
        <4>2. CASE sStatus \cap {"SCANNING", "SCAN_END"} # {}
          BY <2>2, <3>1, <4>2 DEF BeginScan, scanVars, ScanLeft
        <4> QED
          BY <4>1, <4>2
      <3>3. TestLeft = 4 * SCAN_RETRY + 7 /\ TestLeft' = 4 /\ ScanLeft = 0
        BY <3>1 DEF TestLeft, ScanLeft
      <3>4. StepsLeft = 4 * SCAN_RETRY + 7
            /\ (StepsLeft' = 4 \/ StepsLeft' = 4 * SCAN_RETRY + 6)
        BY <2>0, <3>2, <3>3 DEF StepsLeft
      <3> QED
        BY <2>0, <3>4
    <2>3. ASSUME ScanRefused \/ ResultsRefused \/ ResultsRead
          PROVE  StepsLeft' < StepsLeft
      BY <2>3, AttemptUsesSteps
      DEF ScanRefused, ResultsRefused, ResultsRead, EndAttempt
    <2>4. ASSUME ScanAccepted \/ WaitEvent \/ WaitReturns \/ FinishScan
                   \/ PostScan \/ ScanResultsEvent
          PROVE  StepsLeft' < StepsLeft
      <3>1. UNCHANGED <<testVars, retryNum>>
        BY <2>4 DEF ScanAccepted, WaitEvent, WaitReturns, FinishScan,
                    PostScan, ScanResultsEvent
      <3>2. TestLeft' = TestLeft
        BY <3>1 DEF testVars, TestLeft
      <3>3. ScanLeft' \in Int /\ ScanLeft' < ScanLeft
        BY <2>0, <2>4, <3>1
        DEF ScanAccepted, WaitEvent, WaitReturns, FinishScan, PostScan,
            ScanResultsEvent, ScanLeft
      <3> QED
        BY <2>0, <3>2, <3>3, SumLess, Zenon DEF StepsLeft
    <2>5. ASSUME Terminating \/ PollStart \/ PollReturn
          PROVE  StepsLeft' = StepsLeft
      <3>1. UNCHANGED <<testVars, scanVars>>
        BY <2>5 DEF Terminating, PollStart, PollReturn
      <3> QED
        BY <3>1 DEF testVars, scanVars, StepsLeft, TestLeft, ScanLeft
    <2>6. ASSUME StartTest PROVE StepsLeft = 0
      BY <2>6, StepsCounted DEF StartTest
    <2> QED
      BY <2>1, <2>2, <2>3, <2>4, <2>5, <2>6 DEF TestStep, ScanStep
  <1> QED
    BY <1>1, <1>2, Invariance, PTL DEF Spec, StepsUsedUp

\* Entering the connecting half is the step that publishes the first verdict.
JoinsOnce ==
  [][pc # "connect" /\ pc' = "connect" =>
       wifi_test_over_flag = 0 /\ wifi_test_over_flag' = 1]_vars

\* A process joins a network at most once, since a published verdict stays:
\* the state WifiConnect starts from is the only one (test_wifi_start).
THEOREM OneJoin == Spec => JoinsOnce /\ VerdictFinal
  <1>1. IInv /\ [Next]_vars =>
          [pc # "connect" /\ pc' = "connect" =>
             wifi_test_over_flag = 0 /\ wifi_test_over_flag' = 1]_vars
    <2> SUFFICES ASSUME IInv, [Next]_vars, pc # "connect", pc' = "connect"
                 PROVE  wifi_test_over_flag = 0 /\ wifi_test_over_flag' = 1
      OBVIOUS
    <2>1. ~ UNCHANGED vars
      BY DEF vars, testVars
    <2>2. TestOver
      BY <2>1
      DEF Next, TestStep, ScanStep, StartTest, OpenOnce, OpenDriver,
          StartSupplicant, ConnectFails, FinishOpen, BeginScan, ScanDone,
          Verdict, ConnectReturns, ScanRefused, ScanAccepted, WaitEvent,
          WaitReturns, ResultsRefused, ResultsRead, FinishScan, PostScan,
          ScanResultsEvent, Terminating, PollStart, PollReturn, testVars
    <2> QED
      BY <2>2 DEF TestOver, IInv, Handover
  <1> QED
    BY <1>1, Invariance, Final, PTL DEF Spec, JoinsOnce
=============================================================================
