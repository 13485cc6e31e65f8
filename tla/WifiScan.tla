------------------------------ MODULE WifiScan ------------------------------
(***************************************************************************)
(* The scanning half of the WiFi factory test, src/ls_wifi_test.c.         *)
(*                                                                         *)
(* wifi_test spawns the test thread (eng_wifi_start), which opens the      *)
(* driver and wpa_supplicant, spawns the event loop, and then hands over   *)
(* twice through the semaphore g_sem: once from eng_wifi_open to itself,   *)
(* once from the scan thread (wifiScanThread) it starts.  The scan thread  *)
(* asks for a scan up to SCAN_RETRY times, waits each time on sCondEvent   *)
(* for the event loop or for a timeout, and reads the table of access      *)
(* points.  A poller (get_wifi_test_result) spins on wifi_test_over_flag   *)
(* and reads the verdict.                                                  *)
(*                                                                         *)
(* One test thread exists at a time: callers start a test only when the    *)
(* previous one has returned.  sem_init on a semaphore another thread      *)
(* waits on is undefined, so overlapping tests have no meaning to model.   *)
(***************************************************************************)
EXTENDS Integers, Sequences, FiniteSets

CONSTANTS WIFI_MAX_AP,      \* size of the table sAPs
          SCAN_RETRY,       \* retryNum in wifiScanThread
          CNN_NUM,          \* cnn_num in eng_wifi_open
          SIG_LEVEL,        \* FACTORY_ZIB_SIG_LEVEL
          SSIDs,            \* the network names in the air
          Tables,           \* the scan reports wpa_supplicant may give
          ZIB_PASS, ZIB_FAIL,
          SpawnOutcomes,    \* whether pthread_create may succeed, may fail
          MaxTests          \* bound: calls of wifi_test

\* The target network, FACTORY_ZIB_WIFI_SSID.
ZIB_SSID == "zib"

\* The name of an entry memset has cleared.
NoName == "none"

\* An access point: smac and frequency decide nothing and are left out.
AP == [name : SSIDs \cup {NoName}, sig_level : Int]

\* A table entry cleared by memset.
NoAP == [name |-> NoName, sig_level |-> 0]

ASSUME TableAssumption ==
  /\ WIFI_MAX_AP \in Nat \ {0}
  /\ ZIB_SSID \in SSIDs /\ NoName \notin SSIDs
  /\ Tables \subseteq Seq(AP)

ASSUME RetryAssumption ==
  /\ SCAN_RETRY \in Nat \ {0}
  /\ CNN_NUM \in Nat \ {0}
  /\ SIG_LEVEL \in Int
  /\ MaxTests \in Nat

\* The verdicts of type.h; test_wifi_start returns ZIB_FAIL where eng_wifi_start
\* takes every value of at least 1 for a pass.
ASSUME VerdictAssumption ==
  /\ ZIB_PASS \in Int /\ ZIB_FAIL \in Int
  /\ ZIB_PASS # ZIB_FAIL
  /\ ZIB_FAIL < 1

ASSUME SpawnAssumption ==
  SpawnOutcomes \subseteq BOOLEAN /\ SpawnOutcomes # {}

VARIABLES
  pc,                   \* where the test thread is
  tests,                \* calls of wifi_test so far
  cnn,                  \* cnn_num in eng_wifi_open
  driver,               \* is the wlan driver loaded?
  spc,                  \* where the scan thread is
  retryNum,             \* retryNum in wifiScanThread
  epc,                  \* is the event loop running?
  g_sem,                \* value of the semaphore
  sStatus,              \* the status bits that are set
  sAPNum, sAPs,         \* the table of access points
  wifi_test_result, wifi_test_over_flag,
  qpc, qres             \* get_wifi_test_result: where it is, what it returned

testVars == <<pc, tests, cnn, driver>>
scanVars == <<spc, retryNum>>
tableVars == <<sAPNum, sAPs>>
verdictVars == <<wifi_test_result, wifi_test_over_flag>>
pollVars == <<qpc, qres>>
vars == <<testVars, scanVars, epc, g_sem, sStatus, tableVars, verdictVars,
          pollVars>>

-----------------------------------------------------------------------------
\* The entries strcmp finds to be the target network.
Hits == {i \in 1 .. WIFI_MAX_AP : i <= sAPNum /\ sAPs[i].name = ZIB_SSID}

\* wifi_result overwrites the verdict at every hit, so the last one decides.
LastHitStrong ==
  \E i \in Hits : /\ \A j \in Hits : j <= i
                  /\ sAPs[i].sig_level > SIG_LEVEL

\* Mutant of Judged: the threshold itself counts as strong.
JudgedAtThreshold ==
  IF \E i \in Hits : /\ \A j \in Hits : j <= i
                     /\ sAPs[i].sig_level >= SIG_LEVEL
  THEN ZIB_PASS ELSE IF Hits = {} THEN wifi_test_result ELSE ZIB_FAIL

\* The verdict wifi_result leaves behind: unchanged when there is no hit.
Judged == IF Hits = {} THEN wifi_test_result
          ELSE IF LastHitStrong THEN ZIB_PASS ELSE ZIB_FAIL

Init ==
  /\ pc = "idle" /\ tests = 0 /\ cnn = 0
  /\ driver \in BOOLEAN
  /\ spc = "none" /\ retryNum = 0
  /\ epc = "none"
  /\ g_sem = 0
  /\ sStatus = {}
  /\ sAPNum = 0 /\ sAPs = [i \in 1 .. WIFI_MAX_AP |-> NoAP]
  /\ wifi_test_result = ZIB_FAIL /\ wifi_test_over_flag = 0
  /\ qpc = "idle" /\ qres = 0

-----------------------------------------------------------------------------
(* The test thread.                                                        *)

\* The value sem_init gives g_sem, and a mutant that starts with a token.
OneToken == 1
NoTokens == 0

\* Where eng_wifi_scan_start goes next: it opens the adapter unless it is
\* open; and a mutant that opens it again.
OpenAgain == "open"
OpenOnce == IF "OPENED" \in sStatus THEN "wait1" ELSE "open"

\* wifi_test up to the branch in eng_wifi_scan_start: the semaphore is
\* reinitialised, and the adapter opened only if it is not open already.
StartTest ==
  /\ pc = "idle"
  /\ tests < MaxTests
  /\ tests' = tests + 1
  /\ g_sem' = NoTokens
  /\ pc' = OpenOnce
  /\ UNCHANGED <<cnn, driver, scanVars, epc, sStatus, tableVars, verdictVars,
                 pollVars>>

\* A loaded driver is closed first (wifiClose); loading it may fail, and then
\* test_wifi_start returns without setting wifi_test_over_flag.
OpenDriver ==
  /\ pc = "open"
  /\ IF driver
     THEN /\ sStatus' = {}
          /\ sAPNum' = 0
          /\ sAPs' = [i \in 1 .. WIFI_MAX_AP |-> NoAP]
     ELSE UNCHANGED <<sStatus, tableVars>>
  /\ driver' \in BOOLEAN
  /\ pc' = IF driver' THEN "supplicant" ELSE "idle"
  /\ UNCHANGED <<tests, cnn, scanVars, epc, g_sem, verdictVars, pollVars>>

\* wifi_start_supplicant: on failure the driver is unloaded and the code
\* goes on to connect all the same.
StartSupplicant ==
  /\ pc = "supplicant"
  /\ driver' \in BOOLEAN
  /\ cnn' = CNN_NUM
  /\ pc' = "cnn"
  /\ UNCHANGED <<tests, scanVars, epc, g_sem, sStatus, tableVars, verdictVars,
                 pollVars>>

\* One failed wifi_connect_to_supplicant; the last one closes everything.
ConnectFails ==
  /\ pc = "cnn"
  /\ cnn' = cnn - 1
  /\ IF cnn' = 0 THEN pc' = "idle" /\ driver' = FALSE
                 ELSE UNCHANGED <<pc, driver>>
  /\ UNCHANGED <<tests, scanVars, epc, g_sem, sStatus, tableVars, verdictVars,
                 pollVars>>

\* The connection is up: the state is reset, the event loop spawned, and
\* the first token posted.
FinishOpen ==
  /\ pc = "cnn"
  /\ sStatus' = {"OPENED"}
  /\ sAPNum' = -1
  /\ wifi_test_result' = ZIB_FAIL
  /\ \E spawned \in SpawnOutcomes : epc' = IF spawned THEN "loop" ELSE "none"
  /\ g_sem' = g_sem + 1
  /\ pc' = "wait1"
  /\ UNCHANGED <<tests, cnn, driver, scanVars, sAPs, wifi_test_over_flag,
                 pollVars>>

\* The first sem_wait, then eng_wifi_get_scan_result unless a scan is under
\* way or over: the bits change before the scan thread exists.
BeginScan ==
  /\ pc = "wait1"
  /\ g_sem > 0
  /\ g_sem' = g_sem - 1
  /\ IF sStatus \cap {"SCANNING", "SCAN_END"} = {}
     THEN /\ sStatus' = sStatus \cup {"SCANNING"}
          /\ \E spawned \in SpawnOutcomes :
               spc' = IF spawned THEN "scan" ELSE "none"
          /\ retryNum' = SCAN_RETRY
     ELSE UNCHANGED <<sStatus, scanVars>>
  /\ pc' = "wait2"
  /\ UNCHANGED <<tests, cnn, driver, epc, tableVars, verdictVars, pollVars>>

\* The second sem_wait: the scan thread has posted.
ScanDone ==
  /\ pc = "wait2"
  /\ g_sem > 0
  /\ g_sem' = g_sem - 1
  /\ pc' = "verdict"
  /\ UNCHANGED <<tests, cnn, driver, scanVars, epc, sStatus, tableVars,
                 verdictVars, pollVars>>

\* Mutant of Verdict: the flag is set before the verdict is complete.
VerdictAfterFlag ==
  /\ pc = "verdict"
  /\ wifi_test_result' = IF "SCAN_END" \in sStatus /\ sAPNum > 0
                         THEN Judged ELSE wifi_test_result
  /\ wifi_test_over_flag' = 1
  /\ pc' = "over"
  /\ UNCHANGED <<tests, cnn, driver, scanVars, epc, g_sem, sStatus, tableVars,
                 pollVars>>

\* wifi_result, only if the scan ended with a table.
Verdict ==
  /\ pc = "verdict"
  /\ wifi_test_result' = IF "SCAN_END" \in sStatus /\ sAPNum > 0
                         THEN Judged ELSE wifi_test_result
  /\ pc' = "over"
  /\ UNCHANGED <<tests, cnn, driver, scanVars, epc, g_sem, sStatus, tableVars,
                 wifi_test_over_flag, pollVars>>

\* wifi_test_over_flag is set; a pass goes on to join a network.
TestOver ==
  /\ pc = "over"
  /\ wifi_test_over_flag' = 1
  /\ pc' = IF "SCAN_END" \in sStatus /\ sAPNum > 0
                /\ wifi_test_result = ZIB_PASS
           THEN "connect" ELSE "idle"
  /\ UNCHANGED <<tests, cnn, driver, scanVars, epc, g_sem, sStatus, tableVars,
                 wifi_test_result, pollVars>>

\* The connecting half returns; module WifiConnect is about what it does.
ConnectReturns ==
  /\ pc = "connect"
  /\ pc' = "idle"
  /\ UNCHANGED <<tests, cnn, driver, scanVars, epc, g_sem, sStatus, tableVars,
                 verdictVars, pollVars>>

-----------------------------------------------------------------------------
(* The scan thread.                                                        *)

\* Mutant of EndAttempt: a shorter report does not lower the count.
EndAttemptKeepingCount(num, aps) ==
  /\ sAPNum' = IF num < sAPNum THEN sAPNum ELSE num
  /\ sAPs' = aps
  /\ retryNum' = retryNum - 1
  /\ spc' = IF Hits' # {} \/ retryNum' = 0 THEN "finish" ELSE "scan"

\* The end of one attempt that left num and aps in the table: break when the
\* target is there or the attempts are used up, else go round again.
EndAttempt(num, aps) ==
  /\ sAPNum' = num
  /\ sAPs' = aps
  /\ retryNum' = retryNum - 1
  /\ spc' = IF Hits' # {} \/ retryNum' = 0 THEN "finish" ELSE "scan"

\* "SCAN" is refused: wifiSyncScanAP returns -2 and the old entries stay.
ScanRefused ==
  /\ spc = "scan"
  /\ EndAttempt(-2, sAPs)
  /\ UNCHANGED <<testVars, epc, g_sem, sStatus, verdictVars, pollVars>>

\* "SCAN" is accepted; sMutxEvent is not taken yet, so an event that comes
\* now is missed.
ScanAccepted ==
  /\ spc = "scan"
  /\ spc' = "lock"
  /\ UNCHANGED <<testVars, retryNum, epc, g_sem, sStatus, tableVars,
                 verdictVars, pollVars>>

\* pthread_mutex_lock and the wait, which releases the mutex.
WaitEvent ==
  /\ spc = "lock"
  /\ spc' = "wait"
  /\ UNCHANGED <<testVars, retryNum, epc, g_sem, sStatus, tableVars,
                 verdictVars, pollVars>>

\* Mutant of WaitReturns: pthread_cond_wait, which never times out.
WaitForever == FALSE /\ UNCHANGED vars

\* pthread_cond_timedwait returns by itself, timed out or spuriously.
WaitReturns ==
  /\ spc = "wait"
  /\ spc' = "fetch"
  /\ UNCHANGED <<testVars, retryNum, epc, g_sem, sStatus, tableVars,
                 verdictVars, pollVars>>

\* "SCAN_RESULTS" fails: wifiGetScanResult returns -2.
ResultsRefused ==
  /\ spc = "fetch"
  /\ EndAttempt(-2, sAPs)
  /\ UNCHANGED <<testVars, epc, g_sem, sStatus, verdictVars, pollVars>>

\* How many lines of a report fit the table.
FittingLines(t) == IF Len(t) < WIFI_MAX_AP THEN Len(t) ELSE WIFI_MAX_AP

\* The first WIFI_MAX_AP lines of the report overwrite the table's prefix;
\* entries behind it keep what an earlier attempt left there.
ResultsRead ==
  /\ spc = "fetch"
  /\ \E t \in Tables :
       EndAttempt(FittingLines(t),
                  [i \in 1 .. WIFI_MAX_AP |->
                     IF i <= FittingLines(t) THEN t[i] ELSE sAPs[i]])
  /\ UNCHANGED <<testVars, epc, g_sem, sStatus, verdictVars, pollVars>>

\* The status bits of a finished scan.
FinishScan ==
  /\ spc = "finish"
  /\ sStatus' = (sStatus \ {"SCANNING"})
                  \cup (IF sAPNum > 0 THEN {"SCAN_END"} ELSE {})
  /\ spc' = "post"
  /\ UNCHANGED <<testVars, retryNum, epc, g_sem, tableVars, verdictVars,
                 pollVars>>

\* The scan thread's last step.
PostScan ==
  /\ spc = "post"
  /\ g_sem' = g_sem + 1
  /\ spc' = "none"
  /\ UNCHANGED <<testVars, retryNum, epc, sStatus, tableVars, verdictVars,
                 pollVars>>

-----------------------------------------------------------------------------
(* The event loop and the poller.                                          *)

\* A SCAN-RESULTS event: the signal wakes the scan thread if it waits and is
\* lost otherwise.  Taking sMutxEvent guards no data of the event loop's.
ScanResultsEvent ==
  /\ epc = "loop"
  /\ spc = "wait"
  /\ spc' = "fetch"
  /\ UNCHANGED <<testVars, retryNum, epc, g_sem, sStatus, tableVars,
                 verdictVars, pollVars>>

\* A TERMINATING event ends the event loop; nobody starts it again.
Terminating ==
  /\ epc = "loop"
  /\ epc' = "none"
  /\ UNCHANGED <<testVars, scanVars, g_sem, sStatus, tableVars, verdictVars,
                 pollVars>>

\* get_wifi_test_result is called.
PollStart ==
  /\ qpc = "idle"
  /\ qpc' = "polling"
  /\ UNCHANGED <<testVars, scanVars, epc, g_sem, sStatus, tableVars,
                 verdictVars, qres>>

\* It sees wifi_test_over_flag and returns the verdict.
PollReturn ==
  /\ qpc = "polling"
  /\ wifi_test_over_flag = 1
  /\ qres' = IF wifi_test_result = ZIB_PASS THEN 1 ELSE 0
  /\ qpc' = "idle"
  /\ UNCHANGED <<testVars, scanVars, epc, g_sem, sStatus, tableVars,
                 verdictVars>>

-----------------------------------------------------------------------------
\* The steps of the test thread once a test has been started.
TestStep == \/ OpenDriver \/ StartSupplicant \/ ConnectFails \/ FinishOpen
            \/ BeginScan \/ ScanDone \/ Verdict \/ TestOver \/ ConnectReturns

ScanStep == \/ ScanRefused \/ ScanAccepted \/ WaitEvent \/ WaitReturns
            \/ ResultsRefused \/ ResultsRead \/ FinishScan \/ PostScan

Next == \/ StartTest \/ TestStep \/ ScanStep
        \/ ScanResultsEvent \/ Terminating
        \/ PollStart \/ PollReturn

Spec == Init /\ [][Next]_vars

\* Threads that can run do run, timed waits time out, and the external calls
\* they make return.  Callers and wpa_supplicant's events are not fair.
Fairness == WF_vars(TestStep) /\ WF_vars(ScanStep) /\ WF_vars(PollReturn)

FairSpec == Spec /\ Fairness

-----------------------------------------------------------------------------
(* What makes the component correct.                                       *)

\* Every variable has its type: in particular the table is never over-counted,
\* and the semaphore is handed over one token at a time, so that no token of
\* one wait is left for the next (eng_wifi_open, wifiScanThread).
TypeOK ==
  /\ pc \in {"idle", "open", "supplicant", "cnn", "wait1", "wait2", "verdict",
             "over", "connect"}
  /\ tests \in 0 .. MaxTests
  /\ cnn \in 0 .. CNN_NUM
  /\ driver \in BOOLEAN
  /\ spc \in {"none", "scan", "lock", "wait", "fetch", "finish", "post"}
  /\ retryNum \in 0 .. SCAN_RETRY
  /\ epc \in {"none", "loop"}
  /\ g_sem \in 0 .. 1
  /\ sStatus \subseteq {"OPENED", "SCANNING", "SCAN_END"}
  /\ sAPNum \in -2 .. WIFI_MAX_AP
  /\ sAPs \in [1 .. WIFI_MAX_AP -> AP]
  /\ wifi_test_result \in {ZIB_PASS, ZIB_FAIL}
  /\ wifi_test_over_flag \in {0, 1}
  /\ qpc \in {"idle", "polling"} /\ qres \in {0, 1}

\* sAPs, sAPNum and sStatus are shared without a lock.  The semaphore alone
\* keeps the threads apart: whenever the test thread is past its second wait,
\* the scan thread is gone, no scan is marked as under way, and SCAN_END says
\* whether there is a table to judge (test_wifi_start).
ScanQuiescent ==
  pc \in {"verdict", "over", "connect"} =>
    /\ spc = "none"
    /\ g_sem = 0
    /\ "SCANNING" \notin sStatus
    /\ "SCAN_END" \in sStatus <=> sAPNum > 0

\* Once a verdict is out, it is a pass exactly when the scan ended and the
\* last target network in the table is strong enough; the table has not been
\* disturbed since (wifi_result, wifi_test_over_flag).
VerdictExact ==
  wifi_test_over_flag = 1 =>
    /\ wifi_test_result = ZIB_PASS <=> "SCAN_END" \in sStatus /\ LastHitStrong
    /\ pc = "connect" => wifi_test_result = ZIB_PASS

\* A pass is the evidence of one report of wpa_supplicant: the entries that
\* were judged are those of a single report, as many as fit.  Entries left in
\* sAPs by an earlier, longer report never count (wifiGetScanResult).
PassFromOneReport ==
  wifi_test_over_flag = 1 /\ wifi_test_result = ZIB_PASS =>
    /\ LastHitStrong
    /\ \E t \in Tables :
         /\ sAPNum = FittingLines(t)
         /\ \A i \in 1 .. WIFI_MAX_AP : i <= sAPNum => sAPs[i] = t[i]

\* The semaphore is reinitialised by every test, but only opening the adapter
\* posts the first token.  A test begun with the adapter open therefore
\* blocks in its first sem_wait for good: no second verdict is ever formed,
\* and pollers keep getting the first one (eng_wifi_scan_start).
RetestBlocked ==
  wifi_test_over_flag = 1 /\ pc \notin {"idle", "connect"} =>
    pc = "wait1" /\ g_sem = 0

\* No scan thread is there to post what the test thread waits for.
NoScanThread ==
  pc = "wait2" /\ spc = "none" /\ g_sem = 0

\* Every test begun before there is a verdict returns, with the adapter open
\* or not, whatever the driver and wpa_supplicant refuse.  Only a scan thread
\* that could not be created blocks it.  So a poller gets its answer if the
\* adapter is open: lost events cost a timeout, never the answer
\* (get_wifi_test_result).
FirstTestEnds ==
  /\ pc # "idle" /\ wifi_test_over_flag = 0 ~> pc = "idle" \/ NoScanThread
  /\ qpc = "polling" /\ "OPENED" \in sStatus ~> qpc = "idle" \/ NoScanThread

\* The scan as a factory test: it implements FactoryTest, with joining the
\* network counted as after the test.
Abstract ==
  INSTANCE FactoryTest WITH
    Verdicts <- {"pass", "fail"},
    Unknown <- "unknown",
    phase <- IF pc \in {"idle", "connect"} THEN "idle" ELSE "testing",
    verdict <- IF wifi_test_over_flag = 0 THEN "unknown"
               ELSE IF wifi_test_result = ZIB_PASS THEN "pass" ELSE "fail"

\* Every step of the threads is a step of FactoryTest or invisible to it.
ImplementsFactoryTest == Abstract!Spec
=============================================================================
