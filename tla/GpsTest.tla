------------------------------- MODULE GpsTest -------------------------------
(***************************************************************************)
(* The GPS factory test, src/gps_test/gps_test.c with the parts of         *)
(* src/gps_test/android_gps.c it calls.                                    *)
(*                                                                         *)
(* test_gps_start opens, initialises and starts the GPS HAL, spawns        *)
(* gps_processthread_show and joins it.  The HAL reports satellites by     *)
(* calling sv_status_callback on a thread of its own, which copies the     *)
(* report into sGpsSvStatus while the test thread may be reading it.  The  *)
(* test ends in gps_close, which stops the HAL and leaves the process.     *)
(* gps_close also is the handler of SIGINT: it interrupts whatever the     *)
(* main thread does, and, SIGINT being blocked there meanwhile, a second   *)
(* SIGINT runs it on the test thread.  Nothing takes the handler away when *)
(* test_gps_start returns.                                                 *)
(*                                                                         *)
(* A call into the HAL is one step; interrupting the middle of one is left *)
(* out, and so is a failing pthread_create.                                *)
(***************************************************************************)
EXTENDS Integers, FiniteSets

CONSTANTS GPS_MAX_SVS,          \* entries of sv_list
          GPS_TEST_TIME_OUT,    \* seconds
          Reports,              \* what the HAL may report
          Extensions,           \* the extensions a HAL may have
          MaxSignals,           \* bound: SIGINTs
          MaxClock              \* bound: seconds that are told apart

\* How many satellites are too few, and the weakest signal that counts.
MIN_SVS == 4
MIN_SNR == 35

\* A satellite report: how many of its entries are valid, and their strength.
SvStatus == [num_svs : 0 .. GPS_MAX_SVS, snr : [1 .. GPS_MAX_SVS -> Int]]

ASSUME ReportAssumption ==
  /\ GPS_MAX_SVS \in Nat \ {0}
  /\ Reports \subseteq SvStatus

ASSUME BoundAssumption ==
  /\ GPS_TEST_TIME_OUT \in Nat
  /\ MaxSignals \in Nat
  /\ MaxClock \in Nat /\ MaxClock > GPS_TEST_TIME_OUT

\* The activations of gps_close: the call at the end of test_gps_start, and
\* the signal handler on the main thread and on the test thread.
Closers == {"call", "onMain", "onTest"}

VARIABLES
  pc, ret,              \* where test_gps_start is, what it returned
  sGpsInterface,        \* is the pointer set?
  extensions,           \* the extension pointers that are set
  hal,                  \* the HAL: "off", "ready" or "started"
  misused,              \* has it been stopped or cleaned up out of turn?
  wpc, i, snr_count,    \* the test thread and its locals
  now,                  \* now_time - gOpenTime
  clock,                \* seconds since gOpenTime
  gps_result_type,
  sGpsSvStatus,
  copying, left,        \* the report being copied, the entries still to copy
  seen,                 \* reports the HAL has made
  cpc,                  \* where each activation of gps_close is
  signals,              \* SIGINTs so far
  exited                \* has the process ended?

mainVars == <<pc, ret, sGpsInterface, extensions>>
halVars == <<hal, misused>>
testVars == <<wpc, i, snr_count, now, gps_result_type>>
reportVars == <<copying, left, seen>>
closeVars == <<cpc, signals, exited>>
vars == <<mainVars, halVars, testVars, clock, sGpsSvStatus, reportVars,
          closeVars>>

-----------------------------------------------------------------------------
\* Entries of a cleared sGpsSvStatus.
NoSv == [num_svs |-> 0, snr |-> [k \in 1 .. GPS_MAX_SVS |-> 0]]

Init ==
  /\ pc = "signal" /\ ret = "none"
  /\ sGpsInterface = FALSE /\ extensions = {}
  /\ hal = "off" /\ misused = FALSE
  /\ wpc = "none" /\ i = 0 /\ snr_count = 0 /\ now = 0 /\ clock = 0
  /\ gps_result_type = "none"
  /\ sGpsSvStatus = NoSv
  /\ copying = NoSv /\ left = {} /\ seen = {}
  /\ cpc = [c \in Closers |-> "none"] /\ signals = 0 /\ exited = FALSE

\* Mutant of is_supported: the test is inverted.
not_supported == ~sGpsInterface

\* android_location_GpsLocationProvider_is_supported.
is_supported == sGpsInterface

\* A thread a handler runs on does nothing else; an ended process does nothing.
MainRuns == ~exited /\ cpc["onMain"] = "none"
TestRuns == ~exited /\ cpc["onTest"] = "none"

-----------------------------------------------------------------------------
(* test_gps_start.                                                         *)

\* signal(SIGINT, gps_close).
InstallHandler ==
  /\ MainRuns /\ pc = "signal"
  /\ pc' = "open"
  /\ UNCHANGED <<ret, sGpsInterface, extensions, halVars, testVars, clock,
                 sGpsSvStatus, reportVars, closeVars>>

\* class_init_native: the HAL module is opened, or is not there.
OpenHal ==
  /\ MainRuns /\ pc = "open"
  /\ sGpsInterface' \in BOOLEAN
  /\ pc' = IF sGpsInterface' THEN "extend" ELSE "support"
  /\ UNCHANGED <<ret, extensions, halVars, testVars, clock, sGpsSvStatus,
                 reportVars, closeVars>>

\* The rest of class_init_native: the extensions the HAL has.
GetExtensions ==
  /\ MainRuns /\ pc = "extend"
  /\ extensions' \in SUBSET Extensions
  /\ pc' = "support"
  /\ UNCHANGED <<ret, sGpsInterface, halVars, testVars, clock, sGpsSvStatus,
                 reportVars, closeVars>>

\* Not supported: -1.
CheckSupported ==
  /\ MainRuns /\ pc = "support"
  /\ IF is_supported THEN pc' = "init" /\ UNCHANGED ret
                     ELSE pc' = "returned" /\ ret' = "-1"
  /\ UNCHANGED <<sGpsInterface, extensions, halVars, testVars, clock,
                 sGpsSvStatus, reportVars, closeVars>>

\* The HAL is initialised; an XTRA extension that fails is dropped.
InitHal ==
  /\ MainRuns /\ pc = "init"
  /\ hal' = "ready"
  /\ extensions' \in {extensions, extensions \ {"xtra"}}
  /\ pc' = "start"
  /\ UNCHANGED <<ret, sGpsInterface, misused, testVars, clock, sGpsSvStatus,
                 reportVars, closeVars>>

\* The HAL refuses init: the return value is 0.
InitFails ==
  /\ MainRuns /\ pc = "init"
  /\ pc' = "returned" /\ ret' = "0"
  /\ UNCHANGED <<sGpsInterface, extensions, halVars, testVars, clock,
                 sGpsSvStatus, reportVars, closeVars>>

\* Navigation starts.
StartHal ==
  /\ MainRuns /\ pc = "start"
  /\ hal' = "started"
  /\ pc' = "spawn"
  /\ UNCHANGED <<ret, sGpsInterface, extensions, misused, testVars, clock,
                 sGpsSvStatus, reportVars, closeVars>>

\* The HAL refuses start: -1, and the HAL stays initialised.
StartFails ==
  /\ MainRuns /\ pc = "start"
  /\ pc' = "returned" /\ ret' = "-1"
  /\ UNCHANGED <<sGpsInterface, extensions, halVars, testVars, clock,
                 sGpsSvStatus, reportVars, closeVars>>

\* pthread_create.
SpawnTest ==
  /\ MainRuns /\ pc = "spawn"
  /\ wpc' = "begin"
  /\ pc' = "join"
  /\ UNCHANGED <<ret, sGpsInterface, extensions, halVars, i, snr_count, now,
                 gps_result_type, clock, sGpsSvStatus, reportVars, closeVars>>

\* pthread_join returns, and gps_close is called.
JoinTest ==
  /\ MainRuns /\ pc = "join"
  /\ wpc = "done"
  /\ pc' = "close"
  /\ cpc' = [cpc EXCEPT !["call"] = "enter"]
  /\ UNCHANGED <<ret, sGpsInterface, extensions, halVars, testVars, clock,
                 sGpsSvStatus, reportVars, signals, exited>>

-----------------------------------------------------------------------------
(* gps_close.                                                              *)

\* Which activations can take a step: a handler on the main thread suspends
\* the call it interrupts.
CloserRuns(c) == ~exited /\ (c = "call" => cpc["onMain"] = "none")

\* Mutants of AfterEnter, AfterStop: cleanup before stop; no cleanup.
CleanupFirst == "cleanup"
ExitAtOnce == "exit"

\* What gps_close does once it has found an interface, and once it has stopped.
AfterEnter == "stop"
AfterStop == "cleanup"

\* is_supported: without an interface gps_close returns.
CloseEnter(c) ==
  /\ CloserRuns(c) /\ cpc[c] = "enter"
  /\ cpc' = [cpc EXCEPT ![c] = IF is_supported THEN AfterEnter ELSE "none"]
  /\ UNCHANGED <<mainVars, halVars, testVars, clock, sGpsSvStatus, reportVars,
                 signals, exited>>

\* The HAL is told to stop, started or not.
CloseStop(c) ==
  /\ CloserRuns(c) /\ cpc[c] = "stop"
  /\ misused' = (misused \/ hal # "started")
  /\ hal' = IF hal = "started" THEN "ready" ELSE hal
  /\ cpc' = [cpc EXCEPT ![c] = AfterStop]
  /\ UNCHANGED <<mainVars, testVars, clock, sGpsSvStatus, reportVars, signals,
                 exited>>

\* The HAL is cleaned up, ready or not.
CloseCleanup(c) ==
  /\ CloserRuns(c) /\ cpc[c] = "cleanup"
  /\ misused' = (misused \/ hal # "ready")
  /\ hal' = "off"
  /\ cpc' = [cpc EXCEPT ![c] = "exit"]
  /\ UNCHANGED <<mainVars, testVars, clock, sGpsSvStatus, reportVars, signals,
                 exited>>

\* exit(0).
CloseExit(c) ==
  /\ CloserRuns(c) /\ cpc[c] = "exit"
  /\ exited' = TRUE
  /\ UNCHANGED <<mainVars, halVars, testVars, clock, sGpsSvStatus, reportVars,
                 cpc, signals>>

Close(c) == CloseEnter(c) \/ CloseStop(c) \/ CloseCleanup(c) \/ CloseExit(c)

\* SIGINT: the main thread takes it unless it is in the handler already; then
\* the test thread does.
Sigint ==
  /\ ~exited /\ pc # "signal"
  /\ signals < MaxSignals
  /\ signals' = signals + 1
  /\ \/ /\ cpc["onMain"] = "none"
        /\ cpc' = [cpc EXCEPT !["onMain"] = "enter"]
     \/ /\ cpc["onMain"] # "none"
        /\ wpc \notin {"none", "done"} /\ cpc["onTest"] = "none"
        /\ cpc' = [cpc EXCEPT !["onTest"] = "enter"]
  /\ UNCHANGED <<mainVars, halVars, testVars, clock, sGpsSvStatus, reportVars,
                 exited>>

-----------------------------------------------------------------------------
(* gps_processthread_show.                                                 *)

\* The thread begins: gOpenTime is taken and num_svs cleared.
BeginTest ==
  /\ TestRuns /\ wpc = "begin"
  /\ sGpsSvStatus' = [sGpsSvStatus EXCEPT !.num_svs = 0]
  /\ wpc' = "loop"
  /\ UNCHANGED <<mainVars, halVars, i, snr_count, now, gps_result_type, clock,
                 reportVars, closeVars>>

\* Mutants of EnoughSvs and LoopTop: one satellite fewer will do; the time is
\* taken once.
EnoughWithFour == sGpsSvStatus.num_svs >= MIN_SVS

LoopTopWithoutTime ==
  /\ TestRuns /\ wpc = "loop"
  /\ wpc' = "svs"
  /\ UNCHANGED <<mainVars, halVars, i, snr_count, now, gps_result_type, clock,
                 sGpsSvStatus, reportVars, closeVars>>

\* num_svs is more than four.
EnoughSvs == sGpsSvStatus.num_svs > MIN_SVS

\* The head of the loop: the time is taken.
LoopTop ==
  /\ TestRuns /\ wpc = "loop"
  /\ now' = clock
  /\ wpc' = "svs"
  /\ UNCHANGED <<mainVars, halVars, i, snr_count, gps_result_type, clock,
                 sGpsSvStatus, reportVars, closeVars>>

\* The number of satellites is looked at.
CountSvs ==
  /\ TestRuns /\ wpc = "svs"
  /\ i' = 1
  /\ wpc' = IF EnoughSvs THEN "scan" ELSE "timeout"
  /\ UNCHANGED <<mainVars, halVars, snr_count, now, gps_result_type, clock,
                 sGpsSvStatus, reportVars, closeVars>>

\* Mutant of ScanSv: i <= num_svs, counted from zero.
ScanOneMore ==
  /\ TestRuns /\ wpc = "scan"
  /\ i <= sGpsSvStatus.num_svs + 1
  /\ i' = i + 1
  /\ UNCHANGED <<mainVars, halVars, wpc, snr_count, now, gps_result_type,
                 clock, sGpsSvStatus, reportVars, closeVars>>

\* One turn of the loop over the satellites: both the bound and the entry are
\* read as they are now.
ScanSv ==
  /\ TestRuns /\ wpc = "scan"
  /\ i <= sGpsSvStatus.num_svs
  /\ snr_count' = IF sGpsSvStatus.snr[i] >= MIN_SNR THEN snr_count + 1
                                                     ELSE snr_count
  /\ i' = i + 1
  /\ UNCHANGED <<mainVars, halVars, wpc, now, gps_result_type, clock,
                 sGpsSvStatus, reportVars, closeVars>>

\* Mutant of ScanEnd: no break after the success.
ScanEndWithoutBreak ==
  /\ TestRuns /\ wpc = "scan"
  /\ i > sGpsSvStatus.num_svs
  /\ gps_result_type' = IF snr_count > 0 THEN "success" ELSE gps_result_type
  /\ wpc' = "timeout"
  /\ UNCHANGED <<mainVars, halVars, i, snr_count, now, clock, sGpsSvStatus,
                 reportVars, closeVars>>

\* After that loop: one strong satellite is a success.
ScanEnd ==
  /\ TestRuns /\ wpc = "scan"
  /\ i > sGpsSvStatus.num_svs
  /\ IF snr_count > 0
     THEN gps_result_type' = "success" /\ wpc' = "linger"
     ELSE wpc' = "timeout" /\ UNCHANGED gps_result_type
  /\ UNCHANGED <<mainVars, halVars, i, snr_count, now, clock, sGpsSvStatus,
                 reportVars, closeVars>>

\* now_time-gOpenTime>GPS_TEST_TIME_OUT.
TimedOut == now > GPS_TEST_TIME_OUT

\* The other branch of the loop: a failure, or another second of testing.
CheckTimeout ==
  /\ TestRuns /\ wpc = "timeout"
  /\ gps_result_type' = IF TimedOut THEN "fail" ELSE "testing"
  /\ wpc' = IF TimedOut THEN "linger" ELSE "sleep"
  /\ UNCHANGED <<mainVars, halVars, i, snr_count, now, clock, sGpsSvStatus,
                 reportVars, closeVars>>

\* The thread sleeps once more and ends.
EndTest ==
  /\ TestRuns /\ wpc = "linger"
  /\ wpc' = "done"
  /\ UNCHANGED <<mainVars, halVars, i, snr_count, now, gps_result_type, clock,
                 sGpsSvStatus, reportVars, closeVars>>

\* A second passes, and with it sleep(1); seconds beyond MaxClock look alike.
Tick ==
  /\ ~exited /\ wpc \notin {"none", "begin", "done"}
  /\ clock' = IF clock < MaxClock THEN clock + 1 ELSE clock
  /\ wpc' = IF wpc = "sleep" THEN "loop" ELSE wpc
  /\ UNCHANGED <<mainVars, halVars, i, snr_count, now, gps_result_type,
                 sGpsSvStatus, reportVars, closeVars>>

-----------------------------------------------------------------------------
(* sv_status_callback.                                                     *)

\* Entry k of a report; the count of the valid ones is entry 0.
Field(r, k) == IF k = 0 THEN r.num_svs ELSE r.snr[k]

\* A started HAL reports.
ReportSvs ==
  /\ ~exited /\ hal = "started" /\ left = {}
  /\ copying' \in Reports
  /\ left' = {0} \cup {k \in 1 .. GPS_MAX_SVS :
                       Field(copying', k) # Field(sGpsSvStatus, k)}
  /\ seen' = seen \cup {copying'}
  /\ UNCHANGED <<mainVars, halVars, testVars, clock, sGpsSvStatus, closeVars>>

\* memcpy copies the entries in an order of its own, and the test thread reads
\* in between.  Nobody else writes them, so one that is in the table already
\* need not be copied; the count is cleared by a test that begins.
CopyField ==
  /\ ~exited
  /\ \E k \in left :
       /\ sGpsSvStatus' = IF k = 0
            THEN [sGpsSvStatus EXCEPT !.num_svs = copying.num_svs]
            ELSE [sGpsSvStatus EXCEPT !.snr[k] = copying.snr[k]]
       /\ left' = left \ {k}
  /\ UNCHANGED <<mainVars, halVars, testVars, clock, copying, seen, closeVars>>

-----------------------------------------------------------------------------
MainStep == \/ InstallHandler \/ OpenHal \/ GetExtensions \/ CheckSupported
            \/ InitHal \/ InitFails \/ StartHal \/ StartFails \/ SpawnTest
            \/ JoinTest

TestStep == \/ BeginTest \/ LoopTop \/ CountSvs \/ ScanSv \/ ScanEnd
            \/ CheckTimeout \/ EndTest

Next == \/ MainStep \/ TestStep \/ Tick
        \/ \E c \in Closers : Close(c)
        \/ Sigint \/ ReportSvs \/ CopyField

Spec == Init /\ [][Next]_vars

\* Threads and handlers run, HAL calls return and seconds pass; reports and
\* signals need not come.
Fairness == /\ WF_vars(MainStep) /\ WF_vars(TestStep) /\ WF_vars(Tick)
            /\ \A c \in Closers : WF_vars(Close(c))

FairSpec == Spec /\ Fairness

-----------------------------------------------------------------------------
(* What makes the test correct.                                            *)

\* Every variable has its type; in particular no entry beyond sv_list is read.
TypeOK ==
  /\ pc \in {"signal", "open", "extend", "support", "init", "start", "spawn",
             "join", "close", "returned"}
  /\ ret \in {"none", "-1", "0"}
  /\ sGpsInterface \in BOOLEAN /\ extensions \subseteq Extensions
  /\ hal \in {"off", "ready", "started"} /\ misused \in BOOLEAN
  /\ wpc \in {"none", "begin", "loop", "svs", "scan", "timeout", "sleep",
              "linger", "done"}
  /\ i \in 0 .. GPS_MAX_SVS + 1 /\ snr_count \in Nat
  /\ now \in 0 .. MaxClock /\ clock \in 0 .. MaxClock
  /\ gps_result_type \in {"none", "testing", "success", "fail"}
  /\ sGpsSvStatus \in SvStatus /\ copying \in SvStatus
  /\ left \subseteq 0 .. GPS_MAX_SVS /\ seen \subseteq Reports
  /\ cpc \in [Closers -> {"none", "enter", "stop", "cleanup", "exit"}]
  /\ signals \in 0 .. MaxSignals /\ exited \in BOOLEAN

\* The HAL is stopped and cleaned up in turn as long as no SIGINT comes;
\* gps_close as a handler does not ask how far test_gps_start is, nor whether
\* gps_close is running already.
MisuseNeedsSignal == misused => signals > 0

\* The process never ends with the HAL running, whatever handlers interrupted
\* or overtook each other; it does not end on SIGINT as long as there is no
\* HAL.  When test_gps_start returns, only a refused start leaves the HAL
\* initialised (gps_close, test_gps_start).
HalReleased ==
  /\ exited => hal = "off" /\ sGpsInterface
  /\ pc = "returned" /\ hal # "off" => hal = "ready" /\ ret = "-1"

\* A success rests on a report of more than four satellites and on a strong
\* one.  It need not be the same report: sGpsSvStatus is read while
\* sv_status_callback copies the next one into it.
PassEvidence ==
  gps_result_type = "success" =>
    /\ \E r \in seen : r.num_svs > MIN_SVS
    /\ \E r \in seen : \E k \in 1 .. GPS_MAX_SVS : r.snr[k] >= MIN_SNR

\* The GPS test as a factory test: the thread is the test, its result the
\* verdict, which nothing changes.
Abstract ==
  INSTANCE FactoryTest WITH
    Verdicts <- {"success", "fail"},
    Unknown <- "unknown",
    phase <- IF wpc \in {"none", "linger", "done"} THEN "idle" ELSE "testing",
    verdict <- IF gps_result_type \in {"success", "fail"} THEN gps_result_type
               ELSE "unknown"

\* Every step of the threads is a step of FactoryTest or invisible to it.
ImplementsFactoryTest == Abstract!Spec

\* Once spawned, the test ends the process: without satellites by its timeout.
TestEnds == wpc = "begin" ~> exited

\* A SIGINT taken while there is a HAL ends the process.
InterruptEnds == cpc["onMain"] = "enter" /\ sGpsInterface ~> exited
=============================================================================
