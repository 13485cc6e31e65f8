---------------------------- MODULE GpsTestProofs ----------------------------
(***************************************************************************)
(* Proofs about GpsTest for every size of the satellite table, every       *)
(* timeout, all sets of reports and any number of SIGINTs.                 *)
(***************************************************************************)
EXTENDS GpsTest, TLAPS

-----------------------------------------------------------------------------
(* The inductive invariant.                                                *)

StepsTyped ==
  /\ pc \in {"signal", "open", "extend", "support", "init", "start", "spawn",
             "join", "close", "returned"}
  /\ ret \in {"none", "-1", "0"}
  /\ extensions \subseteq Extensions
  /\ hal \in {"off", "ready", "started"}
  /\ wpc \in {"none", "begin", "loop", "svs", "scan", "timeout", "sleep",
              "linger", "done"}
  /\ gps_result_type \in {"none", "testing", "success", "fail"}
  /\ cpc \in [Closers -> {"none", "enter", "stop", "cleanup", "exit"}]
  /\ signals \in 0 .. MaxSignals

FlagsTyped == sGpsInterface \in BOOLEAN /\ misused \in BOOLEAN
                /\ exited \in BOOLEAN

\* While the table is scanned the index is that of an entry, or one behind.
CountsTyped ==
  /\ i \in 0 .. GPS_MAX_SVS + 1 /\ snr_count \in Nat
  /\ now \in 0 .. MaxClock /\ clock \in 0 .. MaxClock
  /\ wpc = "scan" => i >= 1

TableTyped ==
  /\ sGpsSvStatus \in SvStatus /\ copying \in SvStatus
  /\ left \subseteq 0 .. GPS_MAX_SVS /\ seen \subseteq Reports

\* What the reports that were made have shown.
Many   == \E r \in seen : r.num_svs > MIN_SVS
Strong == \E r \in seen : \E k \in 1 .. GPS_MAX_SVS : r.snr[k] >= MIN_SNR

\* Whatever the table holds, however torn, some report has held.
FromReports ==
  /\ left # {} => copying \in seen
  /\ sGpsSvStatus.num_svs > MIN_SVS => Many
  /\ \A k \in 1 .. GPS_MAX_SVS : sGpsSvStatus.snr[k] >= MIN_SNR => Strong
  /\ wpc = "scan" => Many
  /\ snr_count > 0 => Strong
  /\ gps_result_type = "success" => Many /\ Strong

\* How far the main thread is, whether there is a HAL and what state it is in.
Started ==
  /\ pc \in {"signal", "open"} => ~sGpsInterface
  /\ pc \in {"extend", "init", "start", "spawn", "join", "close"}
       => sGpsInterface
  /\ wpc # "none" => pc \in {"join", "close"}
  /\ pc \in {"signal", "open", "extend", "support", "init"} => hal = "off"
  /\ pc = "start" => hal # "started"
  /\ pc = "returned" => hal # "started"
  /\ pc = "returned" /\ hal # "off" => ret = "-1"

\* An activation of gps_close that got past its first test has a HAL, and one
\* that is about to leave the process has switched it off.  The main thread,
\* which alone can switch it on again, is in gps_close or suspended by then.
Closing ==
  /\ cpc["call"] # "none" => pc = "close"
  /\ cpc["onTest"] # "none" => cpc["onMain"] # "none" /\ sGpsInterface
  /\ \A c \in Closers : cpc[c] \in {"stop", "cleanup", "exit"} => sGpsInterface
  /\ \A c \in Closers : cpc[c] = "exit" => hal = "off"
  /\ exited => hal = "off" /\ sGpsInterface

\* Without SIGINTs the one call of gps_close finds the HAL as it expects it.
InTurn ==
  signals = 0 =>
    /\ cpc["onMain"] = "none" /\ cpc["onTest"] = "none"
    /\ ~misused
    /\ pc \in {"spawn", "join"} => hal = "started"
    /\ pc = "close" => \/ cpc["call"] \in {"enter", "stop"} /\ hal = "started"
                       \/ cpc["call"] = "cleanup" /\ hal = "ready"
                       \/ cpc["call"] = "exit" /\ hal = "off"

\* While the thread tests there is no verdict; afterwards there is one.
Undecided ==
  /\ wpc \in {"none", "begin", "loop", "svs", "scan", "timeout", "sleep"}
       => gps_result_type \in {"none", "testing"}

IInv == /\ StepsTyped /\ FlagsTyped /\ CountsTyped /\ TableTyped
        /\ FromReports /\ Started /\ Closing /\ InTurn /\ Undecided

-----------------------------------------------------------------------------

LEMMA InitIInv == Init => IInv
  <1> SUFFICES ASSUME Init PROVE IInv
    OBVIOUS
  <1>1. StepsTyped
    BY BoundAssumption DEF Init, StepsTyped
  <1>2. FlagsTyped
    BY Zenon DEF Init, FlagsTyped
  <1>3. CountsTyped
    BY BoundAssumption, ReportAssumption DEF Init, CountsTyped
  <1>4. TableTyped
    BY ReportAssumption DEF Init, TableTyped, NoSv, SvStatus
  <1>5. FromReports
    BY DEF Init, FromReports, NoSv, MIN_SVS, MIN_SNR
  <1>6. Started /\ Closing /\ InTurn /\ Undecided
    BY DEF Init, Started, Closing, InTurn, Undecided, Closers
  <1> QED
    BY <1>1, <1>2, <1>3, <1>4, <1>5, <1>6 DEF IInv

\* A table that takes one entry of a report over is a table still.
LEMMA FieldCopied ==
  ASSUME NEW a \in SvStatus, NEW b \in SvStatus,
         NEW k \in 0 .. GPS_MAX_SVS, NEW c,
         c = IF k = 0 THEN [a EXCEPT !.num_svs = b.num_svs]
                      ELSE [a EXCEPT !.snr[k] = b.snr[k]]
  PROVE  /\ c \in SvStatus
         /\ c.num_svs \in {a.num_svs, b.num_svs}
         /\ \A j \in 1 .. GPS_MAX_SVS : c.snr[j] \in {a.snr[j], b.snr[j]}
  <1>1. CASE k = 0
    BY <1>1 DEF SvStatus
  <1>2. CASE k # 0
    <2>1. k \in 1 .. GPS_MAX_SVS
      BY <1>2, ReportAssumption
    <2> QED
      BY <1>2, <2>1 DEF SvStatus
  <1> QED
    BY <1>1, <1>2

LEMMA NextSteps == IInv /\ [Next]_vars => StepsTyped'
  <1> SUFFICES ASSUME IInv, [Next]_vars PROVE StepsTyped'
    OBVIOUS
  <1>0. StepsTyped
    BY DEF IInv
  <1>1. CASE MainStep
    BY <1>0, <1>1 DEF MainStep, InstallHandler, OpenHal, GetExtensions,
       CheckSupported, InitHal, InitFails, StartHal, StartFails, SpawnTest,
       JoinTest, StepsTyped, Closers, halVars, testVars, closeVars
  <1>2. CASE TestStep \/ Tick
    BY <1>0, <1>2 DEF TestStep, BeginTest, LoopTop, CountSvs, ScanSv, ScanEnd,
       CheckTimeout, EndTest, Tick, StepsTyped, mainVars, halVars, closeVars
  <1>3. ASSUME NEW c \in Closers, Close(c)
        PROVE  StepsTyped'
    BY <1>0, <1>3 DEF Close, CloseEnter, CloseStop, CloseCleanup, CloseExit,
       AfterEnter, AfterStop, StepsTyped, mainVars, halVars, testVars
  <1>4. CASE Sigint
    BY <1>0, <1>4, BoundAssumption DEF Sigint, StepsTyped, Closers, mainVars,
       halVars, testVars
  <1>5. CASE ReportSvs \/ CopyField \/ UNCHANGED vars
    BY <1>0, <1>5 DEF ReportSvs, CopyField, vars, StepsTyped, mainVars, halVars,
       testVars, closeVars
  <1> QED
    BY <1>1, <1>2, <1>3, <1>4, <1>5 DEF Next

LEMMA NextFlags == IInv /\ [Next]_vars => FlagsTyped'
  <1> SUFFICES ASSUME IInv, [Next]_vars PROVE FlagsTyped'
    OBVIOUS
  <1>0. FlagsTyped
    BY DEF IInv
  <1>1. sGpsInterface' = sGpsInterface \/ sGpsInterface' \in BOOLEAN
    BY Zenon DEF Next, MainStep, InstallHandler, OpenHal, GetExtensions,
       CheckSupported, InitHal, InitFails, StartHal, StartFails, SpawnTest,
       JoinTest, TestStep, BeginTest, LoopTop, CountSvs, ScanSv, ScanEnd,
       CheckTimeout, EndTest, Tick, Close, CloseEnter, CloseStop, CloseCleanup,
       CloseExit, Sigint, ReportSvs, CopyField, vars, mainVars
  <1>2. misused' = misused \/ misused' \in BOOLEAN
    BY Zenon DEF Next, MainStep, InstallHandler, OpenHal, GetExtensions,
       CheckSupported, InitHal, InitFails, StartHal, StartFails, SpawnTest,
       JoinTest, TestStep, BeginTest, LoopTop, CountSvs, ScanSv, ScanEnd,
       CheckTimeout, EndTest, Tick, Close, CloseEnter, CloseStop, CloseCleanup,
       CloseExit, Sigint, ReportSvs, CopyField, vars, halVars
  <1>3. exited' = exited \/ exited' = TRUE
    BY Zenon DEF Next, MainStep, InstallHandler, OpenHal, GetExtensions,
       CheckSupported, InitHal, InitFails, StartHal, StartFails, SpawnTest,
       JoinTest, TestStep, BeginTest, LoopTop, CountSvs, ScanSv, ScanEnd,
       CheckTimeout, EndTest, Tick, Close, CloseEnter, CloseStop, CloseCleanup,
       CloseExit, Sigint, ReportSvs, CopyField, vars, closeVars
  <1> QED
    BY <1>0, <1>1, <1>2, <1>3, Zenon DEF FlagsTyped

LEMMA NextCounts == IInv /\ [Next]_vars => CountsTyped'
  <1> SUFFICES ASSUME IInv, [Next]_vars PROVE CountsTyped'
    OBVIOUS
  <1>0. CountsTyped /\ StepsTyped
    BY DEF IInv
  <1>1. CASE MainStep
    BY <1>0, <1>1 DEF MainStep, InstallHandler, OpenHal, GetExtensions,
       CheckSupported, InitHal, InitFails, StartHal, StartFails, SpawnTest,
       JoinTest, CountsTyped, testVars
  <1>2. CASE ScanSv
    <2>1. sGpsSvStatus.num_svs \in 0 .. GPS_MAX_SVS
      BY DEF IInv, TableTyped, SvStatus
    <2>2. i' \in 0 .. GPS_MAX_SVS + 1 /\ i' >= 1
      BY <1>0, <1>2, <2>1, ReportAssumption DEF ScanSv, CountsTyped
    <2>3. snr_count' \in {snr_count, snr_count + 1}
      BY <1>2 DEF ScanSv
    <2> QED
      BY <1>0, <1>2, <2>2, <2>3 DEF ScanSv, CountsTyped
  <1>3. CASE BeginTest \/ LoopTop \/ ScanEnd \/ CheckTimeout \/ EndTest
    BY <1>0, <1>3 DEF BeginTest, LoopTop, ScanEnd, CheckTimeout, EndTest,
       CountsTyped
  <1>4. CASE CountSvs
    BY <1>0, <1>4, ReportAssumption DEF CountSvs, CountsTyped
  <1>5. CASE Tick
    BY <1>0, <1>5, BoundAssumption DEF Tick, CountsTyped
  <1>6. CASE (\E c \in Closers : Close(c)) \/ Sigint \/ ReportSvs \/ CopyField
               \/ UNCHANGED vars
    BY <1>0, <1>6 DEF Close, CloseEnter, CloseStop, CloseCleanup, CloseExit,
       Sigint, ReportSvs, CopyField, vars, CountsTyped, testVars
  <1> QED
    BY <1>1, <1>2, <1>3, <1>4, <1>5, <1>6 DEF Next, TestStep

LEMMA NextTable == IInv /\ [Next]_vars => TableTyped'
  <1> SUFFICES ASSUME IInv, [Next]_vars PROVE TableTyped'
    OBVIOUS
  <1>0. TableTyped
    BY DEF IInv
  <1>1. CASE BeginTest
    <2>1. sGpsSvStatus' \in SvStatus
      BY <1>0, <1>1, ReportAssumption DEF BeginTest, TableTyped, SvStatus
    <2> QED
      BY <1>0, <1>1, <2>1 DEF BeginTest, TableTyped, reportVars
  <1>2. CASE ReportSvs
    BY <1>0, <1>2, ReportAssumption DEF ReportSvs, TableTyped
  <1>3. CASE CopyField
    <2>1. PICK e \in left :
            /\ sGpsSvStatus' =
                 IF e = 0 THEN [sGpsSvStatus EXCEPT !.num_svs = copying.num_svs]
                          ELSE [sGpsSvStatus EXCEPT !.snr[e] = copying.snr[e]]
            /\ left' = left \ {e}
      BY <1>3 DEF CopyField
    <2>2. sGpsSvStatus' \in SvStatus
      BY <1>0, <2>1, FieldCopied DEF TableTyped
    <2> QED
      BY <1>0, <1>3, <2>1, <2>2 DEF CopyField, TableTyped
  <1>4. CASE MainStep
    BY <1>0, <1>4 DEF MainStep, InstallHandler, OpenHal, GetExtensions,
       CheckSupported, InitHal, InitFails, StartHal, StartFails, SpawnTest,
       JoinTest, TableTyped, reportVars
  <1>5. CASE LoopTop \/ CountSvs \/ ScanSv \/ ScanEnd \/ CheckTimeout
               \/ EndTest \/ Tick
    BY <1>0, <1>5 DEF LoopTop, CountSvs, ScanSv, ScanEnd, CheckTimeout,
       EndTest, Tick, TableTyped, reportVars
  <1>6. CASE (\E c \in Closers : Close(c)) \/ Sigint \/ UNCHANGED vars
    BY <1>0, <1>6 DEF Close, CloseEnter, CloseStop, CloseCleanup, CloseExit,
       Sigint, vars, TableTyped, reportVars
  <1> QED
    BY <1>1, <1>2, <1>3, <1>4, <1>5, <1>6 DEF Next, TestStep

\* The table only ever holds what was reported, or less.
LEMMA NextFromReports == IInv /\ [Next]_vars => FromReports'
  <1> SUFFICES ASSUME IInv, [Next]_vars PROVE FromReports'
    OBVIOUS
  <1>0. FromReports /\ TableTyped /\ CountsTyped
    BY DEF IInv
  <1>1. CASE BeginTest
    <2>1. sGpsSvStatus'.num_svs = 0 /\ sGpsSvStatus'.snr = sGpsSvStatus.snr
      BY <1>0, <1>1 DEF BeginTest, TableTyped, SvStatus
    <2> QED
      BY <1>0, <1>1, <2>1 DEF BeginTest, FromReports, Many, Strong, reportVars,
         MIN_SVS
  <1>2. CASE ReportSvs
    <2>1. (Many => Many') /\ (Strong => Strong')
      BY <1>2 DEF ReportSvs, Many, Strong
    <2>2. copying' \in seen'
      BY <1>2 DEF ReportSvs
    <2> QED
      BY <1>0, <1>2, <2>1, <2>2 DEF ReportSvs, FromReports, testVars
  <1>3. CASE CopyField
    <2>1. PICK e \in left :
            /\ sGpsSvStatus' =
                 IF e = 0 THEN [sGpsSvStatus EXCEPT !.num_svs = copying.num_svs]
                          ELSE [sGpsSvStatus EXCEPT !.snr[e] = copying.snr[e]]
            /\ left' = left \ {e}
      BY <1>3 DEF CopyField
    <2>2. copying \in seen /\ copying \in SvStatus
      BY <1>0, <2>1 DEF FromReports, TableTyped
    <2>3. /\ sGpsSvStatus'.num_svs \in {sGpsSvStatus.num_svs, copying.num_svs}
          /\ \A k \in 1 .. GPS_MAX_SVS :
               sGpsSvStatus'.snr[k] \in {sGpsSvStatus.snr[k], copying.snr[k]}
      BY <1>0, <2>1, FieldCopied DEF TableTyped
    <2>4. UNCHANGED <<seen, copying, wpc, snr_count, gps_result_type>>
      BY <1>3 DEF CopyField, testVars
    <2>5. (Many' <=> Many) /\ (Strong' <=> Strong)
      BY <2>4 DEF Many, Strong
    <2>6. sGpsSvStatus'.num_svs > MIN_SVS => Many
      BY <1>0, <2>2, <2>3 DEF FromReports, Many
    <2>7. ASSUME NEW k \in 1 .. GPS_MAX_SVS, sGpsSvStatus'.snr[k] >= MIN_SNR
          PROVE  Strong
      BY <1>0, <2>2, <2>3, <2>7 DEF FromReports, Strong
    <2> QED
      BY <1>0, <2>2, <2>4, <2>5, <2>6, <2>7 DEF FromReports
  <1>4. CASE ScanSv
    <2>1. sGpsSvStatus.num_svs \in 0 .. GPS_MAX_SVS
      BY <1>0 DEF TableTyped, SvStatus
    <2>2. i \in 1 .. GPS_MAX_SVS
      BY <1>0, <1>4, <2>1, ReportAssumption DEF ScanSv, CountsTyped
    <2>3. snr_count' > 0 => Strong
      BY <1>0, <1>4, <2>2 DEF ScanSv, FromReports
    <2>4. UNCHANGED <<seen, copying, left, sGpsSvStatus, wpc, gps_result_type>>
      BY <1>4 DEF ScanSv, reportVars
    <2> QED
      BY <1>0, <2>3, <2>4 DEF FromReports, Many, Strong
  <1>5. CASE CountSvs
    BY <1>0, <1>5 DEF CountSvs, EnoughSvs, FromReports, Many, Strong, reportVars
  <1>6. CASE ScanEnd
    BY <1>0, <1>6 DEF ScanEnd, FromReports, Many, Strong, reportVars
  <1>7. CASE LoopTop \/ CheckTimeout \/ EndTest \/ Tick
    BY <1>0, <1>7 DEF LoopTop, CheckTimeout, EndTest, Tick, FromReports, Many,
       Strong, reportVars
  <1>8. CASE MainStep
    BY <1>0, <1>8 DEF MainStep, InstallHandler, OpenHal, GetExtensions,
       CheckSupported, InitHal, InitFails, StartHal, StartFails, SpawnTest,
       JoinTest, FromReports, Many, Strong, reportVars, testVars
  <1>9. CASE (\E c \in Closers : Close(c)) \/ Sigint \/ UNCHANGED vars
    BY <1>0, <1>9 DEF Close, CloseEnter, CloseStop, CloseCleanup, CloseExit,
       Sigint, vars, FromReports, Many, Strong, reportVars, testVars
  <1> QED
    BY <1>1, <1>2, <1>3, <1>4, <1>5, <1>6, <1>7, <1>8, <1>9 DEF Next, TestStep

\* Main thread, HAL and activations of gps_close.
LEMMA MainClosing ==
  ASSUME IInv, MainStep
  PROVE  Started' /\ Closing' /\ InTurn'
  <1>0. /\ StepsTyped /\ Started /\ Closing /\ InTurn
        /\ cpc["onMain"] = "none" /\ ~exited
    BY DEF IInv, MainStep, InstallHandler, OpenHal, GetExtensions,
       CheckSupported, InitHal, InitFails, StartHal, StartFails, SpawnTest,
       JoinTest, MainRuns
  <1>1. cpc["onTest"] = "none"
    BY <1>0 DEF Closing
  <1>2. CASE InstallHandler \/ GetExtensions \/ InitFails \/ StartFails
    BY <1>0, <1>2 DEF InstallHandler, GetExtensions, InitFails, StartFails,
       StepsTyped, Started, Closing, InTurn, Closers, halVars, testVars,
       closeVars
  <1>3. CASE OpenHal
    <2>1. sGpsInterface' => pc' = "extend"
      BY <1>3 DEF OpenHal
    <2>2. ~sGpsInterface' => pc' = "support"
      BY <1>3 DEF OpenHal
    <2>3. /\ UNCHANGED <<ret, hal, misused, wpc, cpc, signals, exited>>
          /\ pc = "open" /\ pc' \in {"extend", "support"}
      BY <1>3, <2>1, <2>2 DEF OpenHal, halVars, testVars, closeVars
    <2>4. ~sGpsInterface
      BY <1>0, <2>3 DEF Started
    <2>5. Started'
      BY <1>0, <2>1, <2>2, <2>3 DEF Started
    <2>6. Closing'
      BY <1>0, <1>1, <2>3, <2>4 DEF Closing
    <2>7. InTurn'
      BY <1>0, <2>3 DEF InTurn
    <2> QED
      BY <2>5, <2>6, <2>7
  <1>4. CASE CheckSupported
    <2>1. UNCHANGED <<sGpsInterface, hal, misused, wpc, cpc, signals, exited>>
      BY <1>4 DEF CheckSupported, halVars, testVars, closeVars
    <2>2. /\ pc = "support" /\ hal = "off"
          /\ \/ pc' = "init" /\ sGpsInterface
             \/ pc' = "returned"
      BY <1>0, <1>4 DEF CheckSupported, is_supported, Started
    <2> QED
      BY <1>0, <2>1, <2>2 DEF Started, Closing, InTurn
  <1>5. CASE InitHal
    <2>1. UNCHANGED <<sGpsInterface, misused, wpc, cpc, signals, exited>>
      BY <1>5 DEF InitHal, testVars, closeVars
    <2>2. \A c \in Closers : cpc[c] # "exit"
      BY <1>0, <1>1, <1>5 DEF InitHal, Closing, Closers
    <2> QED
      BY <1>0, <1>5, <2>1, <2>2 DEF InitHal, Started, Closing, InTurn
  <1>6. CASE StartHal
    <2>1. UNCHANGED <<sGpsInterface, misused, wpc, cpc, signals, exited>>
      BY <1>6 DEF StartHal, testVars, closeVars
    <2>2. \A c \in Closers : cpc[c] # "exit"
      BY <1>0, <1>1, <1>6 DEF StartHal, Closing, Closers
    <2> QED
      BY <1>0, <1>6, <2>1, <2>2 DEF StartHal, Started, Closing, InTurn
  <1>7. CASE SpawnTest
    BY <1>0, <1>7 DEF SpawnTest, StepsTyped, Started, Closing, InTurn, Closers,
       halVars, closeVars
  <1>8. CASE JoinTest
    <2>1. UNCHANGED <<sGpsInterface, hal, misused, wpc, signals, exited>>
      BY <1>8 DEF JoinTest, halVars, testVars
    <2>2. /\ pc = "join" /\ pc' = "close" /\ sGpsInterface
          /\ cpc'["call"] = "enter"
          /\ \A c \in Closers : c # "call" => cpc'[c] = cpc[c]
          /\ {"call", "onMain", "onTest"} = Closers
      BY <1>0, <1>8 DEF JoinTest, StepsTyped, Closers, Started
    <2>3. Started'
      BY <1>0, <2>1, <2>2 DEF Started
    <2>4. Closing'
      BY <1>0, <1>1, <2>1, <2>2 DEF Closing
    <2>5. InTurn'
      BY <1>0, <1>1, <2>1, <2>2 DEF InTurn
    <2> QED
      BY <2>3, <2>4, <2>5
  <1> QED
    BY <1>2, <1>3, <1>4, <1>5, <1>6, <1>7, <1>8 DEF MainStep

LEMMA CloseClosing ==
  ASSUME IInv, NEW c \in Closers, Close(c)
  PROVE  Started' /\ Closing' /\ InTurn'
  <1>0. StepsTyped /\ Started /\ Closing /\ InTurn /\ ~exited
    BY DEF IInv, Close, CloseEnter, CloseStop, CloseCleanup, CloseExit,
       CloserRuns
  <1>1. UNCHANGED <<pc, ret, sGpsInterface, wpc, signals>>
    BY DEF Close, CloseEnter, CloseStop, CloseCleanup, CloseExit, mainVars,
       testVars, closeVars
  <1>2. CASE CloseEnter(c)
    <2>1. UNCHANGED <<hal, misused, exited>>
      BY <1>2 DEF CloseEnter, halVars
    <2>2. /\ cpc[c] = "enter"
          /\ \A other \in Closers : other # c => cpc'[other] = cpc[other]
          /\ {"call", "onMain", "onTest"} = Closers
      BY <1>0, <1>2 DEF CloseEnter, StepsTyped, Closers
    <2>3. \/ sGpsInterface /\ cpc'[c] = "stop"
          \/ ~sGpsInterface /\ cpc'[c] = "none"
      BY <1>0, <1>2 DEF CloseEnter, StepsTyped, is_supported, AfterEnter
    <2>4. Started'
      BY <1>0, <1>1, <2>1 DEF Started
    <2>5. Closing'
      <3>1. c = "call" => sGpsInterface
        BY <1>0, <2>2 DEF Closing, Started
      <3>2. c = "onMain" /\ ~sGpsInterface => cpc["onTest"] = "none"
        BY <1>0 DEF Closing
      <3> QED
        BY <1>0, <1>1, <2>1, <2>2, <2>3, <3>1, <3>2 DEF Closing
    <2>6. InTurn'
      <3>1. c = "call" => sGpsInterface
        BY <1>0, <2>2 DEF Closing, Started
      <3>2. signals = 0 => c = "call"
        BY <1>0, <2>2 DEF InTurn
      <3> QED
        BY <1>0, <1>1, <2>1, <2>2, <2>3, <3>1, <3>2 DEF InTurn
    <2> QED
      BY <2>4, <2>5, <2>6
  <1>3. CASE CloseStop(c)
    <2>1. /\ cpc[c] = "stop" /\ cpc'[c] = "cleanup"
          /\ \A other \in Closers : other # c => cpc'[other] = cpc[other]
          /\ {"call", "onMain", "onTest"} = Closers
          /\ exited' = exited
      BY <1>0, <1>3 DEF CloseStop, StepsTyped, Closers, AfterStop
    <2>2. hal' = IF hal = "started" THEN "ready" ELSE hal
      BY <1>3 DEF CloseStop
    <2>3. Started'
      BY <1>0, <1>1, <2>2 DEF Started
    <2>4. Closing'
      BY <1>0, <1>1, <2>1, <2>2 DEF Closing
    <2>5. InTurn'
      <3>1. signals = 0 => c = "call" /\ hal = "started" /\ pc = "close"
        BY <1>0, <2>1 DEF InTurn, Closing
      <3>2. hal = "started" => (misused' <=> misused)
        BY <1>3, Zenon DEF CloseStop
      <3> QED
        BY <1>0, <1>1, <2>1, <2>2, <3>1, <3>2 DEF InTurn
    <2> QED
      BY <2>3, <2>4, <2>5
  <1>4. CASE CloseCleanup(c)
    <2>1. /\ cpc[c] = "cleanup" /\ cpc'[c] = "exit" /\ hal' = "off"
          /\ \A other \in Closers : other # c => cpc'[other] = cpc[other]
          /\ {"call", "onMain", "onTest"} = Closers
          /\ exited' = exited
      BY <1>0, <1>4 DEF CloseCleanup, StepsTyped, Closers
    <2>2. Started'
      BY <1>0, <1>1, <2>1 DEF Started, Closing
    <2>3. Closing'
      BY <1>0, <1>1, <2>1 DEF Closing
    <2>4. InTurn'
      <3>1. signals = 0 => c = "call" /\ hal = "ready" /\ pc = "close"
        BY <1>0, <2>1 DEF InTurn, Closing
      <3>2. hal = "ready" => (misused' <=> misused)
        BY <1>4, Zenon DEF CloseCleanup
      <3> QED
        BY <1>0, <1>1, <2>1, <3>1, <3>2 DEF InTurn
    <2> QED
      BY <2>2, <2>3, <2>4
  <1>5. CASE CloseExit(c)
    BY <1>0, <1>1, <1>5 DEF CloseExit, Started, Closing, InTurn, halVars
  <1> QED
    BY <1>2, <1>3, <1>4, <1>5 DEF Close

LEMMA SigintClosing ==
  ASSUME IInv, Sigint
  PROVE  Started' /\ Closing' /\ InTurn'
  <1>0. StepsTyped /\ Started /\ Closing /\ ~exited
    BY DEF IInv, Sigint
  <1>1. UNCHANGED <<pc, ret, sGpsInterface, hal, wpc, exited>>
    BY DEF Sigint, mainVars, halVars, testVars
  <1>2. signals' # 0
    BY <1>0 DEF Sigint, StepsTyped
  <1>3. PICK c \in {"onMain", "onTest"} :
          /\ cpc' = [cpc EXCEPT ![c] = "enter"]
          /\ c = "onTest" => cpc["onMain"] # "none" /\ wpc # "none"
    BY DEF Sigint
  <1>4. /\ cpc'[c] = "enter"
        /\ \A other \in Closers : other # c => cpc'[other] = cpc[other]
        /\ {"call", "onMain", "onTest"} = Closers
    BY <1>0, <1>3 DEF StepsTyped, Closers
  <1>5. c = "onTest" => sGpsInterface
    BY <1>0, <1>3 DEF Started
  <1>6. Closing'
    BY <1>0, <1>1, <1>3, <1>4, <1>5 DEF Closing
  <1> QED
    BY <1>0, <1>1, <1>2, <1>6 DEF Started, InTurn

LEMMA NextClosing == IInv /\ [Next]_vars => Started' /\ Closing' /\ InTurn'
  <1> SUFFICES ASSUME IInv, [Next]_vars PROVE Started' /\ Closing' /\ InTurn'
    OBVIOUS
  <1>1. CASE TestStep \/ Tick
    <2>1. UNCHANGED <<pc, ret, sGpsInterface, hal, misused, cpc, signals,
                      exited>>
      BY <1>1 DEF TestStep, BeginTest, LoopTop, CountSvs, ScanSv, ScanEnd,
         CheckTimeout, EndTest, Tick, mainVars, halVars, closeVars
    <2>2. wpc # "none"
      BY <1>1 DEF TestStep, BeginTest, LoopTop, CountSvs, ScanSv, ScanEnd,
         CheckTimeout, EndTest, Tick
    <2> QED
      BY <2>1, <2>2 DEF IInv, Started, Closing, InTurn
  <1>2. CASE ReportSvs \/ CopyField \/ UNCHANGED vars
    BY <1>2 DEF ReportSvs, CopyField, vars, mainVars, halVars, testVars,
       closeVars, IInv, Started, Closing, InTurn
  <1> QED
    BY <1>1, <1>2, MainClosing, CloseClosing, SigintClosing DEF Next

LEMMA NextUndecided == IInv /\ [Next]_vars => Undecided'
  <1> SUFFICES ASSUME IInv, [Next]_vars PROVE Undecided'
    OBVIOUS
  <1>0. Undecided /\ Started
    BY DEF IInv
  <1>1. CASE MainStep
    BY <1>0, <1>1 DEF MainStep, InstallHandler, OpenHal, GetExtensions,
       CheckSupported, InitHal, InitFails, StartHal, StartFails, SpawnTest,
       JoinTest, Undecided, Started, testVars
  <1>2. CASE TestStep \/ Tick
    BY <1>0, <1>2 DEF TestStep, BeginTest, LoopTop, CountSvs, ScanSv, ScanEnd,
       CheckTimeout, EndTest, Tick, Undecided
  <1>3. CASE (\E c \in Closers : Close(c)) \/ Sigint \/ ReportSvs \/ CopyField
               \/ UNCHANGED vars
    BY <1>0, <1>3 DEF Close, CloseEnter, CloseStop, CloseCleanup, CloseExit,
       Sigint, ReportSvs, CopyField, vars, testVars, Undecided
  <1> QED
    BY <1>1, <1>2, <1>3 DEF Next

THEOREM Invariance == Spec => []IInv
  <1>1. IInv /\ [Next]_vars => IInv'
    BY NextSteps, NextFlags, NextCounts, NextTable, NextFromReports,
       NextClosing, NextUndecided DEF IInv
  <1> QED
    BY <1>1, InitIInv, PTL DEF Spec

-----------------------------------------------------------------------------
(* What follows.                                                           *)

\* Every variable has its type, and no entry beyond the table is read.
THEOREM TypeCorrect == Spec => []TypeOK
  <1>1. IInv => TypeOK
    BY Zenon DEF IInv, StepsTyped, FlagsTyped, CountsTyped, TableTyped, TypeOK
  <1> QED
    BY <1>1, Invariance, PTL

\* Without a SIGINT the HAL is stopped and cleaned up in turn.
THEOREM Misuse == Spec => []MisuseNeedsSignal
  <1>1. IInv => MisuseNeedsSignal
    BY DEF IInv, StepsTyped, InTurn, MisuseNeedsSignal
  <1> QED
    BY <1>1, Invariance, PTL

\* However many handlers overtake each other, the process ends with the HAL
\* off, and only a refused start leaves it initialised.
THEOREM Released == Spec => []HalReleased
  <1>1. IInv => HalReleased
    BY DEF IInv, StepsTyped, Started, Closing, HalReleased
  <1> QED
    BY <1>1, Invariance, PTL

\* A success has its evidence in the reports, however torn they were read.
THEOREM Evidence == Spec => []PassEvidence
  <1>1. IInv => PassEvidence
    BY DEF IInv, FromReports, Many, Strong, PassEvidence
  <1> QED
    BY <1>1, Invariance, PTL

\* The GPS test keeps the promise of a factory test.
THEOREM Implements == Spec => ImplementsFactoryTest
  <1>1. Init => Abstract!Init
    BY DEF Init, Abstract!Init
  <1>2. IInv /\ [Next]_vars => [Abstract!Next]_(Abstract!vars)
    <2> SUFFICES ASSUME IInv, [Next]_vars
                 PROVE  [Abstract!Next]_(Abstract!vars)
      OBVIOUS
    <2> USE DEF Abstract!Next, Abstract!vars, Abstract!Begin,
                Abstract!GiveUp, Abstract!Report
    <2>0. Undecided
      BY DEF IInv
    <2>1. CASE SpawnTest
      <3>1. wpc = "none"
        BY <2>1 DEF IInv, Started, SpawnTest
      <3> QED
        BY <2>1, <3>1 DEF SpawnTest
    <2>2. CASE ScanEnd
      BY <2>0, <2>2 DEF ScanEnd, Undecided
    <2>3. CASE CheckTimeout
      BY <2>0, <2>3 DEF CheckTimeout, Undecided
    <2>4. CASE BeginTest \/ LoopTop \/ CountSvs \/ ScanSv \/ EndTest \/ Tick
      BY <2>4 DEF BeginTest, LoopTop, CountSvs, ScanSv, EndTest, Tick
    <2>5. CASE MainStep /\ ~SpawnTest
      BY <2>5 DEF MainStep, InstallHandler, OpenHal, GetExtensions,
         CheckSupported, InitHal, InitFails, StartHal, StartFails, JoinTest,
         testVars
    <2>6. CASE (\E c \in Closers : Close(c)) \/ Sigint \/ ReportSvs
                 \/ CopyField \/ UNCHANGED vars
      BY <2>6 DEF Close, CloseEnter, CloseStop, CloseCleanup, CloseExit,
         Sigint, ReportSvs, CopyField, vars, testVars
    <2> QED
      BY <2>1, <2>2, <2>3, <2>4, <2>5, <2>6 DEF Next, TestStep
  <1> QED
    BY <1>1, <1>2, Invariance, PTL
    DEF Spec, ImplementsFactoryTest, Abstract!Spec

-----------------------------------------------------------------------------
(* Why the test ends the process.                                          *)

\* Once the test thread exists, somebody has a step to take until the process
\* ends: an activation of gps_close that is not suspended, the test thread
\* unless a handler runs on it, the clock, or the main thread that joins.
NeverStuck ==
  wpc # "none" /\ ~exited =>
    \/ \E c \in Closers : CloserRuns(c) /\ cpc[c] # "none"
    \/ TestRuns /\ wpc \notin {"sleep", "done"}
    \/ wpc = "sleep"
    \/ MainRuns /\ pc = "join" /\ wpc = "done"

\* The rounds a test that reads the time t may still take.
RoundsFrom(t) ==
  IF t > GPS_TEST_TIME_OUT THEN 0 ELSE GPS_TEST_TIME_OUT + 1 - t

\* The rounds of its loop the test thread has still to begin, and, from the
\* time that was taken last on, the one it is in.
RoundsLeft ==
  CASE wpc \in {"none", "begin"} -> GPS_TEST_TIME_OUT + 1
    [] wpc = "loop" -> RoundsFrom(clock)
    [] wpc = "sleep" -> RoundsFrom(clock + 1) + 1
    [] wpc \in {"svs", "scan", "timeout"} ->
         IF TimedOut THEN 0 ELSE RoundsFrom(clock + 1) + 1
    [] wpc \in {"linger", "done"} -> 0

\* The steps of the round that is under way.
PlacesLeft ==
  CASE wpc = "none" -> GPS_MAX_SVS + 8
    [] wpc = "begin" -> GPS_MAX_SVS + 7
    [] wpc = "loop" -> GPS_MAX_SVS + 6
    [] wpc = "svs" -> GPS_MAX_SVS + 5
    [] wpc = "scan" -> GPS_MAX_SVS + 5 - i
    [] wpc = "timeout" -> 3 [] wpc = "sleep" -> 2
    [] wpc = "linger" -> 1 [] wpc = "done" -> 0

\* A step that brings the end of the test nearer, and one that does not put it
\* off.
Nearer ==
  \/ RoundsLeft' < RoundsLeft
  \/ RoundsLeft' = RoundsLeft /\ PlacesLeft' < PlacesLeft

NotFarther ==
  /\ RoundsLeft' <= RoundsLeft
  /\ RoundsLeft' = RoundsLeft => PlacesLeft' <= PlacesLeft

\* Every step of the test thread, and the second it sleeps, brings its end
\* nearer; nothing else puts it off, however the table changes meanwhile.
TestUsesUpTime ==
  [][/\ RoundsLeft \in 0 .. GPS_TEST_TIME_OUT + 1
     /\ PlacesLeft \in 0 .. GPS_MAX_SVS + 8
     /\ TestStep \/ (Tick /\ wpc = "sleep") => Nearer
     /\ NotFarther]_vars

\* What follows a place of gps_close when there is a HAL.
AfterPlace == {<<"enter", "stop">>, <<"stop", "cleanup">>, <<"cleanup", "exit">>}

\* An activation of gps_close is never given up once there is a HAL: it goes on
\* from place to place, and its last step ends the process.
ClosesOn ==
  [][\A c \in Closers : sGpsInterface /\ cpc[c] # "none" =>
       /\ sGpsInterface'
       /\ cpc'[c] = cpc[c] \/ <<cpc[c], cpc'[c]>> \in AfterPlace
       /\ Close(c) => cpc'[c] # cpc[c] \/ exited']_vars

\* gps_close, called at the end of test_gps_start, does not return to it.
CallStays == pc = "close" => cpc["call"] # "none"

LEMMA NextCallStays == IInv /\ CallStays /\ [Next]_vars => CallStays'
  <1> SUFFICES ASSUME IInv, CallStays, [Next]_vars PROVE CallStays'
    OBVIOUS
  <1>0. /\ cpc \in [Closers -> {"none", "enter", "stop", "cleanup", "exit"}]
        /\ "call" \in Closers /\ "onMain" \in Closers /\ "onTest" \in Closers
        /\ pc = "close" => sGpsInterface
    BY DEF IInv, StepsTyped, Started, Closers
  <1>1. CASE MainStep
    BY <1>0, <1>1 DEF CallStays, MainStep, InstallHandler, OpenHal,
       GetExtensions, CheckSupported, InitHal, InitFails, StartHal, StartFails,
       SpawnTest, JoinTest
  <1>2. CASE TestStep \/ Tick \/ ReportSvs \/ CopyField \/ UNCHANGED vars
    BY <1>2 DEF CallStays, TestStep, BeginTest, LoopTop, CountSvs, ScanSv,
       ScanEnd, CheckTimeout, EndTest, Tick, ReportSvs, CopyField, vars,
       mainVars, closeVars
  <1>3. ASSUME NEW c \in Closers, Close(c)
        PROVE  CallStays'
    BY <1>0, <1>3 DEF CallStays, Close, CloseEnter, CloseStop, CloseCleanup,
       CloseExit, is_supported, AfterEnter, AfterStop, mainVars
  <1>4. CASE Sigint
    BY <1>0, <1>4 DEF CallStays, Sigint, mainVars
  <1> QED
    BY <1>1, <1>2, <1>3, <1>4 DEF Next

\* Neither handlers nor the join leave everybody waiting: gps_close on the
\* main thread is never suspended, and what it suspends it will end.
THEOREM NobodyWaits == Spec => []NeverStuck
  <1>1. Init => CallStays
    BY DEF Init, CallStays
  <1>2. IInv /\ CallStays => NeverStuck
    <2> SUFFICES ASSUME IInv, CallStays, wpc # "none", ~exited
                 PROVE  \/ \E c \in Closers : CloserRuns(c) /\ cpc[c] # "none"
                        \/ TestRuns /\ wpc \notin {"sleep", "done"}
                        \/ wpc = "sleep"
                        \/ MainRuns /\ pc = "join" /\ wpc = "done"
      BY DEF NeverStuck
    <2>1. /\ "call" \in Closers /\ "onMain" \in Closers
          /\ "onTest" \in Closers /\ pc \in {"join", "close"}
      BY DEF IInv, Started, Closers
    <2>2. CASE cpc["onMain"] # "none"
      <3>1. CloserRuns("onMain")
        BY DEF CloserRuns
      <3> QED
        BY <2>1, <2>2, <3>1
    <2>3. CASE cpc["onTest"] # "none"
      <3>1. CloserRuns("onTest")
        BY DEF CloserRuns
      <3> QED
        BY <2>1, <2>3, <3>1
    <2>4. CASE cpc["onMain"] = "none" /\ cpc["onTest"] = "none"
      <3>1. TestRuns /\ MainRuns /\ CloserRuns("call")
        BY <2>4 DEF TestRuns, MainRuns, CloserRuns
      <3>2. CASE pc = "close"
        BY <2>1, <3>1, <3>2 DEF CallStays
      <3>3. CASE pc = "join"
        BY <3>1, <3>3
      <3> QED
        BY <2>1, <3>2, <3>3
    <2> QED
      BY <2>2, <2>3, <2>4
  <1>3. Spec => []CallStays
    BY <1>1, NextCallStays, Invariance, PTL DEF Spec
  <1> QED
    BY <1>2, <1>3, Invariance, PTL

LEMMA TimeCounted ==
  ASSUME IInv
  PROVE  /\ RoundsLeft \in 0 .. GPS_TEST_TIME_OUT + 1
         /\ PlacesLeft \in 0 .. GPS_MAX_SVS + 8
  <1>1. /\ GPS_TEST_TIME_OUT \in Nat /\ GPS_MAX_SVS \in Nat /\ clock \in Nat
        /\ now \in Nat /\ i \in 0 .. GPS_MAX_SVS + 1
    BY BoundAssumption, ReportAssumption DEF IInv, CountsTyped
  <1>2. /\ RoundsFrom(clock) \in 0 .. GPS_TEST_TIME_OUT + 1
        /\ RoundsFrom(clock + 1) \in 0 .. GPS_TEST_TIME_OUT
    BY <1>1 DEF RoundsFrom
  <1>3. wpc \in {"none", "begin", "loop", "svs", "scan", "timeout", "sleep",
                 "linger", "done"}
    BY DEF IInv, StepsTyped
  <1>4. RoundsLeft \in 0 .. GPS_TEST_TIME_OUT + 1
    <2>1. CASE wpc \in {"none", "begin", "linger", "done"}
      BY <1>1, <2>1 DEF RoundsLeft
    <2>2. CASE wpc = "loop"
      BY <1>1, <1>2, <2>2 DEF RoundsLeft
    <2>3. CASE wpc = "sleep"
      BY <1>1, <1>2, <2>3 DEF RoundsLeft
    <2>4. CASE wpc \in {"svs", "scan", "timeout"}
      <3>1. RoundsLeft = IF TimedOut THEN 0 ELSE RoundsFrom(clock + 1) + 1
        BY <2>4 DEF RoundsLeft
      <3> QED
        BY <1>1, <1>2, <3>1
    <2> QED
      BY <1>3, <2>1, <2>2, <2>3, <2>4
  <1>5. PlacesLeft \in 0 .. GPS_MAX_SVS + 8
    <2>1. CASE wpc \in {"timeout", "sleep", "linger", "done"}
      <3>1. PlacesLeft \in 0 .. 3
        BY <2>1 DEF PlacesLeft
      <3> QED
        BY <1>1, <3>1
    <2>2. CASE wpc = "scan"
      BY <1>1, <2>2 DEF PlacesLeft
    <2>3. CASE wpc \in {"none", "begin", "loop", "svs"}
      <3>1. \E n \in 5 .. 8 : PlacesLeft = GPS_MAX_SVS + n
        BY <2>3 DEF PlacesLeft
      <3> QED
        BY <1>1, <3>1
    <2> QED
      BY <1>3, <2>1, <2>2, <2>3
  <1> QED
    BY <1>4, <1>5

\* The clock only goes forward, and a second is one round less.
LEMMA TimePasses ==
  ASSUME IInv, Tick
  PROVE  /\ clock' >= clock /\ clock' \in Nat
         /\ RoundsFrom(clock') <= RoundsFrom(clock)
         /\ RoundsFrom(clock') <= RoundsFrom(clock + 1)
         /\ RoundsFrom(clock' + 1) <= RoundsFrom(clock + 1)
  BY BoundAssumption DEF IInv, CountsTyped, Tick, RoundsFrom

\* A test takes at most GPS_TEST_TIME_OUT + 2 rounds of at most GPS_MAX_SVS + 8
\* steps, whatever the HAL reports, also while the table is scanned.
THEOREM TestBounded == Spec => TestUsesUpTime
  <1>1. IInv /\ [Next]_vars =>
          [/\ RoundsLeft \in 0 .. GPS_TEST_TIME_OUT + 1
           /\ PlacesLeft \in 0 .. GPS_MAX_SVS + 8
           /\ TestStep \/ (Tick /\ wpc = "sleep") => Nearer
           /\ NotFarther]_vars
    <2> SUFFICES ASSUME IInv, Next
                 PROVE  /\ TestStep \/ (Tick /\ wpc = "sleep") => Nearer
                        /\ NotFarther
      BY TimeCounted
    <2> USE DEF Nearer, NotFarther
    <2>0. /\ GPS_TEST_TIME_OUT \in Nat /\ GPS_MAX_SVS \in Nat /\ clock \in Nat
          /\ now \in Nat /\ i \in 0 .. GPS_MAX_SVS + 1
          /\ RoundsLeft \in Int /\ PlacesLeft \in Int
          /\ clock <= MaxClock /\ MaxClock \in Nat
          /\ MaxClock > GPS_TEST_TIME_OUT
          /\ wpc = "scan" => i >= 1
          /\ sGpsSvStatus.num_svs \in 0 .. GPS_MAX_SVS
      BY TimeCounted, BoundAssumption, ReportAssumption
      DEF IInv, CountsTyped, TableTyped, SvStatus
    <2>1. ASSUME BeginTest PROVE Nearer /\ NotFarther
      BY <2>0, <2>1 DEF BeginTest, RoundsLeft, PlacesLeft, RoundsFrom
    <2>2. ASSUME LoopTop PROVE Nearer /\ NotFarther
      <3>1. RoundsLeft' = RoundsLeft
        BY <2>0, <2>2 DEF LoopTop, RoundsLeft, RoundsFrom, TimedOut
      <3>2. PlacesLeft' < PlacesLeft /\ PlacesLeft' <= PlacesLeft
        BY <2>0, <2>2 DEF LoopTop, PlacesLeft
      <3> QED
        BY <2>0, <3>1, <3>2
    <2>3. ASSUME CountSvs PROVE Nearer /\ NotFarther
      <3>1. RoundsLeft' = RoundsLeft
        BY <2>3 DEF CountSvs, RoundsLeft, TimedOut
      <3>2. PlacesLeft' < PlacesLeft /\ PlacesLeft' <= PlacesLeft
        BY <2>0, <2>3 DEF CountSvs, PlacesLeft
      <3> QED
        BY <2>0, <3>1, <3>2
    <2>4. ASSUME ScanSv PROVE Nearer /\ NotFarther
      <3>1. RoundsLeft' = RoundsLeft
        BY <2>4 DEF ScanSv, RoundsLeft, TimedOut
      <3>2. PlacesLeft' < PlacesLeft /\ PlacesLeft' <= PlacesLeft
        BY <2>0, <2>4 DEF ScanSv, PlacesLeft
      <3> QED
        BY <2>0, <3>1, <3>2
    <2>5. ASSUME ScanEnd PROVE Nearer /\ NotFarther
      <3>1. RoundsLeft' = RoundsLeft \/ RoundsLeft' = 0
        BY <2>5 DEF ScanEnd, RoundsLeft, TimedOut
      <3>2. PlacesLeft' < PlacesLeft /\ PlacesLeft' <= PlacesLeft
        BY <2>0, <2>5 DEF ScanEnd, PlacesLeft
      <3>3. RoundsLeft \in 0 .. GPS_TEST_TIME_OUT + 1
        BY TimeCounted
      <3> QED
        BY <2>0, <3>1, <3>2, <3>3
    <2>6. ASSUME CheckTimeout PROVE Nearer /\ NotFarther
      <3>1. RoundsLeft' = RoundsLeft
        BY <2>6 DEF CheckTimeout, RoundsLeft, TimedOut
      <3>2. PlacesLeft' < PlacesLeft /\ PlacesLeft' <= PlacesLeft
        BY <2>0, <2>6 DEF CheckTimeout, PlacesLeft
      <3> QED
        BY <2>0, <3>1, <3>2
    <2>7. ASSUME EndTest PROVE Nearer /\ NotFarther
      <3>1. RoundsLeft' = RoundsLeft
        BY <2>7 DEF EndTest, RoundsLeft
      <3>2. PlacesLeft' < PlacesLeft /\ PlacesLeft' <= PlacesLeft
        BY <2>0, <2>7 DEF EndTest, PlacesLeft
      <3> QED
        BY <2>0, <3>1, <3>2
    <2>8. ASSUME Tick
          PROVE  NotFarther /\ (wpc = "sleep" => Nearer)
      <3>1. CASE wpc = "sleep"
        <4>1. RoundsLeft' < RoundsLeft
          BY <2>0, <2>8, <3>1 DEF Tick, RoundsLeft, RoundsFrom
        <4>2. RoundsLeft' <= RoundsLeft /\ RoundsLeft' # RoundsLeft
          BY <2>0, <2>8, <3>1 DEF Tick, RoundsLeft, RoundsFrom
        <4> QED
          BY <4>1, <4>2
      <3>2. CASE wpc # "sleep"
        <4>1. wpc' = wpc /\ i' = i /\ now' = now
          BY <2>8, <3>2 DEF Tick
        <4>2. PlacesLeft' = PlacesLeft
          BY <4>1 DEF PlacesLeft
        <4>3. RoundsLeft' <= RoundsLeft
          <5>1. CASE wpc = "loop"
            BY <2>0, <2>8, <4>1, <5>1 DEF Tick, RoundsLeft, RoundsFrom
          <5>2. CASE wpc \in {"svs", "scan", "timeout"}
            BY <2>0, <2>8, <4>1, <5>2
            DEF Tick, RoundsLeft, RoundsFrom, TimedOut
          <5>3. CASE wpc \in {"linger", "done"}
            BY <4>1, <5>3 DEF RoundsLeft
          <5> QED
            BY <2>8, <3>2, <5>1, <5>2, <5>3 DEF Tick, IInv, StepsTyped
        <4> QED
          BY <2>0, <3>2, <4>2, <4>3
      <3> QED
        BY <3>1, <3>2
    <2>9. ASSUME SpawnTest PROVE NotFarther
      <3>1. wpc = "none"
        BY <2>9 DEF SpawnTest, IInv, Started
      <3>2. RoundsLeft' = RoundsLeft
        BY <2>9, <3>1 DEF SpawnTest, RoundsLeft
      <3>3. PlacesLeft' <= PlacesLeft
        BY <2>0, <2>9, <3>1 DEF SpawnTest, PlacesLeft
      <3> QED
        BY <2>0, <3>2, <3>3
    <2>10. ASSUME UNCHANGED <<testVars, clock>> PROVE NotFarther
      <3>1. RoundsLeft' = RoundsLeft /\ PlacesLeft' = PlacesLeft
        BY <2>10 DEF testVars, RoundsLeft, PlacesLeft, TimedOut
      <3> QED
        BY <2>0, <3>1
    <2>11. ASSUME MainStep PROVE NotFarther
      <3>1. SpawnTest \/ UNCHANGED <<testVars, clock>>
        BY <2>11 DEF MainStep, InstallHandler, OpenHal, GetExtensions,
           CheckSupported, InitHal, InitFails, StartHal, StartFails, JoinTest
      <3> QED
        BY <2>9, <2>10, <3>1
    <2> HIDE DEF Nearer, NotFarther
    <2>12. TestStep => Nearer /\ NotFarther
      BY <2>1, <2>2, <2>3, <2>4, <2>5, <2>6, <2>7 DEF TestStep
    <2>13. (\E c \in Closers : Close(c)) \/ Sigint \/ ReportSvs \/ CopyField
             => NotFarther
      BY <2>10 DEF Close, CloseEnter, CloseStop, CloseCleanup, CloseExit,
         Sigint, ReportSvs, CopyField
    <2> QED
      BY <2>8, <2>11, <2>12, <2>13 DEF Next
  <1> QED
    BY <1>1, Invariance, PTL DEF Spec, TestUsesUpTime

\* Whatever interrupts it, an activation of gps_close that has found the HAL
\* stops it, cleans it up and ends the process, each in a step of its own.
THEOREM ClosesToTheEnd == Spec => ClosesOn
  <1>1. IInv /\ [Next]_vars =>
          [\A c \in Closers : sGpsInterface /\ cpc[c] # "none" =>
             /\ sGpsInterface'
             /\ cpc'[c] = cpc[c] \/ <<cpc[c], cpc'[c]>> \in AfterPlace
             /\ Close(c) => cpc'[c] # cpc[c] \/ exited']_vars
    <2> SUFFICES ASSUME IInv, Next, NEW c \in Closers, sGpsInterface,
                        cpc[c] # "none"
                 PROVE  /\ sGpsInterface'
                        /\ cpc'[c] = cpc[c]
                             \/ <<cpc[c], cpc'[c]>> \in AfterPlace
                        /\ Close(c) => cpc'[c] # cpc[c] \/ exited'
      OBVIOUS
    <2>0. /\ cpc \in [Closers -> {"none", "enter", "stop", "cleanup", "exit"}]
          /\ "call" \in Closers /\ "onMain" \in Closers
          /\ "onTest" \in Closers
          /\ pc # "open" /\ (pc = "join" => cpc["call"] = "none")
      BY DEF IInv, StepsTyped, Started, Closing, Closers
    <2>1. Close(c) => cpc'[c] # cpc[c] \/ exited'
      BY <2>0 DEF Close, CloseEnter, CloseStop, CloseCleanup, CloseExit,
         is_supported, AfterEnter, AfterStop
    <2> DEFINE Kept == /\ sGpsInterface'
                       /\ cpc'[c] = cpc[c]
                            \/ <<cpc[c], cpc'[c]>> \in AfterPlace
    <2>2. MainStep => Kept
      BY <2>0 DEF MainStep, InstallHandler, OpenHal, GetExtensions,
         CheckSupported, InitHal, InitFails, StartHal, StartFails, SpawnTest,
         JoinTest, closeVars
    <2>3. TestStep \/ Tick \/ ReportSvs \/ CopyField => Kept
      BY DEF TestStep, BeginTest, LoopTop, CountSvs, ScanSv, ScanEnd,
         CheckTimeout, EndTest, Tick, ReportSvs, CopyField, mainVars,
         closeVars
    <2>4. ASSUME NEW b \in Closers, Close(b) PROVE Kept
      BY <2>0, <2>4 DEF AfterPlace, Close, CloseEnter, CloseStop,
         CloseCleanup, CloseExit, is_supported, AfterEnter, AfterStop, mainVars
    <2>5. ASSUME Sigint PROVE Kept
      <3>1. /\ sGpsInterface' = sGpsInterface
            /\ \/ cpc["onMain"] = "none"
                  /\ cpc' = [cpc EXCEPT !["onMain"] = "enter"]
               \/ cpc["onTest"] = "none"
                  /\ cpc' = [cpc EXCEPT !["onTest"] = "enter"]
        BY <2>5 DEF Sigint, mainVars
      <3> QED
        BY <2>0, <3>1
    <2> QED
      BY <2>1, <2>2, <2>3, <2>4, <2>5 DEF Next
  <1> QED
    BY <1>1, Invariance, PTL DEF Spec, ClosesOn
=============================================================================
