---------------------------- MODULE MainDispatch ----------------------------
(***************************************************************************)
(* The dispatcher, main of src/main.cpp, with the two tests it can reach:  *)
(* zib_gsensor_test of src/gsensor_test.c and wifi_test of                 *)
(* src/ls_wifi_test.c.                                                     *)
(*                                                                         *)
(* main skips the first option and takes the result of strcmp, which is    *)
(* not 0 for words that differ, for equality.  So every word but "-g" runs *)
(* the sensor test, "-g" runs the WiFi test, and the other branches are    *)
(* never reached.  wifi_test only starts a thread and returns 0; that      *)
(* thread keeps the promises of FactoryTest, as module WifiScan shows, and *)
(* it ends with the process when main returns.                             *)
(***************************************************************************)
EXTENDS Integers, Sequences

CONSTANTS Words,        \* the options that can be given
          MaxWords      \* bound: how many

ASSUME WordAssumption == {"-g", "-w"} \subseteq Words /\ MaxWords \in Nat

VARIABLES
  args, argv,           \* the options, and those main has still to look at
  pc,                   \* "start", "loop", "tone" or "exited"
  ran,                  \* the test that has been called last
  tones,                \* what has been played
  phase, verdict,       \* the WiFi test, as in FactoryTest
  overlapped            \* was it started again while it was running?

wifiVars == <<phase, verdict>>
vars == <<args, argv, pc, ran, tones, wifiVars, overlapped>>

\* The WiFi test on its thread.
Wifi == INSTANCE FactoryTest WITH
          Verdicts <- {"pass", "fail"}, Unknown <- "unknown"

Init ==
  /\ \E n \in 0 .. MaxWords : args \in [1 .. n -> Words]
  /\ argv = args
  /\ pc = "start" /\ ran = "none" /\ tones = <<>>
  /\ Wifi!Init
  /\ overlapped = FALSE

\* Two tests at a time initialise a semaphore that is waited for, which has
\* no defined outcome.
Running == pc # "exited" /\ ~overlapped

-----------------------------------------------------------------------------
\* argv += 2: the program's name and one option; without options the usage.
Start ==
  /\ Running /\ pc = "start"
  /\ IF args = <<>> THEN pc' = "exited" /\ UNCHANGED argv
                    ELSE pc' = "loop" /\ argv' = Tail(argv)
  /\ UNCHANGED <<args, ran, tones, wifiVars, overlapped>>

\* The option at hand is used up, and t is called.
Take(t) ==
  /\ Running /\ pc = "loop" /\ argv # <<>>
  /\ argv' = Tail(argv)
  /\ ran' = t
  /\ pc' = "tone"
  /\ UNCHANGED <<args, tones>>

\* Mutant of Chosen: the result of strcmp is compared with 0.
ChosenIfEqual(word) == argv[1] = word

\* Does strcmp(*argv, word) let the branch for word be taken?
Chosen(word) == argv[1] # word

\* zib_gsensor_test returns 1 whatever the sensor has delivered.
SensorTest ==
  /\ Take("gsensor")
  /\ Chosen("-g")
  /\ UNCHANGED <<wifiVars, overlapped>>

\* wifi_test returns 0, whether or not the thread could be created.
WifiTest ==
  /\ Take("wifi")
  /\ ~Chosen("-g") /\ Chosen("-w")
  /\ \/ phase = "idle" /\ Wifi!Begin /\ UNCHANGED overlapped
     \/ phase = "testing" /\ overlapped' = TRUE /\ UNCHANGED wifiVars
     \/ UNCHANGED <<wifiVars, overlapped>>

\* Mutant of PlayTone: the tone waits for the verdict (get_wifi_test_result).
PlayToneOfVerdict ==
  /\ Running /\ pc = "tone"
  /\ tones' = Append(tones, IF ran = "gsensor" THEN "gsensor pass"
                            ELSE IF verdict = "pass" THEN "wifi pass"
                            ELSE "wifi fail")
  /\ pc' = "loop"
  /\ UNCHANGED <<args, argv, ran, wifiVars, overlapped>>

\* The tone for ret.
PlayTone ==
  /\ Running /\ pc = "tone"
  /\ tones' = Append(tones, IF ran = "gsensor" THEN "gsensor pass"
                                               ELSE "wifi fail")
  /\ pc' = "loop"
  /\ UNCHANGED <<args, argv, ran, wifiVars, overlapped>>

\* main returns, and the process ends with the WiFi test as it is.
Return ==
  /\ Running /\ pc = "loop" /\ argv = <<>>
  /\ pc' = "exited"
  /\ UNCHANGED <<args, argv, ran, tones, wifiVars, overlapped>>

\* The thread of the WiFi test gives up or comes to its verdict.
WifiThread ==
  /\ Running
  /\ Wifi!GiveUp \/ Wifi!Report
  /\ UNCHANGED <<args, argv, pc, ran, tones, overlapped>>

MainStep == Start \/ SensorTest \/ WifiTest \/ PlayTone \/ Return

Next == MainStep \/ WifiThread

Spec == Init /\ [][Next]_vars

\* Both tests that main can reach return.
FairSpec == Spec /\ WF_vars(MainStep)

-----------------------------------------------------------------------------
(* Properties.                                                             *)

\* The tone of the word at one place.
ToneOf(word) == IF word = "-g" THEN "wifi fail" ELSE "gsensor pass"

TonesOf(words) == [i \in DOMAIN words |-> ToneOf(words[i])]

\* The tones say nothing of the tests: they are fixed by the options from the
\* second one on, whatever verdict the WiFi test comes to before, between or
\* after them (main.cpp 48-52, 39-43).
TonesFixed ==
  pc = "loop" =>
    tones \o TonesOf(argv) = TonesOf(SubSeq(args, 2, Len(args)))

\* Every list of options is worked off: there is no word for which no branch
\* is taken and argv stays where it is.
MainEnds == <>(~Running)

\* What the usage says, "[-w] wifi test", main.cpp 27: the WiFi test is run
\* only when -w is among the options.
WifiNeedsW == ran = "wifi" => \E i \in DOMAIN args : args[i] = "-w"
=============================================================================
