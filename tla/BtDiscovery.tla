----------------------------- MODULE BtDiscovery -----------------------------
(***************************************************************************)
(* The Bluetooth discovery test, bluethood_test of                         *)
(* src/bt_test/zib_bluetooth_test.c, with the callbacks of                 *)
(* src/bt_test/zib_bluetooth.c.                                            *)
(*                                                                         *)
(* The main thread loads and enables the Bluetooth stack, asks for a       *)
(* discovery and polls two status variables.  The stack works on its own   *)
(* and calls back, one callback at a time in the order things happen:      *)
(* adapter_state_changed, discovery_state_changed_cb, device_found_cb and  *)
(* ssp_request_cb.  Neither the results of the requests nor bt_enabled is  *)
(* looked at before the discovery is asked for, and the callbacks stay     *)
(* registered after HAL_unload has cleared sBtInterface.                   *)
(*                                                                         *)
(* gatt_init sets sGattIf, which this test never uses; it is left out.     *)
(***************************************************************************)
EXTENDS Integers

CONSTANT MaxRuns        \* bound: calls of bluethood_test

ASSUME RunAssumption == MaxRuns \in Nat

\* bt_discovery_state_t, and the value before the first callback.
BT_DISCOVERY_STOPPED == 0
BT_DISCOVERY_STARTED == 1

VARIABLES
  pc, runs,             \* where bluethood_test is, calls of it so far
  sBtInterface,         \* is the pointer set?
  bt_enabled,
  device_find_status, discovery_state_changed_status,
  outcome,              \* what the last call has printed
  cb,                   \* where the callback thread is
  crashed,              \* the callback that used a null sBtInterface
  registered,           \* has the stack got the callbacks?
  adapter,              \* the adapter: "off", "turning" or "on"
  requested,            \* has the stack accepted a discovery?
  discovering,          \* is one under way?
  started,              \* has there ever been one?
  last, reported        \* the last device reported, the kinds reported so far

mainVars == <<pc, runs, sBtInterface, outcome>>
statusVars == <<device_find_status, discovery_state_changed_status>>
callbackVars == <<cb, crashed>>
reportVars == <<last, reported>>
stackVars == <<registered, adapter, requested, discovering, started>>
vars == <<mainVars, bt_enabled, statusVars, callbackVars, stackVars,
          reportVars>>

\* Mutant of NotYet: nothing seen yet looks like stopped.
StoppedAtFirst == 0

\* discovery_state_changed_status before any callback.
NotYet == -1

Init ==
  /\ pc = "idle" /\ runs = 0 /\ outcome = "none"
  /\ sBtInterface = FALSE /\ bt_enabled = 0
  /\ device_find_status = 0
  /\ discovery_state_changed_status = NotYet
  /\ cb = "idle" /\ crashed = "none"
  /\ registered = FALSE /\ adapter = "off"
  /\ requested = FALSE /\ discovering = FALSE /\ started = FALSE
  /\ last = "none" /\ reported = {}

Running == crashed = "none"

-----------------------------------------------------------------------------
(* bluethood_test.                                                         *)

\* HAL_load: the process ends if there is no stack.
Load ==
  /\ Running /\ pc = "idle" /\ runs < MaxRuns
  /\ runs' = runs + 1
  /\ outcome' = "none"
  /\ sBtInterface' \in BOOLEAN
  /\ pc' = IF sBtInterface' THEN "init" ELSE "exited"
  /\ UNCHANGED <<bt_enabled, statusVars, callbackVars, stackVars, reportVars>>

\* bdt_init: the stack takes the callbacks or refuses; the code goes on.
InitStack ==
  /\ Running /\ pc = "init"
  /\ registered' \in {TRUE, registered}
  /\ pc' = "enable"
  /\ UNCHANGED <<runs, sBtInterface, outcome, bt_enabled, statusVars,
                 callbackVars, adapter, requested, discovering, started, reportVars>>

\* bdt_enable: unless the adapter is known to be on, it is told to turn on;
\* the stack may refuse and does so without callbacks.
Enable ==
  /\ Running /\ pc = "enable"
  /\ \/ bt_enabled = 0 /\ registered /\ adapter = "off" /\ adapter' = "turning"
     \/ UNCHANGED adapter
  /\ pc' = "discover"
  /\ UNCHANGED <<runs, sBtInterface, outcome, bt_enabled, statusVars,
                 callbackVars, registered, requested, discovering, started,
                 reportVars>>

\* do_start_discovery, two seconds later: the stack accepts only with the
\* adapter on, and the answer is not looked at.
Discover ==
  /\ Running /\ pc = "discover"
  /\ requested' \in {requested, adapter = "on"}
  /\ pc' = "poll"
  /\ UNCHANGED <<runs, sBtInterface, outcome, bt_enabled, statusVars,
                 callbackVars, registered, adapter, discovering, started, reportVars>>

\* One turn of the loop, first half: a device has been found.
PollFound ==
  /\ Running /\ pc = "poll"
  /\ IF device_find_status = 1
     THEN pc' = "unload" /\ outcome' = "found"
     ELSE pc' = "stopped" /\ UNCHANGED outcome
  /\ UNCHANGED <<runs, sBtInterface, bt_enabled, statusVars, callbackVars,
                 stackVars, reportVars>>

\* The discovery is seen to have stopped.
Stopped == discovery_state_changed_status = BT_DISCOVERY_STOPPED

\* Second half: the discovery has stopped.
PollStopped ==
  /\ Running /\ pc = "stopped"
  /\ pc' = IF Stopped THEN "print" ELSE "poll"
  /\ UNCHANGED <<runs, sBtInterface, outcome, bt_enabled, statusVars,
                 callbackVars, stackVars, reportVars>>

\* Mutant of PrintResult: what is printed was decided before.
PrintFailed ==
  /\ Running /\ pc = "print"
  /\ outcome' = "failed"
  /\ pc' = "unload"
  /\ UNCHANGED <<runs, sBtInterface, bt_enabled, statusVars, callbackVars,
                 stackVars, reportVars>>

\* device_find_status is read once more for the outcome.
PrintResult ==
  /\ Running /\ pc = "print"
  /\ outcome' = IF device_find_status = 1 THEN "success" ELSE "failed"
  /\ pc' = "unload"
  /\ UNCHANGED <<runs, sBtInterface, bt_enabled, statusVars, callbackVars,
                 stackVars, reportVars>>

\* HAL_unload; the stack, its adapter and its callbacks stay as they are.
Unload ==
  /\ Running /\ pc = "unload"
  /\ sBtInterface' = FALSE
  /\ pc' = "idle"
  /\ UNCHANGED <<runs, outcome, bt_enabled, statusVars, callbackVars,
                 stackVars, reportVars>>

-----------------------------------------------------------------------------
(* The callbacks; each begins when the stack has something to tell.        *)

\* A callback can begin.
Callback == Running /\ registered /\ cb = "idle"

\* The adapter is on: adapter_state_changed up to its first property.
AdapterOn ==
  /\ Callback /\ adapter = "turning"
  /\ adapter' = "on"
  /\ bt_enabled' = 1
  /\ cb' = "timeout"
  /\ UNCHANGED <<mainVars, statusVars, crashed, registered, requested,
                 discovering, started, reportVars>>

\* The adapter could not be turned on.
AdapterOff ==
  /\ Callback /\ adapter = "turning"
  /\ adapter' = "off"
  /\ bt_enabled' = 0
  /\ UNCHANGED <<mainVars, statusVars, callbackVars, registered, requested,
                 discovering, started, reportVars>>

\* set_adapter_discoveryTimeout and then set_adapter_discoveryMode call the
\* stack through sBtInterface.
SetProperty ==
  /\ Running /\ cb \in {"timeout", "mode"}
  /\ IF sBtInterface
     THEN /\ cb' = IF cb = "timeout" THEN "mode" ELSE "idle"
          /\ UNCHANGED crashed
     ELSE crashed' = "adapter" /\ UNCHANGED cb
  /\ UNCHANGED <<mainVars, bt_enabled, statusVars, stackVars, reportVars>>

\* discovery_state_changed_cb(BT_DISCOVERY_STARTED).
DiscoveryStarts ==
  /\ Callback /\ requested /\ ~discovering
  /\ requested' = FALSE
  /\ discovering' = TRUE
  /\ started' = TRUE
  /\ discovery_state_changed_status' = BT_DISCOVERY_STARTED
  /\ UNCHANGED <<mainVars, bt_enabled, device_find_status, callbackVars,
                 registered, adapter, reportVars>>

\* Mutant of DiscoveryStops: the state is not recorded.
DiscoveryStopsUnseen ==
  /\ Callback /\ discovering
  /\ discovering' = FALSE
  /\ UNCHANGED <<mainVars, bt_enabled, statusVars, callbackVars, registered,
                 adapter, requested, started, reportVars>>

\* discovery_state_changed_cb(BT_DISCOVERY_STOPPED).
DiscoveryStops ==
  /\ Callback /\ discovering
  /\ discovering' = FALSE
  /\ discovery_state_changed_status' = BT_DISCOVERY_STOPPED
  /\ UNCHANGED <<mainVars, bt_enabled, device_find_status, callbackVars,
                 registered, adapter, requested, started, reportVars>>

\* device_found_cb begins: the status is reset, whoever was found before.
FoundBegins ==
  /\ Callback /\ discovering
  /\ device_find_status' = 0
  /\ cb' \in {"address", "noaddress"}
  /\ UNCHANGED <<mainVars, bt_enabled, discovery_state_changed_status,
                 crashed, stackVars, reportVars>>

\* Mutant of FoundEnds: the address is not looked at.
FoundEndsAlways ==
  /\ Running /\ cb \in {"address", "noaddress"}
  /\ last' = cb /\ reported' = reported \cup {cb}
  /\ device_find_status' = 1
  /\ cb' = "idle"
  /\ UNCHANGED <<mainVars, bt_enabled, discovery_state_changed_status,
                 crashed, stackVars>>

\* device_found_cb ends: a device whose properties have an address is found.
FoundEnds ==
  /\ Running /\ cb \in {"address", "noaddress"}
  /\ last' = cb /\ reported' = reported \cup {cb}
  /\ device_find_status' = IF cb = "address" THEN 1 ELSE device_find_status
  /\ cb' = "idle"
  /\ UNCHANGED <<mainVars, bt_enabled, discovery_state_changed_status,
                 crashed, stackVars>>

\* ssp_request_cb answers a pairing request through sBtInterface.
PairingRequest ==
  /\ Callback /\ adapter = "on"
  /\ IF sBtInterface THEN UNCHANGED crashed ELSE crashed' = "pairing"
  /\ UNCHANGED <<mainVars, bt_enabled, statusVars, cb, stackVars, reportVars>>

-----------------------------------------------------------------------------
MainStep == \/ InitStack \/ Enable \/ Discover \/ PollFound \/ PollStopped
            \/ PrintResult \/ Unload

\* The callback thread finishes what it has begun.
CallbackStep == SetProperty \/ FoundEnds

Next == \/ Load \/ MainStep \/ CallbackStep
        \/ AdapterOn \/ AdapterOff \/ DiscoveryStarts \/ DiscoveryStops
        \/ FoundBegins \/ PairingRequest

Spec == Init /\ [][Next]_vars

\* Both threads run, and a discovery comes to its end (an inquiry has a
\* fixed length): however many devices answer, the stack reports the end.
Fairness == /\ WF_vars(MainStep) /\ WF_vars(CallbackStep)
            /\ SF_vars(DiscoveryStops)

FairSpec == Spec /\ Fairness

-----------------------------------------------------------------------------
(* What makes the test correct.                                            *)

\* Every variable has its type.
TypeOK ==
  /\ pc \in {"idle", "init", "enable", "discover", "poll", "stopped", "print",
             "unload", "exited"}
  /\ runs \in 0 .. MaxRuns
  /\ outcome \in {"none", "found", "success", "failed"}
  /\ sBtInterface \in BOOLEAN /\ bt_enabled \in {0, 1}
  /\ device_find_status \in {0, 1}
  /\ discovery_state_changed_status \in {-1, 0, 1}
  /\ cb \in {"idle", "timeout", "mode", "address", "noaddress"}
  /\ crashed \in {"none", "adapter", "pairing"}
  /\ registered \in BOOLEAN /\ adapter \in {"off", "turning", "on"}
  /\ requested \in BOOLEAN /\ discovering \in BOOLEAN /\ started \in BOOLEAN
  /\ last \in {"none", "address", "noaddress"}
  /\ reported \subseteq {"address", "noaddress"}

\* adapter_state_changed uses sBtInterface without a check and is safe all
\* the same: the test gets to HAL_unload only after callbacks the stack makes
\* later.  ssp_request_cb is not safe, and after the test nothing but a
\* pairing request can crash.
AdapterCallbackSafe ==
  /\ crashed # "adapter"
  /\ cb \in {"timeout", "mode"} => sBtInterface
  /\ crashed = "pairing" => pc \in {"idle", "exited"}

\* The loop is left only when a discovery has taken place.  When the stack
\* ignores the request, because the adapter needs more than two seconds, the
\* first test never ends (bluethood_test).
EndsOnlyIfDiscovered == pc \in {"print", "unload"} => started

\* A device is announced only if one with an address was reported, in this
\* call or in an earlier one: the status variables are not reset.
FoundIsReal == outcome \in {"found", "success"} => "address" \in reported

\* The first test prints "failed" only if the last device reported had no
\* address, which erases the devices found before it, or there was none.  A
\* later test can fail with a device just found: it may see the STOPPED of
\* the discovery before and the reset at the head of device_found_cb.
FailureIsReal ==
  [][runs = 1 /\ outcome' = "failed" /\ outcome = "none"
       => last # "address"]_vars

\* A discovery that has begun while the test polls lets it end, however the
\* callbacks fall between its two reads.
DiscoveryEndsTest ==
  discovering /\ pc \in {"poll", "stopped"} ~>
    pc \notin {"poll", "stopped"} \/ ~Running
=============================================================================
