-------------------------- MODULE BtDiscoveryProofs --------------------------
(***************************************************************************)
(* Proofs about BtDiscovery for every number of calls of bluethood_test.   *)
(* What carries them is that everything the test waits for comes after the *)
(* first discovery, and that the adapter never leaves "on" once it is      *)
(* there.                                                                  *)
(***************************************************************************)
EXTENDS BtDiscovery, TLAPS

\* Between HAL_load and HAL_unload the pointer is set.
Inside == {"init", "enable", "discover", "poll", "stopped", "print", "unload"}
PointerSet == pc \in Inside => sBtInterface

\* The adapter is on before anything can be discovered, and done with
\* adapter_state_changed before a discovery starts.
AdapterFirst ==
  /\ requested => adapter = "on"
  /\ cb # "idle" => adapter = "on"
  /\ started => adapter = "on" /\ cb \notin {"timeout", "mode"}
  /\ adapter # "off" /\ ~started => pc \in {"discover", "poll", "stopped"}

\* What the callbacks of a discovery leave behind shows there has been one.
DiscoveryFirst ==
  /\ discovering => started
  /\ cb \in {"address", "noaddress"} => started
  /\ device_find_status = 1 => started
  /\ discovery_state_changed_status # NotYet => started
  /\ pc \in {"print", "unload"} => started

\* The status is set by a device with an address only, and keeps it unless
\* device_found_cb is running.
StatusReal ==
  /\ device_find_status = 1 => "address" \in reported
  /\ last = "address" /\ cb \notin {"address", "noaddress"}
       => device_find_status = 1

\* The first call asks for one discovery, so nothing follows its end.
OneDiscovery ==
  /\ runs = 0 => pc = "idle" /\ ~started /\ ~requested
  /\ runs = 1 /\ pc \in {"init", "enable", "discover"} => ~started /\ ~requested
  /\ runs = 1 /\ started => ~requested
  /\ runs = 1 /\ discovery_state_changed_status = BT_DISCOVERY_STOPPED
       => ~discovering /\ cb \notin {"address", "noaddress"}
  /\ runs = 1 /\ pc = "print" =>
       discovery_state_changed_status = BT_DISCOVERY_STOPPED

IInv == /\ TypeOK /\ PointerSet /\ AdapterFirst /\ DiscoveryFirst
        /\ StatusReal /\ OneDiscovery /\ AdapterCallbackSafe /\ FoundIsReal

USE DEF BT_DISCOVERY_STOPPED, BT_DISCOVERY_STARTED, NotYet

LEMMA InitIInv == Init => IInv
  <1> SUFFICES ASSUME Init PROVE IInv
    OBVIOUS
  <1>1. TypeOK
    <2>1. /\ sBtInterface \in BOOLEAN /\ registered \in BOOLEAN
          /\ requested \in BOOLEAN /\ discovering \in BOOLEAN
          /\ started \in BOOLEAN
      BY Zenon DEF Init
    <2> QED
      BY <2>1, RunAssumption DEF Init, TypeOK
  <1>2. PointerSet /\ AdapterFirst /\ DiscoveryFirst
    BY DEF Init, PointerSet, Inside, AdapterFirst, DiscoveryFirst
  <1>3. StatusReal /\ OneDiscovery /\ AdapterCallbackSafe /\ FoundIsReal
    BY DEF Init, StatusReal, OneDiscovery, AdapterCallbackSafe, FoundIsReal
  <1> QED
    BY <1>1, <1>2, <1>3 DEF IInv

\* The steps of bluethood_test.
LEMMA MainKeeps ==
  ASSUME IInv, Load \/ MainStep
  PROVE  IInv'
  <1> USE DEF IInv, mainVars, statusVars, callbackVars, stackVars, reportVars,
          Running
  <1>1. CASE Load
    <2>1. TypeOK'
      BY <1>1, RunAssumption DEF Load, TypeOK
    <2>2. PointerSet' /\ AdapterFirst'
      BY <1>1 DEF Load, PointerSet, Inside, AdapterFirst, DiscoveryFirst,
         TypeOK, AdapterCallbackSafe
    <2>3. DiscoveryFirst' /\ StatusReal'
      BY <1>1 DEF Load, DiscoveryFirst, StatusReal, TypeOK
    <2>4. OneDiscovery'
      BY <1>1, RunAssumption DEF Load, OneDiscovery, DiscoveryFirst, TypeOK
    <2>5. AdapterCallbackSafe' /\ FoundIsReal'
      BY <1>1 DEF Load, AdapterCallbackSafe, FoundIsReal, PointerSet, Inside,
         AdapterFirst, StatusReal, TypeOK
    <2> QED
      BY <2>1, <2>2, <2>3, <2>4, <2>5
  <1>2. CASE InitStack
    <2>1. registered' \in BOOLEAN
      BY <1>2, Zenon DEF InitStack, TypeOK
    <2> QED
      BY <1>2, <2>1 DEF InitStack, TypeOK, PointerSet, Inside, AdapterFirst,
         DiscoveryFirst, StatusReal, OneDiscovery, AdapterCallbackSafe,
         FoundIsReal
  <1>3. CASE Enable
    BY <1>3 DEF Enable, TypeOK, PointerSet, Inside, AdapterFirst,
       DiscoveryFirst, StatusReal, OneDiscovery, AdapterCallbackSafe, FoundIsReal
  <1>4. CASE Discover
    <2>1. TypeOK'
      <3>1. requested' \in BOOLEAN
        BY <1>4, Zenon DEF Discover, TypeOK
      <3> QED
        BY <1>4, <3>1 DEF Discover, TypeOK
    <2>2. PointerSet' /\ AdapterFirst'
      BY <1>4 DEF Discover, PointerSet, Inside, AdapterFirst, DiscoveryFirst,
         TypeOK, AdapterCallbackSafe
    <2>3. DiscoveryFirst' /\ StatusReal'
      BY <1>4 DEF Discover, DiscoveryFirst, StatusReal, TypeOK
    <2>4. OneDiscovery'
      BY <1>4 DEF Discover, OneDiscovery, DiscoveryFirst, TypeOK
    <2>5. AdapterCallbackSafe' /\ FoundIsReal'
      BY <1>4 DEF Discover, AdapterCallbackSafe, FoundIsReal, PointerSet, Inside,
         AdapterFirst, StatusReal, TypeOK
    <2> QED
      BY <2>1, <2>2, <2>3, <2>4, <2>5
  <1>5. CASE PollFound
    BY <1>5 DEF PollFound, TypeOK, PointerSet, Inside, AdapterFirst,
       DiscoveryFirst, StatusReal, OneDiscovery, AdapterCallbackSafe, FoundIsReal
  <1>6. CASE PollStopped
    BY <1>6 DEF PollStopped, Stopped, TypeOK, PointerSet, Inside, AdapterFirst,
       DiscoveryFirst, StatusReal, OneDiscovery, AdapterCallbackSafe, FoundIsReal
  <1>7. CASE PrintResult
    BY <1>7 DEF PrintResult, TypeOK, PointerSet, Inside, AdapterFirst,
       DiscoveryFirst, StatusReal, OneDiscovery, AdapterCallbackSafe, FoundIsReal
  \* HAL_unload comes after a discovery: adapter_state_changed is over.
  <1>8. CASE Unload
    <2>1. TypeOK'
      <3>1. sBtInterface' \in BOOLEAN
        BY <1>8, Zenon DEF Unload, TypeOK
      <3> QED
        BY <1>8, <3>1 DEF Unload, TypeOK
    <2>2. PointerSet' /\ AdapterFirst'
      BY <1>8 DEF Unload, PointerSet, Inside, AdapterFirst, DiscoveryFirst,
         TypeOK, AdapterCallbackSafe
    <2>3. DiscoveryFirst' /\ StatusReal'
      BY <1>8 DEF Unload, DiscoveryFirst, StatusReal, TypeOK
    <2>4. OneDiscovery'
      BY <1>8 DEF Unload, OneDiscovery, DiscoveryFirst, TypeOK
    <2>5. AdapterCallbackSafe' /\ FoundIsReal'
      BY <1>8 DEF Unload, AdapterCallbackSafe, FoundIsReal, PointerSet, Inside,
         AdapterFirst, StatusReal, TypeOK
    <2> QED
      BY <2>1, <2>2, <2>3, <2>4, <2>5
  <1> QED
    BY <1>1, <1>2, <1>3, <1>4, <1>5, <1>6, <1>7, <1>8 DEF MainStep

\* The adapter's callback and the pairing's.
LEMMA AdapterKeeps ==
  ASSUME IInv, AdapterOn \/ AdapterOff \/ SetProperty \/ PairingRequest
  PROVE  IInv'
  <1> USE DEF IInv, mainVars, statusVars, callbackVars, stackVars, reportVars,
          Running, Callback
  <1>1. CASE AdapterOn
    BY <1>1 DEF AdapterOn, TypeOK, PointerSet, Inside, AdapterFirst,
       DiscoveryFirst, StatusReal, OneDiscovery, AdapterCallbackSafe, FoundIsReal
  <1>2. CASE AdapterOff
    BY <1>2 DEF AdapterOff, TypeOK, PointerSet, Inside, AdapterFirst,
       DiscoveryFirst, StatusReal, OneDiscovery, AdapterCallbackSafe, FoundIsReal
  <1>3. CASE SetProperty
    BY <1>3 DEF SetProperty, TypeOK, PointerSet, Inside, AdapterFirst,
       DiscoveryFirst, StatusReal, OneDiscovery, AdapterCallbackSafe, FoundIsReal
  <1>4. CASE PairingRequest
    BY <1>4 DEF PairingRequest, TypeOK, PointerSet, Inside, AdapterFirst,
       DiscoveryFirst, StatusReal, OneDiscovery, AdapterCallbackSafe, FoundIsReal
  <1> QED
    BY <1>1, <1>2, <1>3, <1>4

\* The callbacks of a discovery.
LEMMA DiscoveryKeeps ==
  ASSUME IInv, DiscoveryStarts \/ DiscoveryStops \/ FoundBegins \/ FoundEnds
  PROVE  IInv'
  <1> USE DEF IInv, mainVars, statusVars, callbackVars, stackVars, reportVars,
          Running, Callback
  <1>1. CASE DiscoveryStarts
    BY <1>1 DEF DiscoveryStarts, TypeOK, PointerSet, Inside, AdapterFirst,
       DiscoveryFirst, StatusReal, OneDiscovery, AdapterCallbackSafe, FoundIsReal
  <1>2. CASE DiscoveryStops
    <2>1. TypeOK'
      <3>1. discovering' \in BOOLEAN
        BY <1>2, Zenon DEF DiscoveryStops, TypeOK
      <3> QED
        BY <1>2, <3>1 DEF DiscoveryStops, TypeOK
    <2>2. PointerSet' /\ AdapterFirst'
      BY <1>2 DEF DiscoveryStops, PointerSet, Inside, AdapterFirst, DiscoveryFirst,
         TypeOK, AdapterCallbackSafe
    <2>3. DiscoveryFirst' /\ StatusReal'
      BY <1>2 DEF DiscoveryStops, DiscoveryFirst, StatusReal, TypeOK
    <2>4. OneDiscovery'
      BY <1>2 DEF DiscoveryStops, OneDiscovery, DiscoveryFirst, TypeOK
    <2>5. AdapterCallbackSafe' /\ FoundIsReal'
      BY <1>2 DEF DiscoveryStops, AdapterCallbackSafe, FoundIsReal, PointerSet, Inside,
         AdapterFirst, StatusReal, TypeOK
    <2> QED
      BY <2>1, <2>2, <2>3, <2>4, <2>5
  <1>3. CASE FoundBegins
    BY <1>3 DEF FoundBegins, TypeOK, PointerSet, Inside, AdapterFirst,
       DiscoveryFirst, StatusReal, OneDiscovery, AdapterCallbackSafe, FoundIsReal
  <1>4. CASE FoundEnds
    BY <1>4 DEF FoundEnds, TypeOK, PointerSet, Inside, AdapterFirst,
       DiscoveryFirst, StatusReal, OneDiscovery, AdapterCallbackSafe, FoundIsReal
  <1> QED
    BY <1>1, <1>2, <1>3, <1>4

LEMMA NextIInv == IInv /\ [Next]_vars => IInv'
  <1>1. CASE UNCHANGED vars
    BY <1>1 DEF vars, mainVars, statusVars, callbackVars, stackVars,
       reportVars, IInv, TypeOK, PointerSet, Inside, AdapterFirst,
       DiscoveryFirst, StatusReal, OneDiscovery, AdapterCallbackSafe, FoundIsReal
  <1> QED
    BY <1>1, MainKeeps, AdapterKeeps, DiscoveryKeeps DEF Next, CallbackStep

THEOREM Invariance == Spec => []IInv
  <1> QED
    BY InitIInv, NextIInv, PTL DEF Spec

\* bluethood_test and the callbacks of zib_bluetooth.c keep their variables in
\* their types, however often the test is called.
THEOREM TypeCorrect == Spec => []TypeOK
  <1>1. IInv => TypeOK
    BY DEF IInv
  <1> QED
    BY <1>1, Invariance, PTL

\* adapter_state_changed never uses a null sBtInterface, and a pairing request
\* can do so only outside bluethood_test.
THEOREM AdapterSafe == Spec => []AdapterCallbackSafe
  <1>1. IInv => AdapterCallbackSafe
    BY DEF IInv
  <1> QED
    BY <1>1, Invariance, PTL

\* bluethood_test leaves its loop only after a discovery: if the stack ignored
\* the request it polls for ever.
THEOREM LeavesAfterDiscovery == Spec => []EndsOnlyIfDiscovered
  <1>1. IInv => EndsOnlyIfDiscovered
    BY DEF IInv, DiscoveryFirst, EndsOnlyIfDiscovered
  <1> QED
    BY <1>1, Invariance, PTL

\* bluethood_test announces a device only if the stack has reported one with an
\* address.
THEOREM FoundDevices == Spec => []FoundIsReal
  <1>1. IInv => FoundIsReal
    BY DEF IInv
  <1> QED
    BY <1>1, Invariance, PTL

\* The first call of bluethood_test prints "failed" only if the last device
\* reported, if any, had no address.
THEOREM FirstFailure == Spec => FailureIsReal
  <1>1. IInv /\ [Next]_vars =>
          [runs = 1 /\ outcome' = "failed" /\ outcome = "none"
             => last # "address"]_vars
    <2> SUFFICES ASSUME IInv, Next, runs = 1, outcome' = "failed",
                        outcome = "none"
                 PROVE  last # "address"
      BY DEF vars, mainVars
    <2>1. PrintResult
      BY DEF Next, MainStep, CallbackStep, Load, InitStack, Enable, Discover,
         PollFound, PollStopped, Unload, AdapterOn, AdapterOff, SetProperty,
         DiscoveryStarts, DiscoveryStops, FoundBegins, FoundEnds,
         PairingRequest, mainVars
    <2>2. device_find_status # 1 /\ pc = "print"
      BY <2>1 DEF PrintResult
    <2>3. cb \notin {"address", "noaddress"}
      BY <2>2 DEF IInv, OneDiscovery
    <2> QED
      BY <2>2, <2>3 DEF IInv, StatusReal
  <1> QED
    BY <1>1, Invariance, PTL DEF Spec, FailureIsReal

-----------------------------------------------------------------------------
(* When the loop of bluethood_test is left.                                *)

Polling == pc \in {"poll", "stopped"}

\* The stack has ignored the request, and there has been no discovery before.
Ignored == Polling /\ ~requested /\ ~started

\* There has been a discovery, and none is under way or still to come.
Ended == Polling /\ started /\ ~requested /\ ~discovering

\* An ignored request is never made good: the test polls for ever.  Once the
\* last discovery is over, the test sees it at the end of the round at the
\* latest.
LoopLeft ==
  [][/\ Ignored => Ignored'
     /\ Ended => Ended' \/ pc' \in {"print", "unload"}
     /\ Ended /\ PollStopped => pc' = "print"]_vars

\* discovery_state_changed_status says whether a discovery is under way.
StateKnown ==
  started => discovery_state_changed_status
               = IF discovering THEN BT_DISCOVERY_STARTED ELSE BT_DISCOVERY_STOPPED

LEMMA NextStateKnown ==
  IInv /\ StateKnown /\ [Next]_vars => StateKnown'
  <1> SUFFICES ASSUME IInv, StateKnown, [Next]_vars PROVE StateKnown'
    OBVIOUS
  <1>1. CASE UNCHANGED <<discovery_state_changed_status, discovering, started>>
    BY <1>1 DEF StateKnown
  <1>2. CASE DiscoveryStarts
    BY <1>2 DEF DiscoveryStarts, StateKnown
  <1>3. CASE DiscoveryStops
    BY <1>3 DEF DiscoveryStops, StateKnown
  <1> QED
    BY <1>1, <1>2, <1>3
    DEF Next, MainStep, CallbackStep, Load, InitStack, Enable, Discover,
        PollFound, PollStopped, PrintResult, Unload, AdapterOn, AdapterOff,
        SetProperty, FoundBegins, FoundEnds, PairingRequest, vars, statusVars,
        stackVars

\* bluethood_test ends exactly if the stack did not ignore its first request:
\* nothing that happens later lets it go, and no interleaving of the callbacks
\* with its two reads makes it miss the end of the last discovery.
THEOREM LeavesLoop == Spec => LoopLeft
  <1>1. Init => StateKnown
    BY DEF Init, StateKnown
  <1>2. Spec => []StateKnown
    BY <1>1, NextStateKnown, Invariance, PTL DEF Spec
  <1>3. IInv /\ StateKnown /\ [Next]_vars =>
          [/\ Ignored => Ignored'
           /\ Ended => Ended' \/ pc' \in {"print", "unload"}
           /\ Ended /\ PollStopped => pc' = "print"]_vars
    <2> SUFFICES ASSUME IInv, StateKnown, Next
                 PROVE  /\ Ignored => Ignored'
                        /\ Ended => Ended' \/ pc' \in {"print", "unload"}
                        /\ Ended /\ PollStopped => pc' = "print"
      OBVIOUS
    <2> USE DEF Polling, Ignored, Ended
    <2>1. /\ device_find_status = 1 => started
          /\ discovery_state_changed_status # NotYet => started
          /\ discovering => started
      BY DEF IInv, DiscoveryFirst
    <2>2. Ended /\ PollStopped => pc' = "print"
      BY DEF PollStopped, Stopped, StateKnown
    <2>3. CASE PollFound \/ PollStopped
      BY <2>1, <2>2, <2>3 DEF PollFound, PollStopped, Stopped, stackVars
    <2>4. CASE DiscoveryStarts \/ DiscoveryStops
      BY <2>1, <2>2, <2>4 DEF DiscoveryStarts, DiscoveryStops, mainVars
    <2>5. CASE Load \/ InitStack \/ Enable \/ Discover \/ PrintResult \/ Unload
      BY <2>2, <2>5 DEF Load, InitStack, Enable, Discover, PrintResult, Unload
    <2>6. CASE AdapterOn \/ AdapterOff \/ SetProperty \/ FoundBegins
                 \/ FoundEnds \/ PairingRequest
      BY <2>2, <2>6
      DEF AdapterOn, AdapterOff, SetProperty, FoundBegins, FoundEnds,
          PairingRequest, mainVars, stackVars
    <2> QED
      BY <2>2, <2>3, <2>4, <2>5, <2>6 DEF Next, MainStep, CallbackStep
  <1> QED
    BY <1>2, <1>3, Invariance, PTL DEF Spec, LoopLeft
=============================================================================
