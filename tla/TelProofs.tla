------------------------------ MODULE TelProofs ------------------------------
(***************************************************************************)
(* Proofs about the telephone test: about TelClient for any number of      *)
(* services, AppClients, reconnections, calls and tests, and about         *)
(* TelCodec for texts, lists and numbers of any length.                    *)
(***************************************************************************)
EXTENDS TelClient, TelCodec, SequenceTheorems, WellFoundedInduction, TLAPS

-----------------------------------------------------------------------------
(* The types.                                                              *)

MakePlaces == {"connect", "callback", "firstClient", "processThread", "made"}
SendPlaces == {"send", "check", "transact", "answered"}
ReconnectPlaces == {"notReady", "getService", "ready", "link", "addClient"}
Places == {"idle", "getInstance", "return", "gotInstance", "register",
           "sleep", "deregister", "ended"}
            \cup MakePlaces \cup SendPlaces \cup ReconnectPlaces

PlacesTyped ==
  /\ pc \in [Threads -> Places]
  /\ pc[Test] \notin ReconnectPlaces \cup {"ended"}
  /\ pc[Process] \in SendPlaces \cup {"idle"}
  /\ \A t \in Reconnectors :
       pc[t] \notin SendPlaces \cup {"register", "sleep", "deregister"}

\* The living service is the last one that was started.
ServicesTyped ==
  /\ service \in Services \cup {NULL} /\ born \in 0 .. MaxServices
  /\ clients \subseteq Services
  /\ service # NULL => service = born

CountsTyped ==
  /\ calls \in 0 .. MaxCalls /\ messages \in 0 .. calls
  /\ mode \in {"none", "listen", "dial"}
  /\ request \in {"none", "imsi", "simStatus", "dial"}
  /\ tests \in 0 .. MaxTests /\ result \in {"none", "0"}
  /\ fault \in {"none", "p_thread", "callback", "pservice", "deleted"}
  /\ retry_count \in [Threads -> 0 .. MAX_RETRY]

\* AppClients hold proxies of, and links to, services that there have been.
ObjectsTyped ==
  /\ life \in [Objects -> {"none", "made", "deleted"}]
  /\ pservice \in [Objects -> Services \cup {NULL}]
  /\ links \in [Objects -> [Services -> Nat]]
  /\ \A o \in Objects : pservice[o] <= born
  /\ \A o \in Objects, s \in Services : links[o][s] > 0 => s <= born

ReadyTyped == is_serviceready \in [Objects -> BOOLEAN]
FlagsTyped == /\ s_registerClient \in BOOLEAN /\ s_ClientCallbacks \in BOOLEAN
              /\ p_thread \in BOOLEAN /\ pool \in BOOLEAN /\ dialled \in BOOLEAN
              /\ orphaned \in BOOLEAN

\* A thread that uses an AppClient has one, and so has the test's code.
UsesThis == MakePlaces \cup ReconnectPlaces
              \cup {"gotInstance", "check", "transact"}
PointersTyped ==
  /\ mInstance \in Objects \cup {NULL} /\ mClientInstance \in Objects \cup {NULL}
  /\ this \in [Threads -> Objects \cup {NULL}]
  /\ \A t \in Threads : pc[t] \in UsesThis => this[t] \in Objects
  /\ \A t \in Threads : pc[t] = "return" => mInstance \in Objects
  /\ pc[Test] \in SendPlaces \cup {"register", "sleep", "deregister"}
       => mClientInstance \in Objects

\* The AppClient a thread is making is known to no other thread, and what it
\* has got from getService stays there.
Owned ==
  /\ mInstance \in Objects => life[mInstance] # "none"
  /\ mClientInstance \in Objects => life[mClientInstance] # "none"
  /\ \A t \in Threads : pc[t] \in UsesThis => life[this[t]] # "none"
  /\ \A t \in Threads : pc[t] \in MakePlaces =>
       this[t] # mInstance /\ this[t] # mClientInstance
  /\ \A t, u \in Threads :
       t # u /\ pc[t] \in MakePlaces /\ pc[u] \in UsesThis => this[u] # this[t]
  /\ \A t \in Threads : pc[t] \in {"callback", "firstClient"} =>
       pservice[this[t]] # NULL

Typed == /\ Owned
         /\ PlacesTyped /\ ServicesTyped /\ CountsTyped /\ ObjectsTyped
         /\ ReadyTyped /\ FlagsTyped /\ PointersTyped

-----------------------------------------------------------------------------

\* A step that dereferences what it must not changes nothing else.
Freezes(kind) == fault = "none" /\ Faults(kind)
Kinds == {"p_thread", "callback", "pservice", "deleted"}

\* The steps on a pointer that leads somewhere.
Checks(t)    == CheckReady(t) /\ ~Deleted(t)
Transacts(t) == Transact(t) /\ ~Deleted(t) /\ pservice[this[t]] # NULL
Handles      == HandleCall /\ s_ClientCallbacks
Deregisters  == DeregisterClient /\ life[mClientInstance] # "deleted"
Calls        == IncomingCall /\ p_thread

\* The kinds of steps.
Makes(t)      == t \in Makers /\ Make(t)
Reconnects(t) == /\ t \in Reconnectors
                 /\ \/ Unlink(t) \/ NotReady(t) \/ GetService(t) \/ Ready(t)
                    \/ LinkToDeath(t) \/ AddClient(t)
Sends(t)      == /\ t \in {Test, Process}
                 /\ SendRequest(t) \/ Checks(t) \/ Transacts(t)
Tests         == KeepInstance \/ StoreCallbacks \/ Answered \/ Deregisters
                   \/ StartTest
ProcessCalls  == Handles \/ CallHandled \/ Calls
Dies(o, s)    == o \in Objects /\ s \in Services /\ BinderDied(o, s)
Environs      == ServiceStarts \/ ServiceDies

LEMMA Steps ==
  ASSUME [Next]_vars
  PROVE  \/ UNCHANGED vars
         \/ \E kind \in Kinds : Freezes(kind)
         \/ /\ fault = "none"
            /\ \/ \E t \in Threads : Makes(t) \/ Reconnects(t) \/ Sends(t)
               \/ Tests \/ ProcessCalls \/ Environs
               \/ \E o \in Objects, s \in Services : Dies(o, s)
  <1>1. ASSUME NEW t \in Threads, ThreadStep(t), t \in Makers /\ Make(t)
        PROVE  fault = "none" /\ Makes(t)
    BY <1>1 DEF ThreadStep, Makes
  <1>2. ASSUME NEW t \in Threads, ThreadStep(t), Reconnect(t)
        PROVE  \/ \E kind \in Kinds : Freezes(kind)
               \/ fault = "none" /\ Reconnects(t)
    <2>1. CASE ReconnectFaults(t)
      BY <1>2, <2>1 DEF ReconnectFaults, ThreadStep, Freezes, Kinds
    <2>2. CASE ~ReconnectFaults(t)
      BY <1>2, <2>2 DEF Reconnect, Reconnects, ThreadStep, Unlink, NotReady,
         GetService, Ready, LinkToDeath, AddClient, Reconnecting
    <2> QED
      BY <2>1, <2>2
  <1>3. ASSUME fault = "none", NEW t \in {Test, Process}, Send(t)
        PROVE  \/ \E kind \in Kinds : Freezes(kind)
               \/ fault = "none" /\ Sends(t)
    BY <1>3 DEF Send, Sends, Checks, Transacts, CheckReady, Transact, Freezes,
       Kinds
  <1>4. ASSUME fault = "none", TestStep
        PROVE  \/ \E kind \in Kinds : Freezes(kind)
               \/ fault = "none" /\ (Sends(Test) \/ Tests)
    BY <1>3, <1>4 DEF TestStep, Tests, Deregisters, DeregisterClient, Freezes,
       Kinds
  <1>5. ASSUME fault = "none", ProcessStep
        PROVE  \/ \E kind \in Kinds : Freezes(kind)
               \/ fault = "none" /\ (Sends(Process) \/ ProcessCalls)
    BY <1>3, <1>5 DEF ProcessStep, ProcessCalls, Handles, HandleCall, Freezes,
       Kinds
  <1>6. ASSUME Environment
        PROVE  \/ \E kind \in Kinds : Freezes(kind)
               \/ fault = "none" /\ (Tests \/ ProcessCalls \/ Environs)
    BY <1>6 DEF Environment, Tests, ProcessCalls, Environs, Calls, IncomingCall,
       Freezes, Kinds
  <1>7. ASSUME Binder
        PROVE  fault = "none" /\ \E o \in Objects, s \in Services : Dies(o, s)
    BY <1>7 DEF Binder, Dies
  <1>8. Test \in Threads /\ Process \in Threads
    BY DEF Threads
  <1>9. ASSUME NEW t \in Threads, ThreadStep(t)
        PROVE  \/ \E kind \in Kinds : Freezes(kind)
               \/ /\ fault = "none"
                  /\ \/ \E u \in Threads : Makes(u) \/ Reconnects(u) \/ Sends(u)
                     \/ Tests \/ ProcessCalls
    BY <1>1, <1>2, <1>4, <1>5, <1>8, <1>9 DEF ThreadStep
  <1> QED
    BY <1>6, <1>7, <1>9 DEF Next

-----------------------------------------------------------------------------
(* A step keeps the types.                                                 *)

LEMMA ThreadKinds ==
  /\ Test \in Threads /\ Process \in Threads /\ Test # Process
  /\ \A t \in Reconnectors : t \in Threads /\ t # Test /\ t # Process
  /\ Makers = {Test} \cup Reconnectors
  BY DEF Threads, Test, Process, Reconnectors, Makers

\* A thread goes to a place it may be in.
LEMMA GotoTyped ==
  ASSUME PlacesTyped, NEW t \in Threads, NEW place \in Places, Goto(t, place),
         t = Test => place \notin ReconnectPlaces \cup {"ended"},
         t = Process => place \in SendPlaces \cup {"idle"},
         t \in Reconnectors =>
           place \notin SendPlaces \cup {"register", "sleep", "deregister"}
  PROVE  PlacesTyped'
  BY ThreadKinds DEF PlacesTyped, Goto

LEMMA NextPlaces ==
  ASSUME Typed, [Next]_vars
  PROVE  PlacesTyped'
  <1>0. PlacesTyped
    BY DEF Typed
  <1>1. ASSUME NEW t \in Threads, Makes(t)
        PROVE  PlacesTyped'
    <2>1. PICK place \in MakePlaces \cup {"return", "gotInstance"} : Goto(t, place)
      BY <1>1 DEF Makes, Make, GetInstance, Connect, NoService, MakeCallback,
         FirstClient, CreateProcessThread, Made, Return, MakePlaces
    <2>2. t # Process
      BY <1>1, ThreadKinds DEF Makes
    <2>3. /\ place \in Places
          /\ place \notin ReconnectPlaces \cup {"ended"} \cup SendPlaces
                            \cup {"register", "sleep", "deregister"}
      BY <2>1 DEF Places, ReconnectPlaces, SendPlaces, MakePlaces
    <2> QED
      BY <1>0, <2>1, <2>2, <2>3, GotoTyped
  <1>2. ASSUME NEW t \in Threads, Reconnects(t)
        PROVE  PlacesTyped'
    <2>1. PICK place \in ReconnectPlaces \cup {"ended"} : Goto(t, place)
      BY <1>2 DEF Reconnects, Unlink, NotReady, GetService, NoService, Ready,
         LinkToDeath, AddClient, ReconnectPlaces
    <2>2. t # Process /\ t # Test
      BY <1>2, ThreadKinds DEF Reconnects
    <2>3. /\ place \in Places
          /\ place \notin SendPlaces \cup {"register", "sleep", "deregister"}
      BY <2>1 DEF Places, ReconnectPlaces, SendPlaces, MakePlaces
    <2> QED
      BY <1>0, <2>1, <2>2, <2>3, GotoTyped
  <1>3. ASSUME NEW t \in Threads, Sends(t)
        PROVE  PlacesTyped'
    <2>1. PICK place \in SendPlaces : Goto(t, place)
      BY <1>3 DEF Sends, SendRequest, Checks, CheckReady, Transacts, Transact,
         SendPlaces
    <2>2. t \notin Reconnectors
      BY <1>3, ThreadKinds DEF Sends
    <2>3. place \in Places /\ place \notin ReconnectPlaces \cup {"ended"}
      BY <2>1 DEF Places, ReconnectPlaces, SendPlaces, MakePlaces
    <2> QED
      BY <1>0, <2>1, <2>2, <2>3, GotoTyped
  <1>4. CASE Tests
    <2>1. PICK place \in SendPlaces \cup {"idle", "getInstance", "register",
                                          "sleep", "deregister"} :
            Goto(Test, place)
      BY <1>4 DEF Tests, KeepInstance, StoreCallbacks, Answered, Deregisters,
         DeregisterClient, StartTest, SendPlaces
    <2>2. place \in Places /\ place \notin ReconnectPlaces \cup {"ended"}
      BY <2>1 DEF Places, ReconnectPlaces, SendPlaces, MakePlaces
    <2> QED
      BY <1>0, <2>1, <2>2, GotoTyped, ThreadKinds
  <1>5. CASE Handles \/ CallHandled
    <2>1. PICK place \in {"idle", "send"} : Goto(Process, place)
      BY <1>5 DEF Handles, HandleCall, CallHandled
    <2>2. place \in Places /\ place \in SendPlaces \cup {"idle"}
      BY <2>1 DEF Places, SendPlaces
    <2> QED
      BY <1>0, <2>1, <2>2, GotoTyped, ThreadKinds
  <1>6. ASSUME NEW o \in Objects, NEW s \in Services, Dies(o, s)
        PROVE  PlacesTyped'
    <2>1. PICK t \in Reconnectors : Goto(t, "getInstance")
      BY <1>6 DEF Dies, BinderDied
    <2>2. /\ "getInstance" \in Places
          /\ "getInstance" \notin SendPlaces \cup {"register", "sleep",
                                                   "deregister"}
      BY DEF Places, SendPlaces
    <2> QED
      BY <1>0, <2>1, <2>2, GotoTyped, ThreadKinds
  <1>7. CASE UNCHANGED vars \/ Calls \/ Environs
               \/ \E kind \in Kinds : Freezes(kind)
    BY <1>0, <1>7 DEF PlacesTyped, vars, threadVars, Calls, IncomingCall,
       Environs, ServiceStarts, ServiceDies, Freezes, Faults
  <1> QED
    BY <1>1, <1>2, <1>3, <1>4, <1>5, <1>6, <1>7, Steps DEF ProcessCalls

LEMMA NextServices ==
  ASSUME Typed, [Next]_vars
  PROVE  ServicesTyped'
  <1>0. ServicesTyped
    BY DEF Typed
  <1>1. ASSUME NEW t \in Threads, FirstClient(t) \/ AddClient(t)
        PROVE  ServicesTyped'
    <2>1. pc[t] \in UsesThis /\ this[t] \in Objects
      <3>1. pc[t] \in UsesThis
        BY <1>1 DEF FirstClient, AddClient, Reconnecting, UsesThis,
           MakePlaces, ReconnectPlaces
      <3> QED
        BY <3>1 DEF Typed, PointersTyped
    <2>2. pservice[this[t]] \in Services
      <3>1. pservice[this[t]] # NULL
        BY <1>1 DEF Typed, Owned, FirstClient, AddClient, Reconnecting
      <3> QED
        BY <2>1, <3>1 DEF Typed, ObjectsTyped
    <2>3. clients' \subseteq Services
      BY <1>0, <1>1, <2>2 DEF FirstClient, AddClient, Registers, ServicesTyped
    <2> QED
      BY <1>0, <1>1, <2>3 DEF FirstClient, AddClient, ServicesTyped
  <1>2. CASE ServiceStarts
    <2>1. born' = born + 1 /\ service' = born' /\ clients' = clients
      BY <1>2 DEF ServiceStarts
    <2>2. born + 1 \in Services /\ born + 1 \in 0 .. MaxServices
      BY <1>0, <1>2, BoundAssumption DEF ServiceStarts, ServicesTyped, Services
    <2> QED
      BY <1>0, <2>1, <2>2 DEF ServicesTyped
  <1>7. CASE ServiceDies
    BY <1>0, <1>7 DEF ServiceDies, ServicesTyped
  <1>3. ASSUME NEW t \in Threads, Makes(t), ~FirstClient(t)
        PROVE  ServicesTyped'
    BY <1>0, <1>3 DEF Makes, Make, GetInstance, Connect, MakeCallback,
       CreateProcessThread, Made, Return, serviceVars, ServicesTyped
  <1>4. ASSUME NEW t \in Threads, Reconnects(t), ~AddClient(t)
        PROVE  ServicesTyped'
    BY <1>0, <1>4 DEF Reconnects, Unlink, NotReady, GetService, Ready,
       LinkToDeath, serviceVars, ServicesTyped
  <1>5. CASE Tests \/ ProcessCalls \/ UNCHANGED vars
               \/ \E t \in Threads : Sends(t)
    BY <1>0, <1>5 DEF Tests, KeepInstance, StoreCallbacks, Answered, Deregisters,
       DeregisterClient, StartTest, ProcessCalls, Handles, HandleCall,
       CallHandled, Calls, IncomingCall, Sends, SendRequest, Checks, CheckReady,
       Transacts, Transact, vars, serviceVars, ServicesTyped
  <1>6. CASE (\E kind \in Kinds : Freezes(kind))
               \/ \E o \in Objects, s \in Services : Dies(o, s)
    BY <1>0, <1>6 DEF Freezes, Faults, Dies, BinderDied, serviceVars,
       ServicesTyped
  <1> QED
    BY <1>1, <1>2, <1>3, <1>4, <1>5, <1>6, <1>7, Steps DEF Environs

\* What an action of each kind leaves alone.
LEMMA MakesFrame ==
  ASSUME NEW t \in Threads, Makes(t)
  PROVE  /\ UNCHANGED <<calls, messages, testVars, fault, mClientInstance,
                        s_registerClient, s_ClientCallbacks, service, born,
                        orphaned>>
         /\ ~Connect(t) => UNCHANGED <<pservice, is_serviceready, links>>
         /\ ~CreateProcessThread(t) => UNCHANGED p_thread
         /\ ~MakeCallback(t) => UNCHANGED pool
         /\ ~Made(t) => UNCHANGED mInstance
         /\ ~GetInstance(t) => UNCHANGED life
         /\ ~(GetInstance(t) \/ Return(t)) => UNCHANGED this
         /\ ~FirstClient(t) => UNCHANGED clients
  BY DEF Makes, Make, GetInstance, Connect, MakeCallback, FirstClient,
     CreateProcessThread, Made, Return, callVars, globalVars, objectVars,
     serviceVars

LEMMA ReconnectsFrame ==
  ASSUME NEW t \in Threads, Reconnects(t)
  PROVE  /\ UNCHANGED <<calls, messages, testVars, fault, globalVars, life,
                        this, service, born, orphaned>>
         /\ ~GetService(t) => UNCHANGED pservice
         /\ ~(NotReady(t) \/ Ready(t)) => UNCHANGED is_serviceready
         /\ ~(Unlink(t) \/ GetService(t) \/ LinkToDeath(t)) => UNCHANGED links
         /\ ~AddClient(t) => UNCHANGED clients
  BY DEF Reconnects, Unlink, NotReady, GetService, Ready, LinkToDeath,
     AddClient, callVars, objectVars, serviceVars

LEMMA SendsFrame ==
  ASSUME NEW t \in Threads, Sends(t)
  PROVE  /\ UNCHANGED <<serviceVars, callVars, objectVars, globalVars, mode,
                        request, tests, result, fault, retry_count>>
         /\ ~SendRequest(t) => UNCHANGED this
         /\ ~Transacts(t) => UNCHANGED dialled
  BY DEF Sends, SendRequest, Checks, CheckReady, Transacts, Transact, Faults,
     Deleted, testVars

LEMMA TestsFrame ==
  ASSUME Tests
  PROVE  /\ UNCHANGED <<serviceVars, callVars, pservice, is_serviceready,
                        mInstance, p_thread, pool, this, retry_count, fault>>
         /\ ~KeepInstance => UNCHANGED mClientInstance
         /\ ~StoreCallbacks => UNCHANGED s_ClientCallbacks
         /\ ~Deregisters => UNCHANGED <<life, links>>
         /\ ~StartTest => UNCHANGED tests
  BY DEF Tests, KeepInstance, StoreCallbacks, Answered, Deregisters,
     DeregisterClient, Faults, StartTest, objectVars, globalVars, testVars

LEMMA ProcessFrame ==
  ASSUME ProcessCalls
  PROVE  UNCHANGED <<serviceVars, objectVars, globalVars, testVars, this,
                     retry_count, fault>>
  BY DEF ProcessCalls, Handles, HandleCall, CallHandled, Calls, IncomingCall,
     Faults, threadVars

LEMMA OtherFrame ==
  /\ \A o \in Objects, s \in Services :
       Dies(o, s) => UNCHANGED <<service, born, clients, callVars, life,
                                 pservice, is_serviceready, globalVars,
                                 testVars, this, retry_count, fault>>
  /\ Environs => UNCHANGED <<clients, orphaned, callVars, objectVars,
                             globalVars, testVars, threadVars, fault>>
  /\ \A kind \in Kinds :
       Freezes(kind) => UNCHANGED <<serviceVars, callVars, objectVars,
                                    globalVars, testVars, threadVars>>
  BY DEF Dies, BinderDied, Environs, ServiceStarts, ServiceDies, Freezes, Faults

LEMMA NextCounts ==
  ASSUME Typed, [Next]_vars
  PROVE  CountsTyped'
  <1>0. CountsTyped
    BY DEF Typed
  <1> DEFINE Quiet == UNCHANGED <<calls, messages, mode, request, tests, result,
                                  fault, retry_count>>
  <1>1. ASSUME NEW t \in Threads, retry_count' = retry_count \/
               \E n \in 0 .. MAX_RETRY :
                 retry_count' = [retry_count EXCEPT ![t] = n]
        PROVE  retry_count' \in [Threads -> 0 .. MAX_RETRY]
    BY <1>0, <1>1 DEF CountsTyped
  <1>2. ASSUME NEW t \in Threads, Makes(t) \/ Reconnects(t)
        PROVE  CountsTyped'
    <2>1. \/ retry_count' = retry_count
          \/ \E n \in 0 .. MAX_RETRY :
               retry_count' = [retry_count EXCEPT ![t] = n]
      <3>1. ASSUME NEW a, NEW b, NoService(t, a, b)
            PROVE  \E n \in 0 .. MAX_RETRY :
                     retry_count' = [retry_count EXCEPT ![t] = n]
        <4>1. retry_count[t] \in 0 .. MAX_RETRY
          BY <1>0 DEF CountsTyped
        <4>2. CASE retry_count[t] < MAX_RETRY
          <5>1. retry_count[t] + 1 \in 0 .. MAX_RETRY
            BY <4>1, <4>2, BoundAssumption
          <5>2. retry_count' = [retry_count EXCEPT ![t] = retry_count[t] + 1]
            BY <3>1, <4>1, <4>2, BoundAssumption DEF NoService
          <5> QED
            BY <5>1, <5>2
        <4>3. CASE ~(retry_count[t] < MAX_RETRY)
          <5>1. retry_count' = [retry_count EXCEPT ![t] = 0]
            BY <3>1, <4>3 DEF NoService
          <5>2. 0 \in 0 .. MAX_RETRY
            BY BoundAssumption
          <5> QED
            BY <5>1, <5>2
        <4> QED
          BY <4>2, <4>3
      <3>2. 0 \in 0 .. MAX_RETRY
        BY BoundAssumption
      <3>3. CASE Makes(t)
        BY <3>1, <3>2, <3>3 DEF Makes, Make, GetInstance, Connect, MakeCallback,
           FirstClient, CreateProcessThread, Made, Return
      <3>4. CASE Reconnects(t)
        BY <3>1, <3>2, <3>4 DEF Reconnects, Unlink, NotReady, GetService, Ready,
           LinkToDeath, AddClient
      <3> QED
        BY <1>2, <3>3, <3>4
    <2>2. UNCHANGED <<calls, messages, mode, request, tests, result, fault>>
      BY <1>2, MakesFrame, ReconnectsFrame DEF testVars
    <2> QED
      BY <1>0, <1>1, <2>1, <2>2 DEF CountsTyped
  <1>3. CASE Tests
    <2>1. UNCHANGED <<calls, messages, fault, retry_count>>
      BY <1>3, TestsFrame DEF callVars
    <2>2. /\ mode' \in {mode, "listen", "dial"}
          /\ request' \in {request, "imsi", "simStatus", "dial"}
          /\ result' \in {result, "none", "0"}
          /\ tests' \in 0 .. MaxTests
      BY <1>0, <1>3, BoundAssumption DEF Tests, KeepInstance, StoreCallbacks,
         Answered, Deregisters, DeregisterClient, Faults, StartTest, testVars,
         CountsTyped
    <2> QED
      BY <1>0, <2>1, <2>2 DEF CountsTyped
  <1>4. CASE ProcessCalls
    <2>1. UNCHANGED <<mode, request, tests, result, fault, retry_count>>
      BY <1>4, ProcessFrame DEF testVars
    <2>2. calls' \in 0 .. MaxCalls /\ messages' \in 0 .. calls'
      BY <1>0, <1>4, BoundAssumption DEF ProcessCalls, Handles, HandleCall,
         CallHandled, Calls, IncomingCall, Faults, callVars, CountsTyped
    <2> QED
      BY <1>0, <2>1, <2>2 DEF CountsTyped
  <1>5. ASSUME NEW kind \in Kinds, Freezes(kind)
        PROVE  CountsTyped'
    BY <1>0, <1>5 DEF Freezes, Faults, Kinds, CountsTyped, callVars, testVars,
       threadVars
  <1>6. ASSUME Quiet
        PROVE  CountsTyped'
    BY <1>0, <1>6 DEF CountsTyped
  <1>7. CASE UNCHANGED vars \/ Environs \/ (\E t \in Threads : Sends(t))
               \/ \E o \in Objects, s \in Services : Dies(o, s)
    <2>1. Quiet
      BY <1>7, SendsFrame, OtherFrame DEF vars, callVars, testVars, threadVars
    <2> QED
      BY <1>6, <2>1
  <1> QED
    BY <1>2, <1>3, <1>4, <1>5, <1>7, Steps

\* Only the report of a death is remembered.
LEMMA OrphanedKept ==
  ASSUME [Next]_vars, ~\E o \in Objects, s \in Services : Dies(o, s)
  PROVE  UNCHANGED orphaned
  BY Steps, MakesFrame, ReconnectsFrame, SendsFrame, TestsFrame, ProcessFrame,
     OtherFrame DEF vars, serviceVars

LEMMA NextFlags ==
  ASSUME Typed, [Next]_vars
  PROVE  FlagsTyped' /\ ReadyTyped'
  <1>0. FlagsTyped /\ ReadyTyped
    BY DEF Typed
  <1>1. s_registerClient' = s_registerClient \/ s_registerClient' \in BOOLEAN
    BY Steps, MakesFrame, ReconnectsFrame, SendsFrame, ProcessFrame, OtherFrame,
       Zenon DEF vars, globalVars, Tests, KeepInstance, StoreCallbacks, Answered,
       Deregisters, DeregisterClient, Faults, StartTest
  <1>2. s_ClientCallbacks' = s_ClientCallbacks \/ s_ClientCallbacks' = TRUE
    BY Steps, MakesFrame, ReconnectsFrame, SendsFrame, ProcessFrame, OtherFrame,
       Zenon DEF vars, globalVars, Tests, KeepInstance, StoreCallbacks, Answered,
       Deregisters, DeregisterClient, Faults, StartTest
  <1>3. p_thread' = p_thread \/ p_thread' = TRUE
    BY Steps, MakesFrame, ReconnectsFrame, SendsFrame, ProcessFrame, OtherFrame,
       TestsFrame, Zenon DEF vars, globalVars, CreateProcessThread
  <1>4. pool' = pool \/ pool' = TRUE
    BY Steps, MakesFrame, ReconnectsFrame, SendsFrame, ProcessFrame, OtherFrame,
       TestsFrame, Zenon DEF vars, globalVars, MakeCallback
  <1>5. dialled' = dialled \/ dialled' \in BOOLEAN
    <2>1. ASSUME NEW t \in Threads, Sends(t)
          PROVE  dialled' = dialled \/ dialled' \in BOOLEAN
      BY <2>1, SendsFrame, Zenon DEF Transacts, Transact, Faults, Deleted,
         testVars
    <2>2. CASE Tests
      BY <2>2, Zenon DEF Tests, KeepInstance, StoreCallbacks, Answered,
         Deregisters, DeregisterClient, Faults, StartTest, testVars
    <2>3. CASE ~Tests /\ ~\E t \in Threads : Sends(t)
      BY <2>3, Steps, MakesFrame, ReconnectsFrame, ProcessFrame, OtherFrame,
         Zenon DEF vars, testVars
    <2> QED
      BY <2>1, <2>2, <2>3
  <1>5a. orphaned' = orphaned \/ orphaned' \in BOOLEAN
    <2>1. ASSUME NEW o \in Objects, NEW s \in Services, Dies(o, s)
          PROVE  orphaned' \in BOOLEAN
      BY <2>1, Zenon DEF Dies, BinderDied
    <2>2. CASE ~\E o \in Objects, s \in Services : Dies(o, s)
      BY <2>2, OrphanedKept
    <2> QED
      BY <2>1, <2>2
  <1>6. FlagsTyped'
    BY <1>0, <1>1, <1>2, <1>3, <1>4, <1>5, <1>5a, Zenon DEF FlagsTyped
  <1>7. is_serviceready' = is_serviceready
          \/ \E o, b : /\ b \in BOOLEAN
                       /\ is_serviceready' = [is_serviceready EXCEPT ![o] = b]
    <2>1. TRUE \in BOOLEAN /\ FALSE \in BOOLEAN
      OBVIOUS
    <2>2. ASSUME NEW t \in Threads, Makes(t)
          PROVE  is_serviceready' = is_serviceready
                   \/ is_serviceready' = [is_serviceready EXCEPT ![this[t]] = TRUE]
      BY <2>2, MakesFrame, Zenon DEF Connect, objectVars
    <2>3. ASSUME NEW t \in Threads, Reconnects(t)
          PROVE  \/ is_serviceready' = is_serviceready
                 \/ is_serviceready' = [is_serviceready EXCEPT ![this[t]] = TRUE]
                 \/ is_serviceready' = [is_serviceready EXCEPT ![this[t]] = FALSE]
      BY <2>3, ReconnectsFrame, Zenon DEF NotReady, Ready
    <2>4. CASE ~\E t \in Threads : Makes(t) \/ Reconnects(t)
      BY <2>4, Steps, SendsFrame, ProcessFrame, OtherFrame, TestsFrame, Zenon
      DEF vars, objectVars
    <2> QED
      BY <2>1, <2>2, <2>3, <2>4, Zenon
  <1>8. ReadyTyped'
    <2>1. ASSUME NEW o, NEW b \in BOOLEAN,
                 is_serviceready' = [is_serviceready EXCEPT ![o] = b]
          PROVE  is_serviceready' \in [Objects -> BOOLEAN]
      BY <1>0, <2>1 DEF ReadyTyped
    <2> QED
      BY <1>0, <1>7, <2>1 DEF ReadyTyped
  <1> QED
    BY <1>6, <1>8

LEMMA NextObjects ==
  ASSUME Typed, [Next]_vars
  PROVE  ObjectsTyped'
  <1>0. ObjectsTyped /\ ServicesTyped /\ PointersTyped
    BY DEF Typed
  <1>1. born' \in Nat /\ born \in Nat /\ born <= born'
    BY <1>0, NextServices, Steps, MakesFrame, ReconnectsFrame, SendsFrame,
       TestsFrame, ProcessFrame, OtherFrame DEF vars, serviceVars, Environs,
       ServiceStarts, ServiceDies, ServicesTyped
  <1>2. ASSUME UNCHANGED <<life, pservice, links>>
        PROVE  ObjectsTyped'
    <2>1. \A s \in Services : s \in Nat
      BY DEF Services
    <2>2. \A o \in Objects : pservice[o] \in Nat
      BY <1>0, <2>1 DEF ObjectsTyped, NULL
    <2> QED
      BY <1>0, <1>1, <1>2, <2>1, <2>2 DEF ObjectsTyped
  <1>3. CASE UNCHANGED vars \/ ProcessCalls \/ Environs
               \/ (\E t \in Threads : Sends(t))
               \/ \E kind \in Kinds : Freezes(kind)
    BY <1>2, <1>3, ProcessFrame, SendsFrame, OtherFrame DEF vars, objectVars
  <1>4. ASSUME NEW t \in Threads, Makes(t)
        PROVE  ObjectsTyped'
    <2>0. born' = born
      BY <1>4, MakesFrame
    <2>1. CASE GetInstance(t)
      <3>1. UNCHANGED <<pservice, links>>
        BY <2>1 DEF GetInstance, objectVars
      <3>2. life' \in [Objects -> {"none", "made", "deleted"}]
        BY <1>0, <2>1 DEF GetInstance, objectVars, ObjectsTyped
      <3> QED
        BY <1>0, <2>0, <3>1, <3>2 DEF ObjectsTyped
    <2>2. CASE Connect(t)
      <3>1. CASE UNCHANGED objectVars
        BY <1>2, <3>1 DEF objectVars
      <3>2. CASE service # NULL /\ pservice' = [pservice EXCEPT ![this[t]] = service]
                   /\ links' = Linked(this[t], service) /\ life' = life
        <4>1. service \in Services /\ service <= born
          BY <1>0, <3>2 DEF ServicesTyped, Services
        <4>2. this[t] \in Objects
          BY <1>0, <2>2 DEF Connect, PointersTyped, UsesThis, MakePlaces
        <4>3. pservice' \in [Objects -> Services \cup {NULL}]
              /\ \A o \in Objects : pservice'[o] <= born
          BY <1>0, <3>2, <4>1 DEF ObjectsTyped
        <4>4. links' \in [Objects -> [Services -> Nat]]
              /\ \A o \in Objects, s \in Services : links'[o][s] > 0 => s <= born
          BY <1>0, <3>2, <4>1, <4>2 DEF ObjectsTyped, Linked
        <4> QED
          BY <1>0, <2>0, <3>2, <4>3, <4>4 DEF ObjectsTyped
      <3> QED
        BY <2>2, <3>1, <3>2 DEF Connect
    <2>3. CASE ~GetInstance(t) /\ ~Connect(t)
      BY <1>2, <1>4, <2>3, MakesFrame
    <2> QED
      BY <2>1, <2>2, <2>3
  <1>5. ASSUME NEW t \in Threads, Reconnects(t)
        PROVE  ObjectsTyped'
    <2>0. born' = born /\ life' = life
      BY <1>5, ReconnectsFrame
    <2>1. this[t] \in Objects
      BY <1>0, <1>5 DEF Reconnects, Unlink, NotReady, GetService, Ready,
         LinkToDeath, AddClient, Reconnecting, PointersTyped, UsesThis,
         ReconnectPlaces
    <2>2. CASE Unlink(t)
      <3>1. pservice' = pservice
        BY <2>2 DEF Unlink
      <3>2. pservice[this[t]] \in Services
        BY <1>0, <2>1, <2>2 DEF Unlink, Reconnecting, ObjectsTyped
      <3>3. links' \in [Objects -> [Services -> Nat]]
            /\ \A o \in Objects, s \in Services : links'[o][s] <= links[o][s]
        BY <1>0, <2>1, <2>2, <3>2 DEF Unlink, ObjectsTyped
      <3>4. \A o \in Objects, s \in Services : links'[o][s] > 0 => s <= born
        BY <1>0, <3>3 DEF ObjectsTyped
      <3> QED
        BY <1>0, <2>0, <3>1, <3>3, <3>4 DEF ObjectsTyped
    <2>3. CASE GetService(t)
      <3>1. service \in Services \cup {NULL} /\ service <= born
        BY <1>0 DEF ServicesTyped, Services, NULL
      <3>2. pservice' \in [Objects -> Services \cup {NULL}]
            /\ \A o \in Objects : pservice'[o] <= born
        BY <1>0, <2>3, <3>1 DEF GetService, ReplaceService, ObjectsTyped
      <3>3. links' \in [Objects -> [Services -> Nat]]
            /\ \A o \in Objects, s \in Services :
                 links'[o][s] \in {0, links[o][s]}
        BY <1>0, <2>1, <2>3 DEF GetService, ReplaceService, ObjectsTyped
      <3>4. \A o \in Objects, s \in Services : links'[o][s] > 0 => s <= born
        BY <1>0, <3>3 DEF ObjectsTyped
      <3> QED
        BY <1>0, <2>0, <3>2, <3>3, <3>4 DEF ObjectsTyped
    <2>4. CASE LinkToDeath(t)
      <3>1. pservice' = pservice
        BY <2>4 DEF LinkToDeath
      <3>2. pservice[this[t]] \in Services /\ pservice[this[t]] <= born
        BY <1>0, <2>1, <2>4 DEF LinkToDeath, Reconnecting, ObjectsTyped
      <3>3. links' \in [Objects -> [Services -> Nat]]
            /\ \A o \in Objects, s \in Services : links'[o][s] > 0 => s <= born
        BY <1>0, <2>1, <2>4, <3>2 DEF LinkToDeath, Linked, ObjectsTyped
      <3> QED
        BY <1>0, <2>0, <3>1, <3>3 DEF ObjectsTyped
    <2>5. CASE ~(Unlink(t) \/ GetService(t) \/ LinkToDeath(t))
      BY <1>2, <1>5, <2>5, ReconnectsFrame
    <2> QED
      BY <2>2, <2>3, <2>4, <2>5
  <1>6. CASE Tests
    <2>1. CASE Deregisters
      <3>1. mClientInstance \in Objects
        BY <1>0, <2>1 DEF Deregisters, DeregisterClient, PointersTyped
      <3>2. /\ life' = [life EXCEPT ![mClientInstance] = "deleted"]
            /\ links' = [links EXCEPT ![mClientInstance] =
                                        [s \in Services |-> 0]]
        BY <2>1 DEF Deregisters, DeregisterClient
      <3>3. \A o \in Objects, s \in Services : links'[o][s] \in {0, links[o][s]}
        BY <1>0, <3>1, <3>2 DEF ObjectsTyped
      <3>4. links' \in [Objects -> [Services -> Nat]]
            /\ life' \in [Objects -> {"none", "made", "deleted"}]
        BY <1>0, <3>1, <3>2 DEF ObjectsTyped
      <3>5. \A o \in Objects, s \in Services : links'[o][s] > 0 => s <= born
        BY <1>0, <3>3 DEF ObjectsTyped
      <3> QED
        BY <1>0, <1>6, <3>4, <3>5, TestsFrame DEF ObjectsTyped, serviceVars
    <2>2. CASE ~Deregisters
      BY <1>2, <1>6, <2>2, TestsFrame
    <2> QED
      BY <2>1, <2>2
  <1>7. ASSUME NEW o \in Objects, NEW s \in Services, Dies(o, s)
        PROVE  ObjectsTyped'
    <2>1. UNCHANGED <<born, life, pservice>>
      BY <1>7, OtherFrame DEF serviceVars
    <2>2. links' = [links EXCEPT ![o][s] = @ - 1] /\ links[o][s] > 0
      BY <1>7 DEF Dies, BinderDied
    <2>3. links' \in [Objects -> [Services -> Nat]]
          /\ \A q \in Objects, r \in Services : links'[q][r] <= links[q][r]
      BY <1>0, <2>2 DEF ObjectsTyped
    <2>4. \A q \in Objects, r \in Services : links'[q][r] > 0 => r <= born
      BY <1>0, <2>3 DEF ObjectsTyped
    <2> QED
      BY <1>0, <2>1, <2>3, <2>4 DEF ObjectsTyped
  <1> QED
    BY <1>3, <1>4, <1>5, <1>6, <1>7, Steps

LEMMA GotoEffect ==
  ASSUME PlacesTyped, NEW t \in Threads, NEW place, Goto(t, place)
  PROVE  pc'[t] = place /\ \A u \in Threads : u # t => pc'[u] = pc[u]
  BY DEF PlacesTyped, Goto

\* The pointers of a step that gives no thread another AppClient.
LEMMA PointersKept ==
  ASSUME Typed, UNCHANGED <<mInstance, mClientInstance, this>>,
         NEW t \in Threads, NEW place, Goto(t, place),
         place \in UsesThis => pc[t] \in UsesThis, place # "return",
         t = Test /\ place \in SendPlaces \cup {"register", "sleep", "deregister"}
           => mClientInstance \in Objects
  PROVE  PointersTyped'
  BY GotoEffect, ThreadKinds DEF Typed, PointersTyped

LEMMA NextPointers ==
  ASSUME Typed, [Next]_vars
  PROVE  PointersTyped'
  <1>0. PointersTyped /\ PlacesTyped
    BY DEF Typed
  <1>1. ASSUME NEW t \in Threads, Makes(t)
        PROVE  PointersTyped'
    <2>1. mClientInstance' = mClientInstance
      BY <1>1, MakesFrame
    <2>2. CASE GetInstance(t)
      <3>1. PICK o \in Objects, place \in MakePlaces \cup {"gotInstance"} :
              this' = [this EXCEPT ![t] = o] /\ Goto(t, place)
        BY <1>0, <2>2 DEF GetInstance, PointersTyped, MakePlaces
      <3>2. pc'[t] = place /\ \A u \in Threads : u # t => pc'[u] = pc[u]
        BY <1>0, <3>1, GotoEffect
      <3>3. place \notin SendPlaces \cup {"return", "register", "sleep",
                                         "deregister"}
        BY <3>1 DEF SendPlaces, MakePlaces
      <3>4. mInstance' = mInstance
        BY <2>2 DEF GetInstance, globalVars
      <3>5. pc'[Test] \in SendPlaces \cup {"register", "sleep", "deregister"}
              => mClientInstance \in Objects
        BY <1>0, <3>2, <3>3, ThreadKinds DEF PointersTyped
      <3> QED
        BY <1>0, <2>1, <3>1, <3>2, <3>3, <3>4, <3>5 DEF PointersTyped
    <2>3. CASE Made(t)
      <3>1. this[t] \in Objects /\ mInstance' = this[t] /\ this' = this
            /\ Goto(t, "return")
        BY <1>0, <2>3 DEF Made, PointersTyped, UsesThis, MakePlaces
      <3>2. pc'[t] = "return" /\ \A u \in Threads : u # t => pc'[u] = pc[u]
        BY <1>0, <3>1, GotoEffect
      <3>3. pc'[Test] \in SendPlaces \cup {"register", "sleep", "deregister"}
              => mClientInstance \in Objects
        BY <1>0, <3>2, ThreadKinds DEF PointersTyped, SendPlaces
      <3>4. \A u \in Threads : pc'[u] \in UsesThis => pc[u] \in UsesThis
        BY <3>2 DEF UsesThis, MakePlaces, ReconnectPlaces
      <3> QED
        BY <1>0, <2>1, <3>1, <3>3, <3>4 DEF PointersTyped
    <2>4. CASE Return(t)
      <3>1. /\ mInstance \in Objects /\ mInstance' = mInstance
            /\ this' = [this EXCEPT ![t] = mInstance] /\ Goto(t, "gotInstance")
        BY <1>0, <2>4 DEF Return, PointersTyped, globalVars
      <3>2. pc'[t] = "gotInstance" /\ \A u \in Threads : u # t => pc'[u] = pc[u]
        BY <1>0, <3>1, GotoEffect
      <3>3. pc'[Test] \in SendPlaces \cup {"register", "sleep", "deregister"}
              => mClientInstance \in Objects
        BY <1>0, <3>2, ThreadKinds DEF PointersTyped, SendPlaces
      <3>4. \A u \in Threads : pc'[u] \in UsesThis => this'[u] \in Objects
        BY <1>0, <3>1, <3>2 DEF PointersTyped
      <3>5. this' \in [Threads -> Objects \cup {NULL}]
        BY <1>0, <3>1 DEF PointersTyped
      <3> QED
        BY <1>0, <2>1, <3>1, <3>3, <3>4, <3>5 DEF PointersTyped
    <2>5. CASE ~GetInstance(t) /\ ~Made(t) /\ ~Return(t)
      <3>1. PICK place \in MakePlaces : Goto(t, place)
        BY <1>1, <2>5 DEF Makes, Make, Connect, NoService, MakeCallback,
           FirstClient, CreateProcessThread, MakePlaces
      <3>2. pc[t] \in UsesThis
        BY <1>1, <2>5 DEF Makes, Make, Connect, MakeCallback, FirstClient,
           CreateProcessThread, MakePlaces, UsesThis
      <3>3. place \notin SendPlaces \cup {"return", "register", "sleep",
                                         "deregister"}
        BY <3>1 DEF SendPlaces, MakePlaces
      <3> QED
        BY <1>1, <2>1, <2>5, <3>1, <3>2, <3>3, PointersKept, MakesFrame
    <2> QED
      BY <2>2, <2>3, <2>4, <2>5
  <1>2. ASSUME NEW t \in Threads, Reconnects(t)
        PROVE  PointersTyped'
    <2>1. PICK place \in ReconnectPlaces \cup {"ended"} : Goto(t, place)
      BY <1>2 DEF Reconnects, Unlink, NotReady, GetService, NoService, Ready,
         LinkToDeath, AddClient, ReconnectPlaces
    <2>2. pc[t] \in UsesThis /\ t # Test
      BY <1>2, ThreadKinds DEF Reconnects, Unlink, NotReady, GetService, Ready,
         LinkToDeath, AddClient, Reconnecting, ReconnectPlaces, UsesThis
    <2>3. place # "return"
      BY <2>1 DEF ReconnectPlaces
    <2> QED
      BY <1>2, <2>1, <2>2, <2>3, PointersKept, ReconnectsFrame DEF globalVars
  <1>3. ASSUME NEW t \in Threads, Sends(t)
        PROVE  PointersTyped'
    <2>1. UNCHANGED <<mInstance, mClientInstance>>
      BY <1>3, SendsFrame DEF globalVars
    <2>2. t = Test => mClientInstance \in Objects
      BY <1>0, <1>3 DEF Sends, SendRequest, Checks, CheckReady, Transacts,
         Transact, PointersTyped, SendPlaces
    <2>3. CASE SendRequest(t)
      <3>1. this' = [this EXCEPT ![t] = mClientInstance]
        BY <2>3 DEF SendRequest
      <3>2. \/ mClientInstance = NULL /\ Goto(t, "answered")
            \/ mClientInstance # NULL /\ Goto(t, "check")
        BY <2>3 DEF SendRequest
      <3>3. /\ pc'[t] = "check" => mClientInstance \in Objects
            /\ pc'[t] \in {"answered", "check"}
            /\ \A u \in Threads : u # t => pc'[u] = pc[u]
        BY <1>0, <3>2, GotoEffect DEF PointersTyped
      <3>4. "answered" \notin UsesThis
        BY DEF UsesThis, MakePlaces, ReconnectPlaces
      <3>5. \A u \in Threads : pc'[u] \in UsesThis => this'[u] \in Objects
        BY <1>0, <3>1, <3>3, <3>4 DEF PointersTyped
      <3>6. this' \in [Threads -> Objects \cup {NULL}]
        BY <1>0, <3>1 DEF PointersTyped
      <3>7. pc'[Test] \in SendPlaces \cup {"register", "sleep", "deregister"}
              => mClientInstance \in Objects
        BY <1>0, <2>2, <3>3, ThreadKinds DEF PointersTyped
      <3> QED
        BY <1>0, <2>1, <3>3, <3>5, <3>6, <3>7 DEF PointersTyped
    <2>4. CASE Checks(t)
      <3>1. PICK place \in {"transact", "answered"} : Goto(t, place)
        BY <2>4 DEF Checks, CheckReady
      <3>2. pc[t] \in UsesThis
        BY <2>4 DEF Checks, CheckReady, UsesThis
      <3>3. this' = this
        BY <2>4 DEF Checks, CheckReady
      <3> QED
        BY <2>1, <2>2, <3>1, <3>2, <3>3, PointersKept
    <2>5. CASE Transacts(t)
      <3>1. Goto(t, "answered") /\ this' = this
        BY <2>5 DEF Transacts, Transact
      <3>2. "answered" \notin UsesThis
        BY DEF UsesThis, MakePlaces, ReconnectPlaces
      <3> QED
        BY <2>1, <2>2, <3>1, <3>2, PointersKept
    <2> QED
      BY <1>3, <2>3, <2>4, <2>5 DEF Sends
  <1>4. CASE Tests
    <2>0. UNCHANGED <<mInstance, this>>
      BY <1>4, TestsFrame
    <2>1. CASE KeepInstance
      <3>1. mClientInstance' = this[Test] /\ this[Test] \in Objects
            /\ Goto(Test, "register")
        BY <1>0, <2>1, ThreadKinds DEF KeepInstance, PointersTyped, UsesThis
      <3>2. pc'[Test] = "register"
            /\ \A u \in Threads : u # Test => pc'[u] = pc[u]
        BY <1>0, <3>1, GotoEffect, ThreadKinds
      <3>3. "register" \notin UsesThis
        BY DEF UsesThis, MakePlaces, ReconnectPlaces
      <3> QED
        BY <1>0, <2>0, <3>1, <3>2, <3>3 DEF PointersTyped
    <2>2. CASE ~KeepInstance
      <3>1. PICK place \in {"idle", "getInstance", "send", "sleep",
                            "deregister"} : Goto(Test, place)
        BY <1>4, <2>2 DEF Tests, StoreCallbacks, Answered, Deregisters,
           DeregisterClient, StartTest, Faults
      <3>2. place \notin UsesThis
        BY <3>1 DEF UsesThis, MakePlaces, ReconnectPlaces
      <3>3. place \in SendPlaces \cup {"register", "sleep", "deregister"}
              => pc[Test] \in SendPlaces \cup {"register", "sleep", "deregister"}
        BY <1>0, <1>4, <2>2, <3>1, GotoEffect, ThreadKinds DEF Tests,
           StoreCallbacks, Answered, Deregisters, DeregisterClient, StartTest,
           Faults, SendPlaces
      <3>4. mClientInstance' = mClientInstance
        BY <1>4, <2>2, TestsFrame
      <3>5. place \in SendPlaces \cup {"register", "sleep", "deregister"}
              => mClientInstance \in Objects
        BY <1>0, <3>3 DEF PointersTyped
      <3> QED
        BY <2>0, <3>1, <3>2, <3>4, <3>5, PointersKept, ThreadKinds
    <2> QED
      BY <2>1, <2>2
  <1>5. CASE Handles \/ CallHandled
    <2>1. PICK place \in {"idle", "send"} : Goto(Process, place)
      BY <1>5 DEF Handles, HandleCall, CallHandled
    <2>2. place \notin UsesThis
      BY <2>1 DEF UsesThis, MakePlaces, ReconnectPlaces
    <2>3. UNCHANGED <<mInstance, mClientInstance, this>>
      BY <1>5, ProcessFrame DEF ProcessCalls, globalVars
    <2> QED
      BY <2>1, <2>2, <2>3, PointersKept, ThreadKinds
  <1>6. ASSUME NEW o \in Objects, NEW s \in Services, Dies(o, s)
        PROVE  PointersTyped'
    <2>1. PICK t \in Reconnectors : Goto(t, "getInstance")
      BY <1>6 DEF Dies, BinderDied
    <2>2. "getInstance" \notin UsesThis
      BY DEF UsesThis, MakePlaces, ReconnectPlaces
    <2>3. UNCHANGED <<mInstance, mClientInstance, this>>
      BY <1>6, OtherFrame DEF globalVars
    <2> QED
      BY <2>1, <2>2, <2>3, PointersKept, ThreadKinds
  <1>7. CASE UNCHANGED vars \/ Calls \/ Environs
               \/ \E kind \in Kinds : Freezes(kind)
    BY <1>0, <1>7, OtherFrame DEF PointersTyped, vars, threadVars, globalVars,
       Calls, IncomingCall
  <1> QED
    BY <1>1, <1>2, <1>3, <1>4, <1>5, <1>6, <1>7, Steps DEF ProcessCalls

\* The owners after a step that gives no thread another AppClient.
LEMMA OwnersKept ==
  ASSUME Typed, UNCHANGED <<mInstance, mClientInstance, this>>,
         NEW t \in Threads, NEW place, Goto(t, place),
         place \in UsesThis => pc[t] \in UsesThis,
         place \in MakePlaces => pc[t] \in MakePlaces,
         \A o \in Objects : life[o] # "none" => life'[o] # "none",
         place \in {"callback", "firstClient"} => pservice'[this[t]] # NULL,
         \A u \in Threads : u # t /\ pc[u] \in {"callback", "firstClient"} =>
           pservice'[this[u]] = pservice[this[u]]
  PROVE  Owned'
  <1>0. Owned /\ PointersTyped /\ PlacesTyped
    BY DEF Typed
  <1>1. pc'[t] = place /\ \A u \in Threads : u # t => pc'[u] = pc[u]
    BY <1>0, GotoEffect
  <1>2. \A u \in Threads : pc'[u] \in UsesThis => pc[u] \in UsesThis
    BY <1>1
  <1>3. \A u \in Threads : pc'[u] \in MakePlaces => pc[u] \in MakePlaces
    BY <1>1
  <1>4. \A u \in Threads : pc'[u] \in UsesThis => life'[this[u]] # "none"
    BY <1>0, <1>2 DEF Owned, PointersTyped
  <1>5. \A u \in Threads : pc'[u] \in {"callback", "firstClient"} =>
          pservice'[this[u]] # NULL
    BY <1>0, <1>1 DEF Owned
  <1> QED
    BY <1>0, <1>2, <1>3, <1>4, <1>5 DEF Owned

LEMMA NextOwned ==
  ASSUME Typed, [Next]_vars
  PROVE  Owned'
  <1>0. Owned /\ PointersTyped /\ PlacesTyped
    BY DEF Typed
  <1>1. ASSUME NEW t \in Threads, Makes(t)
        PROVE  Owned'
    <2>1. mClientInstance' = mClientInstance
      BY <1>1, MakesFrame
    <2>2. CASE GetInstance(t) /\ mInstance # NULL
      <3>1. /\ this' = [this EXCEPT ![t] = mInstance] /\ Goto(t, "gotInstance")
            /\ UNCHANGED <<mInstance, life, pservice>>
        BY <2>2 DEF GetInstance, globalVars, objectVars
      <3>2. pc'[t] = "gotInstance" /\ \A u \in Threads : u # t => pc'[u] = pc[u]
        BY <1>0, <3>1, GotoEffect
      <3>3. this'[t] = mInstance /\ \A u \in Threads : u # t => this'[u] = this[u]
        BY <1>0, <3>1 DEF PointersTyped
      <3>4. mInstance \in Objects /\ life[mInstance] # "none"
        BY <1>0, <2>2 DEF PointersTyped, Owned
      <3>5. "gotInstance" \notin MakePlaces
        BY DEF MakePlaces
      <3>6. \A u \in Threads : pc'[u] \in UsesThis => life'[this'[u]] # "none"
        BY <1>0, <3>1, <3>2, <3>3, <3>4 DEF Owned
      <3>7. \A u \in Threads : pc'[u] \in MakePlaces =>
              this'[u] # mInstance' /\ this'[u] # mClientInstance'
        BY <1>0, <2>1, <3>1, <3>2, <3>3, <3>5 DEF Owned
      <3>8. \A v, u \in Threads :
              v # u /\ pc'[v] \in MakePlaces /\ pc'[u] \in UsesThis =>
                this'[u] # this'[v]
        BY <1>0, <3>2, <3>3, <3>5 DEF Owned
      <3>9. \A u \in Threads : pc'[u] \in {"callback", "firstClient"} =>
              pservice'[this'[u]] # NULL
        BY <1>0, <3>1, <3>2, <3>3 DEF Owned
      <3> QED
        BY <1>0, <2>1, <3>1, <3>6, <3>7, <3>8, <3>9 DEF Owned
    <2>3. CASE GetInstance(t) /\ mInstance = NULL
      <3>1. PICK o \in Objects :
              /\ life[o] = "none"
              /\ life' = [life EXCEPT ![o] = "made"]
              /\ this' = [this EXCEPT ![t] = o]
        BY <2>3 DEF GetInstance
      <3>2. Goto(t, "connect") /\ UNCHANGED <<mInstance, pservice>>
        BY <2>3 DEF GetInstance, globalVars
      <3>3. pc'[t] = "connect" /\ \A u \in Threads : u # t => pc'[u] = pc[u]
        BY <1>0, <3>2, GotoEffect
      <3>4. this'[t] = o /\ \A u \in Threads : u # t => this'[u] = this[u]
        BY <1>0, <3>1 DEF PointersTyped
      <3>5. \A q \in Objects : life[q] # "none" => life'[q] # "none" /\ q # o
        BY <3>1 DEF Typed, ObjectsTyped
      <3>6. life'[o] # "none"
        BY <3>1 DEF Typed, ObjectsTyped
      <3>7. \A u \in Threads : u # t /\ pc'[u] \in UsesThis =>
              this'[u] # o /\ life'[this'[u]] # "none"
        BY <1>0, <3>3, <3>4, <3>5 DEF Owned, PointersTyped
      <3>8. mInstance' # o /\ mClientInstance' # o
        BY <1>0, <2>1, <3>1, <3>2 DEF Owned, PointersTyped
      <3>9. \A u \in Threads : pc'[u] \in MakePlaces =>
              this'[u] # mInstance' /\ this'[u] # mClientInstance'
        BY <1>0, <2>1, <3>2, <3>3, <3>4, <3>8 DEF Owned
      <3>10. MakePlaces \subseteq UsesThis
        BY DEF UsesThis
      <3>11. \A v, u \in Threads :
              v # u /\ pc'[v] \in MakePlaces /\ pc'[u] \in UsesThis =>
                this'[u] # this'[v]
        BY <1>0, <3>3, <3>4, <3>7, <3>10 DEF Owned
      <3>12. \A u \in Threads : pc'[u] \in {"callback", "firstClient"} =>
              pservice'[this'[u]] # NULL
        BY <1>0, <3>2, <3>3, <3>4 DEF Owned
      <3>13. \A u \in Threads : pc'[u] \in UsesThis => life'[this'[u]] # "none"
        BY <3>4, <3>6, <3>7
      <3>14. /\ mInstance' \in Objects => life'[mInstance'] # "none"
             /\ mClientInstance' \in Objects => life'[mClientInstance'] # "none"
        BY <1>0, <2>1, <3>2, <3>5 DEF Owned
      <3> QED
        BY <3>9, <3>11, <3>12, <3>13, <3>14 DEF Owned
    <2>4. CASE Made(t)
      <3>1. /\ mInstance' = this[t] /\ Goto(t, "return")
            /\ UNCHANGED <<this, life, pservice>> /\ pc[t] = "made"
        BY <2>4 DEF Made, objectVars
      <3>2. pc'[t] = "return" /\ \A u \in Threads : u # t => pc'[u] = pc[u]
        BY <1>0, <3>1, GotoEffect
      <3>3. /\ pc[t] \in MakePlaces /\ pc[t] \in UsesThis
            /\ "return" \notin UsesThis /\ MakePlaces \subseteq UsesThis
        BY <3>1 DEF MakePlaces, ReconnectPlaces, UsesThis
      <3>4. \A u \in Threads : pc'[u] \in MakePlaces =>
              /\ u # t /\ pc[u] \in MakePlaces
              /\ this[u] # this[t] /\ this[u] # mClientInstance
        BY <1>0, <3>2, <3>3 DEF Owned
      <3>5. \A u \in Threads : pc'[u] \in UsesThis => pc[u] \in UsesThis
        BY <3>2, <3>3
      <3>6. \A u \in Threads : pc'[u] \in {"callback", "firstClient"} =>
              pservice[this[u]] # NULL
        BY <1>0, <3>2 DEF Owned
      <3> QED
        BY <1>0, <2>1, <3>1, <3>3, <3>4, <3>5, <3>6 DEF Owned
    <2>5. CASE Connect(t)
      <3>1. pc[t] = "connect" /\ pc[t] \in MakePlaces /\ pc[t] \in UsesThis
        BY <2>5 DEF Connect, MakePlaces, UsesThis
      <3>2. this[t] \in Objects
        BY <1>0, <3>1 DEF PointersTyped
      <3>3. UNCHANGED <<mInstance, mClientInstance, this, life>>
        BY <2>5 DEF Connect, globalVars, objectVars
      <3>4. \/ pservice' = pservice
               /\ \E place \in {"connect", "made"} : Goto(t, place)
            \/ /\ service # NULL /\ Goto(t, "callback")
               /\ pservice' = [pservice EXCEPT ![this[t]] = service]
        BY <2>5 DEF Connect, NoService, objectVars
      <3>5. \A u \in Threads : u # t /\ pc[u] \in {"callback", "firstClient"} =>
              pservice'[this[u]] = pservice[this[u]]
        <4>1. \A u \in Threads : u # t /\ pc[u] \in {"callback", "firstClient"}
                => this[u] # this[t] /\ this[u] \in Objects
          BY <1>0, <3>1 DEF Owned, PointersTyped, MakePlaces, UsesThis
        <4> QED
          BY <3>2, <3>4, <4>1 DEF Typed, ObjectsTyped
      <3>6. CASE pservice' = pservice
                   /\ \E place \in {"connect", "made"} : Goto(t, place)
        <4>1. PICK place \in {"connect", "made"} : Goto(t, place)
          BY <3>6
        <4>2. place \notin {"callback", "firstClient"}
          BY <4>1
        <4> QED
          BY <3>1, <3>3, <3>5, <4>1, <4>2, OwnersKept
      <3>7. CASE service # NULL /\ Goto(t, "callback")
                   /\ pservice' = [pservice EXCEPT ![this[t]] = service]
        <4>1. pservice'[this[t]] # NULL
          BY <3>2, <3>7 DEF Typed, ObjectsTyped
        <4> QED
          BY <3>1, <3>3, <3>5, <3>7, <4>1, OwnersKept
      <3> QED
        BY <3>4, <3>6, <3>7
    <2>6. CASE MakeCallback(t) \/ FirstClient(t) \/ CreateProcessThread(t)
      <3>1. PICK place \in {"firstClient", "processThread", "made"} :
              Goto(t, place)
        BY <2>6 DEF MakeCallback, FirstClient, CreateProcessThread
      <3>2. pc[t] \in MakePlaces /\ pc[t] \in UsesThis
        BY <2>6 DEF MakeCallback, FirstClient, CreateProcessThread, MakePlaces,
           UsesThis
      <3>3. UNCHANGED <<mInstance, mClientInstance, this, life, pservice>>
        BY <2>6 DEF MakeCallback, FirstClient, CreateProcessThread, globalVars,
           objectVars
      <3>4. place \in {"callback", "firstClient"} => pc[t] = "callback"
        BY <1>0, <2>6, <3>1, GotoEffect DEF MakeCallback, FirstClient,
           CreateProcessThread
      <3>5. place \in {"callback", "firstClient"} => pservice'[this[t]] # NULL
        BY <1>0, <3>3, <3>4 DEF Owned
      <3> QED
        BY <3>1, <3>2, <3>3, <3>5, OwnersKept
    <2>7. CASE Return(t)
      <3>1. /\ this' = [this EXCEPT ![t] = mInstance] /\ Goto(t, "gotInstance")
            /\ UNCHANGED <<mInstance, life, pservice>>
        BY <2>7 DEF Return, globalVars, objectVars
      <3>2. pc'[t] = "gotInstance" /\ \A u \in Threads : u # t => pc'[u] = pc[u]
        BY <1>0, <3>1, GotoEffect
      <3>3. this'[t] = mInstance /\ \A u \in Threads : u # t => this'[u] = this[u]
        BY <1>0, <3>1 DEF PointersTyped
      <3>4. mInstance \in Objects /\ life[mInstance] # "none"
        BY <1>0, <2>7 DEF Return, PointersTyped, Owned
      <3>5. "gotInstance" \notin MakePlaces
        BY DEF MakePlaces
      <3>6. \A u \in Threads : pc'[u] \in UsesThis => life'[this'[u]] # "none"
        BY <1>0, <3>1, <3>2, <3>3, <3>4 DEF Owned
      <3>7. \A u \in Threads : pc'[u] \in MakePlaces =>
              this'[u] # mInstance' /\ this'[u] # mClientInstance'
        BY <1>0, <2>1, <3>1, <3>2, <3>3, <3>5 DEF Owned
      <3>8. \A v, u \in Threads :
              v # u /\ pc'[v] \in MakePlaces /\ pc'[u] \in UsesThis =>
                this'[u] # this'[v]
        BY <1>0, <3>2, <3>3, <3>5 DEF Owned
      <3>9. \A u \in Threads : pc'[u] \in {"callback", "firstClient"} =>
              pservice'[this'[u]] # NULL
        BY <1>0, <3>1, <3>2, <3>3 DEF Owned
      <3> QED
        BY <1>0, <2>1, <3>1, <3>6, <3>7, <3>8, <3>9 DEF Owned
    <2> QED
      BY <1>1, <2>2, <2>3, <2>4, <2>5, <2>6, <2>7 DEF Makes, Make
  <1>2. ASSUME NEW t \in Threads, Reconnects(t)
        PROVE  Owned'
    <2>1. PICK place \in ReconnectPlaces \cup {"ended"} : Goto(t, place)
      BY <1>2 DEF Reconnects, Unlink, NotReady, GetService, NoService, Ready,
         LinkToDeath, AddClient, ReconnectPlaces
    <2>2. pc[t] \in UsesThis
      BY <1>2 DEF Reconnects, Unlink, NotReady, GetService, Ready,
         LinkToDeath, AddClient, Reconnecting, ReconnectPlaces, UsesThis
    <2>3. place \notin MakePlaces /\ place \notin {"callback", "firstClient"}
      BY <2>1 DEF MakePlaces, ReconnectPlaces
    <2>4. UNCHANGED <<mInstance, mClientInstance, this, life>>
      BY <1>2, ReconnectsFrame DEF globalVars
    <2>5. \A u \in Threads : u # t /\ pc[u] \in {"callback", "firstClient"} =>
            pservice'[this[u]] = pservice[this[u]]
      <3>1. \A u \in Threads : u # t /\ pc[u] \in {"callback", "firstClient"}
              => this[u] # this[t] /\ this[u] \in Objects
        BY <1>0, <2>2 DEF Owned, PointersTyped, MakePlaces, UsesThis
      <3>2. CASE GetService(t)
        BY <3>1, <3>2 DEF GetService, ReplaceService, Typed, ObjectsTyped
      <3>3. CASE ~GetService(t)
        BY <1>2, <3>3, ReconnectsFrame
      <3> QED
        BY <3>2, <3>3
    <2> QED
      BY <2>1, <2>2, <2>3, <2>4, <2>5, OwnersKept
  <1>3. ASSUME NEW t \in Threads, Sends(t)
        PROVE  Owned'
    <2>1. UNCHANGED <<mInstance, mClientInstance, life, pservice>>
      BY <1>3, SendsFrame DEF globalVars, objectVars
    <2>2. PICK place \in SendPlaces : Goto(t, place)
      BY <1>3 DEF Sends, SendRequest, Checks, CheckReady, Transacts, Transact,
         SendPlaces
    <2>3. place \notin MakePlaces
      BY <2>2 DEF MakePlaces, SendPlaces
    <2>4. CASE SendRequest(t)
      <3>1. this' = [this EXCEPT ![t] = mClientInstance]
            /\ (place \in UsesThis => mClientInstance \in Objects)
        <4>1. "answered" \notin UsesThis
          BY DEF UsesThis, MakePlaces, ReconnectPlaces
        <4>2. pc'[t] = place
          BY <1>0, <2>2, GotoEffect
        <4>3. mClientInstance = NULL => Goto(t, "answered")
          BY <2>4 DEF SendRequest
        <4>4. mClientInstance = NULL => pc'[t] = "answered"
          BY <1>0, <4>3, GotoEffect
        <4> QED
          BY <1>0, <2>4, <4>1, <4>2, <4>4 DEF SendRequest, PointersTyped
      <3>2. pc'[t] = place /\ \A u \in Threads : u # t => pc'[u] = pc[u]
        BY <1>0, <2>2, GotoEffect
      <3>3. /\ this'[t] = mClientInstance
            /\ \A u \in Threads : u # t => this'[u] = this[u]
        BY <1>0, <3>1 DEF PointersTyped
      <3>4. \A u \in Threads : pc'[u] \in UsesThis => life'[this'[u]] # "none"
        BY <1>0, <2>1, <3>1, <3>2, <3>3 DEF Owned
      <3>5. \A u \in Threads : pc'[u] \in MakePlaces =>
              /\ u # t /\ pc[u] \in MakePlaces
              /\ this'[u] # mInstance' /\ this'[u] # mClientInstance'
        BY <1>0, <2>1, <2>3, <3>2, <3>3 DEF Owned
      <3>6. \A v, u \in Threads :
              v # u /\ pc'[v] \in MakePlaces /\ pc'[u] \in UsesThis =>
                this'[u] # this'[v]
        BY <1>0, <2>1, <3>2, <3>3, <3>5 DEF Owned
      <3>7. \A u \in Threads : pc'[u] \in {"callback", "firstClient"} =>
              pservice'[this'[u]] # NULL
        <4>1. place \notin {"callback", "firstClient"}
          BY <2>2 DEF SendPlaces
        <4> QED
          BY <1>0, <2>1, <3>2, <3>3, <4>1 DEF Owned
      <3> QED
        BY <1>0, <2>1, <3>4, <3>5, <3>6, <3>7 DEF Owned
    <2>5. CASE Checks(t) \/ Transacts(t)
      <3>1. this' = this /\ pc[t] \in UsesThis
        BY <2>5 DEF Checks, CheckReady, Transacts, Transact, UsesThis, Deleted,
           Faults
      <3>2. place \notin {"callback", "firstClient"}
        BY <2>2 DEF SendPlaces
      <3> QED
        BY <2>1, <2>2, <2>3, <3>1, <3>2, OwnersKept
    <2> QED
      BY <1>3, <2>4, <2>5 DEF Sends
  <1>4. CASE Tests
    <2>0. UNCHANGED <<mInstance, this, pservice>>
      BY <1>4, TestsFrame
    <2>1. PICK place \in {"idle", "getInstance", "register", "send", "sleep",
                          "deregister"} : Goto(Test, place)
      BY <1>4 DEF Tests, KeepInstance, StoreCallbacks, Answered, Deregisters,
         DeregisterClient, StartTest, Faults
    <2>2. place \notin UsesThis /\ place \notin MakePlaces
          /\ place \notin {"callback", "firstClient"}
      BY <2>1 DEF UsesThis, MakePlaces, ReconnectPlaces
    <2>3. \A o \in Objects : life[o] # "none" => life'[o] # "none"
      <3>1. Deregisters => life' = [life EXCEPT ![mClientInstance] = "deleted"]
        BY DEF Deregisters, DeregisterClient, Faults
      <3>2. ~Deregisters => life' = life
        BY <1>4, TestsFrame
      <3> QED
        BY <3>1, <3>2 DEF Typed, ObjectsTyped
    <2>4. CASE KeepInstance
      <3>1. /\ mClientInstance' = this[Test] /\ pc[Test] = "gotInstance"
            /\ life' = life /\ Test \in Threads
        BY <2>4, ThreadKinds DEF KeepInstance, objectVars
      <3>2. pc[Test] \in UsesThis /\ pc[Test] \notin MakePlaces
            /\ MakePlaces \subseteq UsesThis
        BY <3>1 DEF UsesThis, MakePlaces
      <3>3. pc'[Test] = place
            /\ \A u \in Threads : u # Test => pc'[u] = pc[u]
        BY <1>0, <2>1, <3>1, GotoEffect
      <3>4. \A u \in Threads : pc'[u] \in MakePlaces =>
              /\ u # Test /\ pc[u] \in MakePlaces
              /\ this[u] # mInstance /\ this[u] # this[Test]
        BY <1>0, <2>2, <3>1, <3>2, <3>3 DEF Owned
      <3>5. \A u \in Threads : pc'[u] \in UsesThis => pc[u] \in UsesThis
        BY <2>2, <3>3
      <3>6. life[this[Test]] # "none"
        BY <1>0, <3>1, <3>2 DEF Owned
      <3>7. \A u \in Threads : pc'[u] \in {"callback", "firstClient"} =>
              pservice[this[u]] # NULL
        BY <1>0, <2>2, <3>3 DEF Owned
      <3> QED
        BY <1>0, <2>0, <3>1, <3>4, <3>5, <3>6, <3>7 DEF Owned
    <2>5. CASE ~KeepInstance
      <3>1. mClientInstance' = mClientInstance
        BY <1>4, <2>5, TestsFrame
      <3> QED
        BY <2>0, <2>1, <2>2, <2>3, <3>1, OwnersKept, ThreadKinds
    <2> QED
      BY <2>4, <2>5
  <1>5. CASE Handles \/ CallHandled
    <2>1. PICK place \in {"idle", "send"} : Goto(Process, place)
      BY <1>5 DEF Handles, HandleCall, CallHandled
    <2>2. place \notin UsesThis /\ place \notin MakePlaces
          /\ place \notin {"callback", "firstClient"}
      BY <2>1 DEF UsesThis, MakePlaces, ReconnectPlaces
    <2>3. UNCHANGED <<mInstance, mClientInstance, this, life, pservice>>
      BY <1>5, ProcessFrame DEF ProcessCalls, globalVars, objectVars
    <2> QED
      BY <2>1, <2>2, <2>3, OwnersKept, ThreadKinds
  <1>6. ASSUME NEW o \in Objects, NEW s \in Services, Dies(o, s)
        PROVE  Owned'
    <2>1. PICK t \in Reconnectors : Goto(t, "getInstance")
      BY <1>6 DEF Dies, BinderDied
    <2>2. "getInstance" \notin UsesThis /\ "getInstance" \notin MakePlaces
      BY DEF UsesThis, MakePlaces, ReconnectPlaces
    <2>3. UNCHANGED <<mInstance, mClientInstance, this, life, pservice>>
      BY <1>6, OtherFrame DEF globalVars
    <2> QED
      BY <2>1, <2>2, <2>3, OwnersKept, ThreadKinds
  <1>7. CASE UNCHANGED vars \/ Calls \/ Environs
               \/ \E kind \in Kinds : Freezes(kind)
    BY <1>0, <1>7, OtherFrame DEF Owned, vars, threadVars, globalVars,
       objectVars, Calls, IncomingCall
  <1> QED
    BY <1>1, <1>2, <1>3, <1>4, <1>5, <1>6, <1>7, Steps DEF ProcessCalls

LEMMA InitTyped == Init => Typed
  <1> SUFFICES ASSUME Init PROVE Typed
    OBVIOUS
  <1>1. \A t \in Threads : pc[t] = "idle"
    BY DEF Init
  <1>2. "idle" \in Places /\ "idle" \notin UsesThis /\ "idle" \notin MakePlaces
    BY DEF Places, UsesThis, MakePlaces, ReconnectPlaces
  <1>3. PlacesTyped
    BY <1>1, <1>2, ThreadKinds DEF Init, PlacesTyped, ReconnectPlaces, SendPlaces
  <1>4. ServicesTyped
    BY BoundAssumption DEF Init, ServicesTyped, Services, NULL
  <1>5. CountsTyped
    BY BoundAssumption DEF Init, CountsTyped
  <1>6. ObjectsTyped
    BY <1>4, BoundAssumption DEF Init, ObjectsTyped, ServicesTyped, NULL
  <1>7. ReadyTyped /\ FlagsTyped
    <2>1. ReadyTyped
      BY DEF Init, ReadyTyped
    <2>2. FlagsTyped
      BY Zenon DEF Init, FlagsTyped
    <2> QED
      BY <2>1, <2>2
  <1>8. PointersTyped
    BY <1>1, <1>2, ThreadKinds DEF Init, PointersTyped, SendPlaces
  <1>9. Owned
    <2>1. NULL \notin Objects
      BY DEF NULL, Objects
    <2> QED
      BY <1>1, <1>2, <2>1 DEF Init, Owned
  <1> QED
    BY <1>3, <1>4, <1>5, <1>6, <1>7, <1>8, <1>9 DEF Typed

LEMMA NextTyped == Typed /\ [Next]_vars => Typed'
  BY NextPlaces, NextServices, NextCounts, NextObjects, NextFlags, NextPointers,
     NextOwned DEF Typed

\* No variable of the telephony client leaves its type, and each fault is of a
\* kind that is known.
THEOREM TypeCorrect == Spec => []TypeOK
  <1>1. Spec => []Typed
    BY InitTyped, NextTyped, PTL DEF Spec
  <1>2. Typed => TypeOK
    <2> SUFFICES ASSUME Typed PROVE TypeOK
      OBVIOUS
    <2>1. {s_registerClient, s_ClientCallbacks, p_thread, pool} \subseteq BOOLEAN
          /\ dialled \in BOOLEAN
      BY Zenon DEF Typed, FlagsTyped
    <2>2. is_serviceready \in [Objects -> BOOLEAN]
      BY DEF Typed, ReadyTyped
    <2>3. {mInstance, mClientInstance} \subseteq Objects \cup {NULL}
      BY DEF Typed, PointersTyped
    <2>4. orphaned \in BOOLEAN
      BY Zenon DEF Typed, FlagsTyped
    <2> QED
      BY <2>1, <2>2, <2>3, <2>4, Zenon DEF Typed, ServicesTyped, CountsTyped,
         ObjectsTyped, PointersTyped, TypeOK
  <1> QED
    BY <1>1, <1>2, PTL

\* What a thread makes is its own until it is finished.
THEOREM Private == Spec => []Owned
  <1>1. Spec => []Typed
    BY InitTyped, NextTyped, PTL DEF Spec
  <1>2. Typed => Owned
    BY DEF Typed
  <1> QED
    BY <1>1, <1>2, PTL

-----------------------------------------------------------------------------
(* What it takes to get into trouble.                                      *)

\* Before the first AppClient is known there is none, but for the one that the
\* test makes, and nobody to hear of a death.  ProcessThread is missing only
\* while the test makes the first one.
Beginning == pc[Test] \in {"idle", "getInstance"} /\ mInstance = NULL
Starting ==
  /\ Beginning => \A o \in Objects : life[o] = "none"
  /\ Beginning \/ pc[Test] = "connect" =>
       \A o \in Objects, s \in Services : links[o][s] = 0
  /\ Beginning \/ pc[Test] \in {"connect", "callback"} => ~pool
  /\ ~pool => \A t \in Reconnectors : pc[t] = "idle"
  /\ pc[Test] \in SendPlaces \cup {"return", "gotInstance", "register", "sleep",
                                   "deregister"} => mInstance \in Objects
  /\ s_ClientCallbacks => mInstance # NULL /\ pc[Test] \notin MakePlaces
  /\ pool /\ ~p_thread => pc[Test] \in {"firstClient", "processThread"}

\* A reconnection takes a death of the service.
Bereaved == \A t \in Reconnectors : pc[t] # "idle" => Deaths > 0

LEMMA DeathsCount ==
  ASSUME ServicesTyped
  PROVE  /\ service = NULL => Deaths = born
         /\ service # NULL => Deaths = born - 1 /\ born = service /\ born > 0
         /\ Deaths \in Nat
  BY DEF ServicesTyped, Deaths, Services, NULL

\* A death remains one.
LEMMA DeathsGrow ==
  ASSUME Typed, [Next]_vars, Deaths > 0
  PROVE  Deaths' > 0
  <1>1. ServicesTyped /\ ServicesTyped'
    BY NextServices DEF Typed
  <1>2. UNCHANGED <<service, born>> \/ ServiceStarts \/ ServiceDies
    BY Steps, MakesFrame, ReconnectsFrame, SendsFrame, TestsFrame,
       ProcessFrame, OtherFrame DEF vars, serviceVars, Environs
  <1>3. CASE UNCHANGED <<service, born>>
    BY <1>3 DEF Deaths
  <1>4. CASE ServiceStarts
    BY <1>1, <1>4, DeathsCount DEF ServiceStarts, Deaths, ServicesTyped,
       Services, NULL
  <1>5. CASE ServiceDies
    BY <1>1, <1>5, DeathsCount DEF ServiceDies, Deaths
  <1> QED
    BY <1>2, <1>3, <1>4, <1>5

LEMMA NextStarting ==
  ASSUME Typed, Starting, [Next]_vars
  PROVE  Starting'
  <1>0. /\ PlacesTyped /\ PointersTyped /\ ObjectsTyped
        /\ NULL \notin Objects
    BY DEF Typed, NULL, Objects
  <1>1. CASE Makes(Test)
    <2>1. /\ UNCHANGED s_ClientCallbacks
          /\ \A t \in Reconnectors : pc'[t] = pc[t]
          /\ ~CreateProcessThread(Test) => UNCHANGED p_thread
          /\ ~MakeCallback(Test) => UNCHANGED pool
          /\ ~Made(Test) => UNCHANGED mInstance
          /\ ~GetInstance(Test) => UNCHANGED life
          /\ ~Connect(Test) => UNCHANGED links
      <3>1. \A t \in Reconnectors : pc'[t] = pc[t]
        <4>1. PICK place : Goto(Test, place)
          BY <1>1 DEF Makes, Make, GetInstance, Connect, NoService, MakeCallback,
             FirstClient, CreateProcessThread, Made, Return
        <4> QED
          BY <1>0, <4>1, GotoEffect, ThreadKinds
      <3> QED
        BY <1>1, <3>1, MakesFrame, ThreadKinds
    <2>2. CASE GetInstance(Test) /\ mInstance # NULL
      <3>1. pc'[Test] = "gotInstance" /\ mInstance' = mInstance
            /\ UNCHANGED <<life, links, pool, p_thread>> /\ pc[Test] = "getInstance"
        BY <1>0, <2>2, GotoEffect, ThreadKinds DEF GetInstance, globalVars,
           objectVars
      <3> QED
        BY <1>0, <2>1, <2>2, <3>1 DEF Starting, Beginning, PointersTyped,
           MakePlaces
    <2>3. CASE GetInstance(Test) /\ mInstance = NULL
      <3>1. pc'[Test] = "connect" /\ mInstance' = mInstance
            /\ UNCHANGED <<links, pool, p_thread>> /\ pc[Test] = "getInstance"
        BY <1>0, <2>3, GotoEffect, ThreadKinds DEF GetInstance, globalVars
      <3>2. Beginning
        BY <2>3, <3>1 DEF Beginning
      <3>3. ~s_ClientCallbacks
        BY <2>3 DEF Starting
      <3> QED
        BY <2>1, <3>1, <3>2, <3>3 DEF Starting, Beginning, SendPlaces
    <2>4. CASE Connect(Test)
      <3>1. pc'[Test] \in {"connect", "made", "callback"} /\ pc[Test] = "connect"
            /\ UNCHANGED <<mInstance, life, pool, p_thread>>
        BY <1>0, <2>4, GotoEffect, ThreadKinds DEF Connect, NoService,
           globalVars, objectVars
      <3>2. pc'[Test] = "connect" => links' = links
        BY <1>0, <2>4, GotoEffect, ThreadKinds DEF Connect, NoService, objectVars
      <3>3. ~s_ClientCallbacks
        BY <3>1 DEF Starting, MakePlaces
      <3> QED
        BY <2>1, <3>1, <3>2, <3>3 DEF Starting, Beginning, SendPlaces
    <2>5. CASE MakeCallback(Test)
      <3>1. pc'[Test] = "firstClient" /\ pc[Test] = "callback"
            /\ UNCHANGED <<mInstance, life, links, p_thread>> /\ pool' = TRUE
        BY <1>0, <2>5, GotoEffect, ThreadKinds DEF MakeCallback, objectVars
      <3>2. ~s_ClientCallbacks
        BY <3>1 DEF Starting, MakePlaces
      <3> QED
        BY <2>1, <3>1, <3>2 DEF Starting, Beginning, SendPlaces
    <2>6. CASE FirstClient(Test)
      <3>1. pc'[Test] = "processThread" /\ pc[Test] = "firstClient"
            /\ UNCHANGED <<mInstance, life, links, p_thread, pool>>
        BY <1>0, <2>6, GotoEffect, ThreadKinds DEF FirstClient, objectVars,
           globalVars
      <3>2. ~s_ClientCallbacks
        BY <3>1 DEF Starting, MakePlaces
      <3> QED
        BY <2>1, <3>1, <3>2 DEF Starting, Beginning, SendPlaces
    <2>7. CASE CreateProcessThread(Test)
      <3>1. pc'[Test] = "made" /\ pc[Test] = "processThread"
            /\ UNCHANGED <<mInstance, life, links, pool>> /\ p_thread' = TRUE
        BY <1>0, <2>7, GotoEffect, ThreadKinds DEF CreateProcessThread,
           objectVars
      <3>2. ~s_ClientCallbacks
        BY <3>1 DEF Starting, MakePlaces
      <3> QED
        BY <2>1, <3>1, <3>2 DEF Starting, Beginning, SendPlaces
    <2>8. CASE Made(Test)
      <3>1. pc'[Test] = "return" /\ pc[Test] = "made"
            /\ UNCHANGED <<life, links, pool, p_thread>>
            /\ mInstance' = this[Test]
        BY <1>0, <2>8, GotoEffect, ThreadKinds DEF Made, objectVars
      <3>2. this[Test] \in Objects /\ ~s_ClientCallbacks
        BY <1>0, <3>1, ThreadKinds DEF PointersTyped, UsesThis, MakePlaces,
           Starting
      <3> QED
        BY <1>0, <2>1, <3>1, <3>2 DEF Starting, Beginning
    <2>9. CASE Return(Test)
      <3>1. pc'[Test] = "gotInstance" /\ pc[Test] = "return"
            /\ UNCHANGED <<mInstance, life, links, pool, p_thread>>
        BY <1>0, <2>9, GotoEffect, ThreadKinds DEF Return, objectVars,
           globalVars
      <3> QED
        BY <1>0, <2>1, <3>1 DEF Starting, Beginning, PointersTyped, MakePlaces
    <2> QED
      BY <1>1, <2>2, <2>3, <2>4, <2>5, <2>6, <2>7, <2>8, <2>9 DEF Makes, Make
  <1>2. ASSUME NEW t \in Reconnectors, Makes(t) \/ Reconnects(t)
        PROVE  Starting'
    <2>1. pc[t] # "idle" /\ t \in Threads /\ t # Test
      BY <1>2, ThreadKinds DEF Makes, Make, GetInstance, Connect, MakeCallback,
         FirstClient, CreateProcessThread, Made, Return, Reconnects, Unlink,
         NotReady,
         GetService, Ready, LinkToDeath, AddClient, Reconnecting
    <2>2. pool
      BY <2>1 DEF Starting
    <2>3. pool' = pool \/ pool' = TRUE
      BY <1>2, <2>1, MakesFrame, ReconnectsFrame, Zenon DEF MakeCallback,
         globalVars
    <2>4. p_thread' = p_thread \/ p_thread' = TRUE
      BY <1>2, <2>1, MakesFrame, ReconnectsFrame, Zenon
      DEF CreateProcessThread, globalVars
    <2>5. UNCHANGED s_ClientCallbacks
      BY <1>2, <2>1, MakesFrame, ReconnectsFrame DEF globalVars
    <2>6. pc'[Test] = pc[Test]
      <3>1. PICK place : Goto(t, place)
        BY <1>2 DEF Makes, Make, GetInstance, Connect, NoService, MakeCallback,
           FirstClient, CreateProcessThread, Made, Return, Reconnects, Unlink,
           NotReady,
           GetService, Ready, LinkToDeath, AddClient
      <3> QED
        BY <1>0, <2>1, <3>1, GotoEffect, ThreadKinds
    <2>7. mInstance' = mInstance \/ mInstance' \in Objects
      <3>1. CASE Made(t)
        BY <1>0, <2>1, <3>1 DEF Made, PointersTyped, UsesThis, MakePlaces
      <3>2. CASE ~Made(t)
        BY <1>2, <2>1, <3>2, MakesFrame, ReconnectsFrame DEF globalVars
      <3> QED
        BY <3>1, <3>2
    <2>8. ~Beginning /\ pc[Test] \notin {"connect", "callback"}
      BY <2>2 DEF Starting
    <2>9. ~Beginning'
      BY <1>0, <2>6, <2>7, <2>8 DEF Beginning
    <2>10. s_ClientCallbacks => mInstance' # NULL
      BY <1>0, <2>7 DEF Starting
    <2> QED
      BY <1>0, <2>2, <2>3, <2>4, <2>5, <2>6, <2>7, <2>8, <2>9, <2>10
      DEF Starting
  <1>3. ASSUME NEW t \in {Test, Process}, Sends(t)
        PROVE  Starting'
    <2>1. UNCHANGED <<mInstance, life, links, pool, p_thread, s_ClientCallbacks>>
      BY <1>3, ThreadKinds, SendsFrame DEF globalVars, objectVars
    <2>2. PICK place \in SendPlaces : Goto(t, place)
      BY <1>3 DEF Sends, SendRequest, Checks, CheckReady, Transacts, Transact,
         SendPlaces
    <2>3. \A r \in Reconnectors : pc'[r] = pc[r]
      BY <1>0, <2>2, GotoEffect, ThreadKinds
    <2>4. CASE t = Test
      <3>1. pc'[Test] \in SendPlaces
        BY <1>0, <2>2, <2>4, GotoEffect, ThreadKinds
      <3>2. pc[Test] \in SendPlaces
        BY <1>3, <2>4 DEF Sends, SendRequest, Checks, CheckReady, Transacts,
           Transact, SendPlaces
      <3> QED
        BY <1>0, <2>1, <2>3, <3>1, <3>2 DEF Starting, Beginning, SendPlaces,
           MakePlaces
    <2>5. CASE t = Process
      <3>1. pc'[Test] = pc[Test]
        BY <1>0, <2>2, <2>5, GotoEffect, ThreadKinds
      <3> QED
        BY <2>1, <2>3, <3>1 DEF Starting, Beginning
    <2> QED
      BY <2>4, <2>5
  <1>4. CASE Tests
    <2>0. UNCHANGED <<mInstance, p_thread, pool>>
      BY <1>4, TestsFrame
    <2>1. PICK place \in {"idle", "getInstance", "register", "send", "sleep",
                          "deregister"} : Goto(Test, place)
      BY <1>4 DEF Tests, KeepInstance, StoreCallbacks, Answered, Deregisters,
         DeregisterClient, StartTest, Faults
    <2>2. pc'[Test] = place /\ \A r \in Reconnectors : pc'[r] = pc[r]
      BY <1>0, <2>1, GotoEffect, ThreadKinds
    <2>3. CASE StartTest
      <3>1. UNCHANGED <<life, links, s_ClientCallbacks>> /\ pc[Test] = "idle"
        BY <2>3 DEF StartTest, objectVars, globalVars
      <3>2. pc'[Test] = "getInstance"
        BY <1>0, <2>3, GotoEffect, ThreadKinds DEF StartTest
      <3> QED
        BY <2>0, <2>2, <3>1, <3>2 DEF Starting, Beginning, SendPlaces,
           MakePlaces
    <2>4. CASE ~StartTest
      <3>1. pc[Test] \in SendPlaces \cup {"gotInstance", "register", "sleep",
                                          "deregister"}
        BY <1>4, <2>4 DEF Tests, KeepInstance, StoreCallbacks, Answered,
           Deregisters, DeregisterClient, Faults, SendPlaces
      <3>2. mInstance \in Objects /\ place \notin MakePlaces
        BY <2>1, <3>1 DEF Starting, MakePlaces
      <3>3. pc[Test] \notin {"firstClient", "processThread"}
        BY <3>1 DEF SendPlaces
      <3> QED
        BY <1>0, <2>0, <2>1, <2>2, <3>2, <3>3 DEF Starting, Beginning
    <2> QED
      BY <2>3, <2>4
  <1>5. CASE Handles \/ CallHandled
    <2>1. PICK place : Goto(Process, place)
      BY <1>5 DEF Handles, HandleCall, CallHandled, Faults
    <2>2. pc'[Test] = pc[Test] /\ \A r \in Reconnectors : pc'[r] = pc[r]
      BY <1>0, <2>1, GotoEffect, ThreadKinds
    <2>3. UNCHANGED <<mInstance, life, links, pool, p_thread, s_ClientCallbacks>>
      BY <1>5, ProcessFrame DEF ProcessCalls, globalVars, objectVars
    <2> QED
      BY <2>2, <2>3 DEF Starting, Beginning
  <1>6. ASSUME NEW o \in Objects, NEW s \in Services, Dies(o, s)
        PROVE  Starting'
    <2>1. PICK t \in Reconnectors : Goto(t, "getInstance")
      BY <1>6 DEF Dies, BinderDied
    <2>2. pc'[Test] = pc[Test]
      BY <1>0, <2>1, GotoEffect, ThreadKinds
    <2>3. UNCHANGED <<mInstance, life, pool, p_thread, s_ClientCallbacks>>
      BY <1>6, OtherFrame DEF globalVars
    <2>4. pool
      BY <1>6 DEF Dies, BinderDied
    <2> QED
      BY <2>2, <2>3, <2>4 DEF Starting, Beginning
  <1>7. CASE UNCHANGED vars \/ Calls \/ Environs
               \/ \E kind \in Kinds : Freezes(kind)
    BY <1>7, OtherFrame DEF Starting, Beginning, vars, threadVars, globalVars,
       objectVars, Calls, IncomingCall
  <1>8. ASSUME NEW t \in Threads, Makes(t) \/ Reconnects(t) \/ Sends(t)
        PROVE  Starting'
    BY <1>1, <1>2, <1>3, <1>8, ThreadKinds DEF Makes, Reconnects, Sends
  <1> QED
    BY <1>4, <1>5, <1>6, <1>7, <1>8, Steps DEF ProcessCalls

LEMMA NextBereaved ==
  ASSUME Typed, Starting, Bereaved, [Next]_vars
  PROVE  Bereaved'
  <1>0. PlacesTyped /\ ObjectsTyped /\ ServicesTyped
    BY DEF Typed
  <1>1. CASE Deaths > 0
    <2>1. Deaths' > 0
      BY <1>1, DeathsGrow
    <2> QED
      BY <2>1 DEF Bereaved
  <1>2. CASE ~(Deaths > 0)
    <2>1. \A t \in Reconnectors : pc[t] = "idle"
      BY <1>2 DEF Bereaved
    <2>2. \A t \in Reconnectors : ~Makes(t) /\ ~Reconnects(t)
      BY <2>1 DEF Makes, Make, GetInstance, Connect, MakeCallback,
         FirstClient, CreateProcessThread, Made, Return, Reconnects, Unlink,
         NotReady,
         GetService, Ready, LinkToDeath, AddClient, Reconnecting
    <2>3. ASSUME NEW o \in Objects, NEW s \in Services, Dies(o, s)
          PROVE  FALSE
      <3>1. links[o][s] > 0 /\ s # service
        BY <2>3 DEF Dies, BinderDied
      <3>2. s <= born /\ s > 0
        BY <1>0, <3>1 DEF ObjectsTyped, Services
      <3> QED
        BY <1>0, <1>2, <3>1, <3>2, DeathsCount DEF ServicesTyped, Services
    <2>4. \A t \in Reconnectors : pc'[t] = "idle"
      <3>1. ASSUME NEW t \in {Test, Process}, NEW place, Goto(t, place)
            PROVE  \A r \in Reconnectors : pc'[r] = "idle"
        BY <1>0, <2>1, <3>1, GotoEffect, ThreadKinds
      <3>2. ASSUME NEW t \in Threads, Makes(t) \/ Reconnects(t) \/ Sends(t)
            PROVE  \A r \in Reconnectors : pc'[r] = "idle"
        <4>1. t \in {Test, Process}
          BY <2>2, <3>2, ThreadKinds DEF Makes, Reconnects, Sends
        <4>2. \E place : Goto(t, place)
          BY <2>2, <3>2 DEF Makes, Make, GetInstance, Connect, NoService,
             MakeCallback, FirstClient, CreateProcessThread, Made, Return,
             Reconnects,
             Sends, SendRequest, Checks, CheckReady, Transacts, Transact
        <4> QED
          BY <3>1, <4>1, <4>2
      <3>3. CASE Tests \/ Handles \/ CallHandled
        <4>1. \E t \in {Test, Process} : \E place : Goto(t, place)
          BY <3>3 DEF Tests, KeepInstance, StoreCallbacks, Answered,
             Deregisters, DeregisterClient, StartTest, Faults, Handles,
             HandleCall, CallHandled
        <4> QED
          BY <3>1, <4>1
      <3>4. CASE UNCHANGED vars \/ Calls \/ Environs
                   \/ \E kind \in Kinds : Freezes(kind)
        BY <2>1, <3>4, OtherFrame DEF vars, threadVars, Calls, IncomingCall
      <3> QED
        BY <2>3, <3>2, <3>3, <3>4, Steps DEF ProcessCalls
    <2> QED
      BY <2>4 DEF Bereaved
  <1> QED
    BY <1>1, <1>2

LEMMA InitStarting == Init => Starting /\ Bereaved
  <1> SUFFICES ASSUME Init PROVE Starting /\ Bereaved
    OBVIOUS
  <1>1. Starting
    BY ThreadKinds DEF Init, Starting, SendPlaces, Services
  <1>2. Bereaved
    BY ThreadKinds DEF Init, Bereaved
  <1> QED
    BY <1>1, <1>2

\* Unless a death was reported too early, the reconnections find an AppClient
\* in mInstance, and the test makes the only one.
Orphans ==
  \/ orphaned
  \/ /\ \A o \in Objects : o > 1 => life[o] = "none"
     /\ \A r \in Reconnectors : pc[r] \notin MakePlaces
     /\ mInstance = NULL => \A r \in Reconnectors : pc[r] = "idle"

\* Steps that make no AppClient and leave the threads of reconnections.
LEMMA OrphansKept ==
  ASSUME Orphans, orphaned => orphaned',
         \A o \in Objects : life[o] = "none" => life'[o] = "none",
         \A r \in Reconnectors : pc'[r] = pc[r],
         mInstance' = NULL => mInstance = NULL
  PROVE  Orphans'
  BY DEF Orphans

LEMMA NextOrphans ==
  ASSUME Typed, Starting, Orphans, [Next]_vars
  PROVE  Orphans'
  <1>0. /\ PlacesTyped /\ PointersTyped /\ ObjectsTyped /\ Owned
        /\ NULL \notin Objects
    BY DEF Typed, NULL, Objects
  <1>a. orphaned => orphaned'
    <2>1. CASE \E o \in Objects, s \in Services : Dies(o, s)
      BY <2>1 DEF Dies, BinderDied
    <2> QED
      BY <2>1, OrphanedKept
  <1> SUFFICES ASSUME ~orphaned
               PROVE  Orphans'
    BY <1>a DEF Orphans
  <1>b. /\ \A o \in Objects : o > 1 => life[o] = "none"
        /\ \A r \in Reconnectors : pc[r] \notin MakePlaces
        /\ mInstance = NULL => \A r \in Reconnectors : pc[r] = "idle"
    BY DEF Orphans
  <1>1. CASE Makes(Test)
    <2>1. \A r \in Reconnectors : pc'[r] = pc[r]
      <3>1. PICK place : Goto(Test, place)
        BY <1>1 DEF Makes, Make, GetInstance, Connect, NoService, MakeCallback,
           FirstClient, CreateProcessThread, Made, Return
      <3> QED
        BY <1>0, <3>1, GotoEffect, ThreadKinds
    <2>2. mInstance' = NULL => mInstance = NULL
      <3>1. CASE Made(Test)
        BY <1>0, <3>1, ThreadKinds DEF Made, PointersTyped, UsesThis, MakePlaces
      <3> QED
        BY <1>1, <3>1, MakesFrame, ThreadKinds
    <2>3. CASE GetInstance(Test) /\ mInstance = NULL
      <3>1. \A o \in Objects : life[o] = "none"
        BY <2>3 DEF GetInstance, Starting, Beginning
      <3>2. PICK o \in Objects :
              /\ \A other \in 1 .. o - 1 : life[other] # "none"
              /\ life' = [life EXCEPT ![o] = "made"]
        BY <2>3 DEF GetInstance
      <3>3. o = 1
        <4>1. CASE o > 1
          <5>1. 1 \in 1 .. o - 1 /\ 1 \in Objects
            BY <4>1, BoundAssumption DEF Objects
          <5> QED
            BY <3>1, <3>2, <5>1
        <4> QED
          BY <4>1 DEF Objects
      <3>4. \A q \in Objects : q > 1 => life'[q] = "none"
        BY <1>0, <1>b, <3>2, <3>3 DEF ObjectsTyped
      <3> QED
        BY <1>b, <2>1, <2>2, <3>4 DEF Orphans
    <2>4. CASE ~(GetInstance(Test) /\ mInstance = NULL)
      <3>1. life' = life
        BY <1>1, <2>4, MakesFrame, ThreadKinds DEF GetInstance, objectVars
      <3> QED
        BY <1>a, <2>1, <2>2, <3>1, OrphansKept
    <2> QED
      BY <2>3, <2>4
  <1>2. ASSUME NEW r \in Reconnectors, Makes(r) \/ Reconnects(r)
        PROVE  Orphans'
    <2>0. r \in Threads /\ mInstance # NULL
      <3>1. pc[r] # "idle"
        BY <1>2, ThreadKinds DEF Makes, Make, GetInstance, Connect,
           MakeCallback, FirstClient, CreateProcessThread, Made, Return,
           Reconnects, Unlink, NotReady, GetService, Ready, LinkToDeath,
           AddClient, Reconnecting
      <3> QED
        BY <1>b, <3>1, ThreadKinds
    <2>1. CASE Makes(r)
      <3>1. GetInstance(r) \/ Return(r)
        BY <1>b, <2>1 DEF Makes, Make, Connect, MakeCallback, FirstClient,
           CreateProcessThread, Made, MakePlaces
      <3>2. Goto(r, "gotInstance") /\ UNCHANGED <<life, mInstance>>
        BY <2>0, <3>1 DEF GetInstance, Return, objectVars, globalVars
      <3>3. \A u \in Reconnectors : pc'[u] \notin MakePlaces
        BY <1>0, <1>b, <2>0, <3>2, GotoEffect, ThreadKinds DEF MakePlaces
      <3> QED
        BY <1>b, <2>0, <3>2, <3>3 DEF Orphans
    <2>2. CASE Reconnects(r)
      <3>1. PICK place \in ReconnectPlaces \cup {"ended"} : Goto(r, place)
        BY <2>2 DEF Reconnects, Unlink, NotReady, GetService, NoService, Ready,
           LinkToDeath, AddClient, ReconnectPlaces
      <3>2. UNCHANGED <<life, mInstance>>
        BY <2>0, <2>2, ReconnectsFrame DEF globalVars
      <3>3. place \notin MakePlaces
        BY <3>1 DEF ReconnectPlaces, MakePlaces
      <3>4. \A u \in Reconnectors : pc'[u] \notin MakePlaces
        BY <1>0, <1>b, <2>0, <3>1, <3>3, GotoEffect, ThreadKinds
      <3> QED
        BY <1>b, <2>0, <3>2, <3>4 DEF Orphans
    <2> QED
      BY <1>2, <2>1, <2>2
  <1>3. CASE Tests \/ ProcessCalls \/ \E t \in {Test, Process} : Sends(t)
    <2>1. UNCHANGED mInstance
      BY <1>3, ThreadKinds, TestsFrame, ProcessFrame, SendsFrame DEF globalVars
    <2>2. \A r \in Reconnectors : pc'[r] = pc[r]
      <3>1. CASE Calls
        BY <3>1 DEF Calls, IncomingCall, threadVars
      <3>2. CASE ~Calls
        <4>1. PICK t \in {Test, Process} : \E place : Goto(t, place)
          BY <1>3, <3>2 DEF Tests, KeepInstance, StoreCallbacks, Answered,
             Deregisters, DeregisterClient, StartTest, Faults, ProcessCalls,
             Handles, HandleCall, CallHandled, Sends, SendRequest, Checks,
             CheckReady, Transacts, Transact
        <4>2. PICK place : Goto(t, place)
          BY <4>1
        <4> QED
          BY <1>0, <4>2, GotoEffect, ThreadKinds
      <3> QED
        BY <3>1, <3>2
    <2>3. \A o \in Objects : life[o] = "none" => life'[o] = "none"
      <3>1. CASE Deregisters
        <4>1. life' = [life EXCEPT ![mClientInstance] = "deleted"]
              /\ mClientInstance \in Objects
              /\ life[mClientInstance] # "none"
          BY <1>0, <3>1 DEF Deregisters, DeregisterClient, Faults,
             PointersTyped, Owned
        <4> QED
          BY <1>0, <4>1 DEF ObjectsTyped
      <3>2. CASE ~Deregisters
        BY <1>3, <3>2, ThreadKinds, TestsFrame, ProcessFrame, SendsFrame
        DEF objectVars
      <3> QED
        BY <3>1, <3>2
    <2> QED
      BY <1>a, <2>1, <2>2, <2>3, OrphansKept
  <1>4. ASSUME NEW o \in Objects, NEW s \in Services, Dies(o, s)
        PROVE  Orphans'
    <2>1. CASE mInstance = NULL
      BY <1>4, <2>1 DEF Dies, BinderDied, Orphans
    <2>2. CASE mInstance # NULL
      <3>1. PICK r \in Reconnectors : Goto(r, "getInstance")
        BY <1>4 DEF Dies, BinderDied
      <3>2. UNCHANGED <<life, mInstance>>
        BY <1>4, OtherFrame DEF globalVars
      <3>3. \A u \in Reconnectors : pc'[u] \notin MakePlaces
        BY <1>0, <1>b, <3>1, GotoEffect, ThreadKinds DEF MakePlaces
      <3> QED
        BY <1>b, <2>2, <3>2, <3>3 DEF Orphans
    <2> QED
      BY <2>1, <2>2
  <1>5. CASE UNCHANGED vars \/ Environs \/ \E kind \in Kinds : Freezes(kind)
    <2>1. UNCHANGED <<life, mInstance, pc>>
      BY <1>5, OtherFrame DEF vars, objectVars, globalVars, threadVars
    <2> QED
      BY <1>a, <2>1, OrphansKept
  <1>6. ASSUME NEW t \in Threads, Makes(t) \/ Reconnects(t) \/ Sends(t)
        PROVE  Orphans'
    BY <1>1, <1>2, <1>3, <1>6, ThreadKinds DEF Makes, Reconnects, Sends
  <1> QED
    BY <1>3, <1>4, <1>5, <1>6, Steps

\* A second AppClient is made only if the death of the service reached the
\* process while getInstance was still making the first (AppClient.cpp 40-79).
THEOREM SecondClient == Spec => []SecondNeedsDeath
  <1>1. Init => Orphans
    BY ThreadKinds DEF Init, Orphans, MakePlaces
  <1>2. Typed /\ Starting /\ Orphans /\ [Next]_vars => Orphans'
    BY NextOrphans
  <1>3. Spec => [](Typed /\ Starting /\ Orphans)
    BY <1>1, <1>2, InitTyped, NextTyped, InitStarting, NextStarting, PTL
    DEF Spec
  <1>4. Orphans => SecondNeedsDeath
    BY DEF Orphans, SecondNeedsDeath
  <1> QED
    BY <1>3, <1>4, PTL

\* While the service has not died, what is ready has a service.
Undisturbed ==
  Deaths = 0 =>
    /\ \A o \in Objects : is_serviceready[o] => pservice[o] # NULL
    /\ \A t \in {Test, Process} : pc[t] = "transact" => pservice[this[t]] # NULL

\* The first test uses an AppClient that nobody has deleted yet, and without a
\* call ProcessThread uses none.
NoneDeleted == \A o \in Objects : life[o] # "deleted"
Alive ==
  /\ tests = 0 => pc[Test] = "idle" /\ NoneDeleted
  /\ tests <= 1 /\ pc[Test] # "idle" => NoneDeleted
  /\ calls = 0 => pc[Process] = "idle"

Blamed == FaultNeedsCause /\ CallbacksSafe

\* Where a fault can come from.
LEMMA FaultSources ==
  ASSUME Typed, [Next]_vars, fault' # fault
  PROVE  /\ fault = "none"
         /\ UNCHANGED <<serviceVars, callVars, objectVars, globalVars, testVars,
                        threadVars>>
         /\ \/ fault' = "p_thread" /\ pool /\ ~p_thread
            \/ fault' = "callback" /\ ~s_ClientCallbacks
            \/ fault' \in {"pservice", "deleted"}
               /\ \E t \in Reconnectors : pc[t] # "idle"
            \/ /\ fault' = "pservice"
               /\ \E t \in {Test, Process} : pc[t] = "transact"
                                             /\ pservice[this[t]] = NULL
            \/ fault' = "deleted" /\ pc[Process] # "idle"
            \/ fault' = "deleted" /\ pc[Test] # "idle" /\ ~NoneDeleted
  <1>0. PointersTyped
    BY DEF Typed
  <1>1. ASSUME NEW t \in Threads, ThreadStep(t), t \in Makers /\ Make(t)
        PROVE  FALSE
    BY <1>1, MakesFrame DEF Makes
  <1>2. ASSUME NEW t \in Threads, ThreadStep(t), Reconnect(t)
        PROVE  /\ fault' \in {"pservice", "deleted"} /\ pc[t] # "idle"
               /\ t \in Reconnectors
    BY <1>2, ReconnectsFrame DEF Reconnect, Reconnects, ReconnectFaults, Faults,
       Unlink, NotReady, GetService, Ready, LinkToDeath, AddClient, Reconnecting
  <1>3. ASSUME NEW t \in {Test, Process}, Send(t)
        PROVE  \/ /\ fault' = "pservice"
                  /\ pc[t] = "transact" /\ pservice[this[t]] = NULL
               \/ fault' = "deleted" /\ pc[t] # "idle" /\ ~NoneDeleted
    <2>1. t \in Threads
      BY ThreadKinds
    <2>2. Deleted(t) /\ pc[t] \in {"check", "transact"} => ~NoneDeleted
      BY <1>0, <2>1 DEF PointersTyped, UsesThis, Deleted, NoneDeleted
    <2> QED
      BY <1>3, <2>2 DEF Send, SendRequest, CheckReady, Transact, Faults
  <1>4. ASSUME TestStep, ~Send(Test)
        PROVE  fault' = "deleted" /\ pc[Test] # "idle" /\ ~NoneDeleted
    BY <1>0, <1>4 DEF TestStep, KeepInstance, StoreCallbacks, Answered,
       DeregisterClient, Faults, PointersTyped, NoneDeleted
  <1>5. ASSUME ProcessStep, ~Send(Process)
        PROVE  fault' = "callback" /\ ~s_ClientCallbacks
    BY <1>5 DEF ProcessStep, HandleCall, CallHandled, Faults
  <1>6. ASSUME Environment
        PROVE  fault' = "p_thread" /\ pool /\ ~p_thread
    BY <1>6 DEF Environment, StartTest, ServiceStarts, ServiceDies,
       IncomingCall, Faults
  <1>7. ASSUME Binder
        PROVE  FALSE
    BY <1>7 DEF Binder, BinderDied
  <1>8. fault = "none"
    BY DEF Next, ThreadStep, Binder, Environment, vars
  <1>9. /\ fault' \in Kinds
        /\ UNCHANGED <<serviceVars, callVars, objectVars, globalVars, testVars,
                       threadVars>>
    <2>1. PICK kind \in Kinds : Freezes(kind)
      BY Steps, MakesFrame, ReconnectsFrame, SendsFrame, TestsFrame,
         ProcessFrame, OtherFrame DEF vars, Environs
    <2> QED
      BY <2>1, OtherFrame DEF Freezes, Faults
  <1>10. ASSUME NEW t \in Threads, ThreadStep(t)
         PROVE  \/ Reconnect(t)
                \/ TestStep \/ ProcessStep
    BY <1>1, <1>10 DEF ThreadStep
  <1> QED
    BY <1>2, <1>3, <1>4, <1>5, <1>6, <1>7, <1>8, <1>9, <1>10, ThreadKinds
    DEF Next, vars

LEMMA NextBlamed ==
  ASSUME Typed, Starting, Bereaved, Undisturbed, Alive, Blamed, [Next]_vars
  PROVE  Blamed'
  <1>0. ServicesTyped /\ ServicesTyped' /\ CountsTyped /\ CountsTyped'
    BY NextTyped DEF Typed
  <1>1. CASE fault' # fault
    <2>1. UNCHANGED <<s_ClientCallbacks, tests, calls, Deaths>>
      BY <1>1, FaultSources DEF globalVars, testVars, callVars, serviceVars,
         Deaths
    <2>2. CallbacksSafe'
      BY <1>1, <2>1, FaultSources DEF CallbacksSafe, Starting, MakePlaces
    <2>3. (\E t \in Reconnectors : pc[t] # "idle") => Deaths > 0
      BY DEF Bereaved
    <2>4. fault' = "pservice" => Deaths > 0
      <3>1. Deaths \in Nat
        BY <1>0, DeathsCount
      <3> QED
        BY <1>1, <2>3, <3>1, FaultSources DEF Undisturbed
    <2>5. fault' = "deleted" => tests > 1 \/ calls > 0 \/ Deaths > 0
      <3>1. pc[Process] # "idle" => calls > 0
        BY <1>0 DEF Alive, CountsTyped
      <3>2. pc[Test] # "idle" /\ ~NoneDeleted => tests > 1
        BY <1>0 DEF Alive, CountsTyped
      <3> QED
        BY <1>1, <2>3, <3>1, <3>2, FaultSources
    <2> QED
      BY <2>1, <2>2, <2>4, <2>5 DEF Blamed, FaultNeedsCause
  <1>2. CASE fault' = fault /\ fault = "none"
    BY <1>2 DEF Blamed, FaultNeedsCause, CallbacksSafe
  <1>3. CASE fault' = fault /\ fault # "none"
    <2>1. UNCHANGED vars
      BY <1>3 DEF Next, ThreadStep, Binder, Environment
    <2> QED
      BY <2>1 DEF vars, Blamed, FaultNeedsCause, CallbacksSafe, globalVars,
         testVars, callVars, serviceVars, Deaths
  <1> QED
    BY <1>1, <1>2, <1>3

\* The life of AppClients, the tests and the calls, step by step.
LEMMA NextAlive ==
  ASSUME Typed, Alive, [Next]_vars
  PROVE  Alive'
  <1>0. PlacesTyped /\ ObjectsTyped /\ PointersTyped /\ CountsTyped
    BY DEF Typed
  <1>1. ASSUME NEW t \in Threads, Makes(t)
        PROVE  Alive'
    <2>1. \A o \in Objects : life'[o] = "deleted" => life[o] = "deleted"
      <3>1. CASE life' = life
        BY <3>1
      <3>2. CASE life' # life
        <4>1. PICK o \in Objects : life' = [life EXCEPT ![o] = "made"]
          BY <1>1, <3>2, MakesFrame DEF GetInstance, objectVars
        <4> QED
          BY <1>0, <4>1 DEF ObjectsTyped
      <3> QED
        BY <3>1, <3>2
    <2>2. PICK place : Goto(t, place)
      BY <1>1 DEF Makes, Make, GetInstance, Connect, NoService, MakeCallback,
         FirstClient, CreateProcessThread, Made, Return
    <2>3. pc[t] # "idle" /\ t # Process
      BY <1>1, ThreadKinds DEF Makes, Make, GetInstance, Connect, MakeCallback,
         FirstClient, CreateProcessThread, Made, Return
    <2>4. \A u \in Threads : u # t => pc'[u] = pc[u]
      BY <1>0, <2>2, GotoEffect
    <2>5. UNCHANGED <<tests, calls>>
      BY <1>1, MakesFrame DEF testVars
    <2> QED
      BY <2>1, <2>3, <2>4, <2>5, ThreadKinds DEF Alive, NoneDeleted
  <1>2. ASSUME NEW t \in Threads, Reconnects(t)
        PROVE  Alive'
    <2>1. PICK place : Goto(t, place)
      BY <1>2 DEF Reconnects, Unlink, NotReady, GetService, Ready, LinkToDeath,
         AddClient, NoService
    <2>2. pc'[Test] = pc[Test] /\ pc'[Process] = pc[Process]
      BY <1>0, <1>2, <2>1, GotoEffect, ThreadKinds DEF Reconnects
    <2>3. UNCHANGED <<life, tests, calls>>
      BY <1>2, ReconnectsFrame DEF testVars
    <2> QED
      BY <2>2, <2>3 DEF Alive, NoneDeleted
  <1>3. ASSUME NEW t \in Threads, Sends(t)
        PROVE  Alive'
    <2>1. PICK place : Goto(t, place)
      BY <1>3 DEF Sends, SendRequest, Checks, CheckReady, Transacts, Transact
    <2>2. pc[t] # "idle"
      BY <1>3 DEF Sends, SendRequest, Checks, CheckReady, Transacts, Transact
    <2>3. \A u \in Threads : u # t => pc'[u] = pc[u]
      BY <1>0, <2>1, GotoEffect
    <2>4. UNCHANGED <<life, tests, calls>>
      BY <1>3, SendsFrame DEF objectVars, callVars
    <2> QED
      BY <2>2, <2>3, <2>4, ThreadKinds DEF Alive, NoneDeleted
  <1>4. CASE Tests
    <2>1. PICK place : Goto(Test, place)
      BY <1>4 DEF Tests, KeepInstance, StoreCallbacks, Answered, Deregisters,
         DeregisterClient, StartTest, Faults
    <2>2. pc'[Process] = pc[Process] /\ calls' = calls /\ pc'[Test] = place
      BY <1>0, <1>4, <2>1, GotoEffect, ThreadKinds, TestsFrame DEF callVars
    <2>3. CASE StartTest
      <3>1. pc[Test] = "idle" /\ tests' = tests + 1 /\ life' = life
        BY <2>3 DEF StartTest, objectVars
      <3>2. tests' <= 1 => tests = 0
        BY <1>0, <3>1 DEF CountsTyped
      <3> QED
        BY <1>0, <2>2, <3>1, <3>2 DEF Alive, NoneDeleted, CountsTyped
    <2>4. CASE Deregisters
      <3>1. pc'[Test] = "idle" /\ pc[Test] # "idle" /\ tests' = tests
        BY <1>0, <2>4, GotoEffect, ThreadKinds DEF Deregisters,
           DeregisterClient, Faults, testVars
      <3> QED
        BY <2>2, <3>1 DEF Alive
    <2>5. CASE ~StartTest /\ ~Deregisters
      <3>1. pc[Test] # "idle" /\ tests' = tests /\ life' = life
        BY <1>4, <2>5, TestsFrame DEF Tests, KeepInstance, StoreCallbacks,
           Answered
      <3> QED
        BY <2>2, <3>1 DEF Alive, NoneDeleted
    <2> QED
      BY <2>3, <2>4, <2>5
  <1>5. CASE ProcessCalls
    <2>1. UNCHANGED <<life, tests>>
      BY <1>5, ProcessFrame DEF objectVars, testVars
    <2>2. CASE Calls
      <3>1. calls' = calls + 1 /\ pc' = pc
        BY <2>2 DEF Calls, IncomingCall, Faults, threadVars
      <3>2. calls' # 0
        BY <1>0, <3>1 DEF CountsTyped
      <3> QED
        BY <2>1, <3>1, <3>2 DEF Alive, NoneDeleted
    <2>3. CASE Handles \/ CallHandled
      <3>1. PICK place : Goto(Process, place)
        BY <2>3 DEF Handles, HandleCall, CallHandled, Faults
      <3>2. calls' = calls /\ (messages > 0 \/ pc[Process] # "idle")
        BY <2>3 DEF Handles, HandleCall, CallHandled, Faults, callVars
      <3>3. calls # 0
        BY <1>0, <3>2 DEF Alive, CountsTyped
      <3>4. pc'[Test] = pc[Test]
        BY <1>0, <3>1, GotoEffect, ThreadKinds
      <3> QED
        BY <2>1, <3>2, <3>3, <3>4 DEF Alive, NoneDeleted
    <2> QED
      BY <1>5, <2>2, <2>3 DEF ProcessCalls
  <1>6. ASSUME NEW o \in Objects, NEW s \in Services, Dies(o, s)
        PROVE  Alive'
    <2>1. PICK t \in Reconnectors : Goto(t, "getInstance")
      BY <1>6 DEF Dies, BinderDied
    <2>2. pc'[Test] = pc[Test] /\ pc'[Process] = pc[Process]
      BY <1>0, <2>1, GotoEffect, ThreadKinds
    <2>3. UNCHANGED <<life, tests, calls>>
      BY <1>6, OtherFrame DEF testVars, callVars
    <2> QED
      BY <2>2, <2>3 DEF Alive, NoneDeleted
  <1>7. CASE UNCHANGED vars \/ Environs \/ \E kind \in Kinds : Freezes(kind)
    BY <1>7, OtherFrame DEF Alive, NoneDeleted, vars, threadVars, testVars,
       callVars, objectVars
  <1> QED
    BY <1>1, <1>2, <1>3, <1>4, <1>5, <1>6, <1>7, Steps

LEMMA NextUndisturbed ==
  ASSUME Typed, Bereaved, Undisturbed, [Next]_vars
  PROVE  Undisturbed'
  <1>0. /\ PlacesTyped /\ ObjectsTyped /\ PointersTyped /\ ReadyTyped
        /\ ServicesTyped /\ ServicesTyped'
    BY NextTyped DEF Typed
  <1>1. CASE Deaths' > 0
    BY <1>1 DEF Undisturbed
  <1>2. CASE ~(Deaths' > 0)
    <2>0. Deaths = 0 /\ \A t \in Reconnectors : pc[t] = "idle"
      <3>1. Deaths \in Nat
        BY <1>0, DeathsCount
      <3> QED
        BY <1>2, <3>1, DeathsGrow DEF Bereaved
    <2>1. \A t \in Reconnectors : ~Makes(t) /\ ~Reconnects(t)
      BY <2>0 DEF Makes, Make, GetInstance, Connect, MakeCallback,
         FirstClient, CreateProcessThread, Made, Return, Reconnects, Unlink,
         NotReady,
         GetService, Ready, LinkToDeath, AddClient, Reconnecting
    <2>2. CASE Makes(Test)
      <3>1. pc'[Test] # "transact" /\ pc'[Process] = pc[Process]
        <4>1. PICK place \in MakePlaces \cup {"return", "gotInstance"} :
                Goto(Test, place)
          BY <2>2 DEF Makes, Make, GetInstance, Connect, NoService, MakeCallback,
             FirstClient, CreateProcessThread, Made, Return, MakePlaces
        <4> QED
          BY <1>0, <4>1, GotoEffect, ThreadKinds DEF MakePlaces
      <3>2. this'[Process] = this[Process]
        <4>1. this' = this \/ \E o : this' = [this EXCEPT ![Test] = o]
          BY <2>2, MakesFrame, ThreadKinds DEF GetInstance, Return
        <4> QED
          BY <1>0, <4>1, ThreadKinds DEF PointersTyped
      <3>3. CASE Connect(Test) /\ service # NULL
        <4>1. /\ pservice' = [pservice EXCEPT ![this[Test]] = service]
              /\ is_serviceready' = [is_serviceready EXCEPT ![this[Test]] = TRUE]
          BY <3>3 DEF Connect, NoService
        <4>2. \A o \in Objects :
                pservice'[o] = pservice[o] \/ pservice'[o] # NULL
          BY <1>0, <3>3, <4>1 DEF ObjectsTyped
        <4>3. \A o \in Objects : is_serviceready'[o] /\ ~is_serviceready[o] =>
                pservice'[o] # NULL
          <5>1. ASSUME NEW o \in Objects, o # this[Test]
                PROVE  is_serviceready'[o] = is_serviceready[o]
            BY <1>0, <4>1, <5>1 DEF ReadyTyped
          <5>2. ASSUME NEW o \in Objects, o = this[Test]
                PROVE  pservice'[o] # NULL
            BY <1>0, <3>3, <4>1, <5>2 DEF ObjectsTyped
          <5> QED
            BY <5>1, <5>2
        <4>4. pc[Process] = "transact" => this[Process] \in Objects
          BY <1>0, ThreadKinds DEF PointersTyped, UsesThis
        <4> QED
          BY <2>0, <3>1, <3>2, <4>2, <4>3, <4>4 DEF Undisturbed
      <3>4. CASE ~(Connect(Test) /\ service # NULL)
        <4>1. UNCHANGED <<pservice, is_serviceready>>
          BY <2>2, <3>4, MakesFrame, ThreadKinds DEF Connect, objectVars
        <4> QED
          BY <2>0, <3>1, <3>2, <4>1 DEF Undisturbed
      <3> QED
        BY <3>3, <3>4
    <2>3. ASSUME NEW t \in {Test, Process}, Sends(t)
          PROVE  Undisturbed'
      <3>1. UNCHANGED <<pservice, is_serviceready>>
        BY <2>3, SendsFrame, ThreadKinds DEF objectVars
      <3>2. /\ pc'[t] = "transact" => /\ this'[t] = this[t]
                                      /\ is_serviceready[this[t]]
                                      /\ this[t] \in Objects
            /\ \A u \in Threads : u # t => pc'[u] = pc[u] /\ this'[u] = this[u]
        <4>1. CASE SendRequest(t)
          BY <1>0, <4>1, GotoEffect, ThreadKinds DEF SendRequest, PointersTyped
        <4>2. CASE Checks(t)
          <5>1. this' = this
            BY <4>2 DEF Checks, CheckReady, Faults, Deleted
          <5>2. this[t] \in Objects
            BY <1>0, <4>2, ThreadKinds DEF Checks, CheckReady, PointersTyped,
               UsesThis
          <5>3. CASE is_serviceready[this[t]]
            <6>1. Goto(t, "transact")
              BY <4>2, <5>3 DEF Checks, CheckReady, Deleted
            <6> QED
              BY <1>0, <5>1, <5>2, <5>3, <6>1, GotoEffect, ThreadKinds
          <5>4. CASE ~is_serviceready[this[t]]
            <6>1. Goto(t, "answered")
              BY <4>2, <5>4 DEF Checks, CheckReady, Deleted
            <6> QED
              BY <1>0, <5>1, <6>1, GotoEffect, ThreadKinds
          <5> QED
            BY <5>3, <5>4
        <4>3. CASE Transacts(t)
          <5>1. this' = this /\ Goto(t, "answered")
            BY <4>3 DEF Transacts, Transact, Faults
          <5> QED
            BY <1>0, <5>1, GotoEffect, ThreadKinds
        <4> QED
          BY <2>3, <4>1, <4>2, <4>3 DEF Sends
      <3> QED
        BY <2>0, <3>1, <3>2, ThreadKinds DEF Undisturbed
    <2>4. CASE Tests
      <3>1. PICK place \in {"idle", "getInstance", "register", "send", "sleep",
                            "deregister"} : Goto(Test, place)
        BY <2>4 DEF Tests, KeepInstance, StoreCallbacks, Answered, Deregisters,
           DeregisterClient, StartTest, Faults
      <3>2. pc'[Test] # "transact" /\ pc'[Process] = pc[Process]
        BY <1>0, <3>1, GotoEffect, ThreadKinds
      <3> QED
        BY <2>0, <2>4, <3>2, TestsFrame DEF Undisturbed
    <2>5. CASE ProcessCalls
      <3>1. pc'[Test] = pc[Test] /\ (pc'[Process] = "transact" =>
                                       pc[Process] = "transact")
        BY <1>0, <2>5, GotoEffect, ThreadKinds DEF ProcessCalls, Handles,
           HandleCall, CallHandled, Calls, IncomingCall, Faults, threadVars
      <3> QED
        BY <2>0, <2>5, <3>1, ProcessFrame DEF Undisturbed, objectVars
    <2>6. ASSUME NEW o \in Objects, NEW s \in Services, Dies(o, s)
          PROVE  Undisturbed'
      <3>1. PICK t \in Reconnectors : Goto(t, "getInstance")
        BY <2>6 DEF Dies, BinderDied
      <3>2. pc'[Test] = pc[Test] /\ pc'[Process] = pc[Process]
        BY <1>0, <3>1, GotoEffect, ThreadKinds
      <3> QED
        BY <2>0, <2>6, <3>2, OtherFrame DEF Undisturbed
    <2>7. CASE UNCHANGED vars \/ Environs \/ \E kind \in Kinds : Freezes(kind)
      BY <2>0, <2>7, OtherFrame DEF Undisturbed, vars, threadVars, objectVars
    <2>8. ASSUME NEW t \in Threads, Makes(t) \/ Reconnects(t) \/ Sends(t)
          PROVE  Undisturbed'
      BY <2>1, <2>2, <2>3, <2>8, ThreadKinds DEF Makes, Reconnects, Sends
    <2> QED
      BY <2>4, <2>5, <2>6, <2>7, <2>8, Steps
  <1> QED
    BY <1>1, <1>2

Trouble == Typed /\ Starting /\ Bereaved /\ Undisturbed /\ Alive /\ Blamed

LEMMA Troubled == Spec => []Trouble
  <1>1. Init => Undisturbed /\ Alive /\ Blamed
    <2> SUFFICES ASSUME Init PROVE Undisturbed /\ Alive /\ Blamed
      OBVIOUS
    <2>1. Undisturbed
      BY ThreadKinds DEF Init, Undisturbed
    <2>2. Alive
      BY ThreadKinds DEF Init, Alive, NoneDeleted
    <2> QED
      BY <2>1, <2>2 DEF Init, Blamed, FaultNeedsCause, CallbacksSafe
  <1>2. Init => Trouble
    BY <1>1, InitTyped, InitStarting DEF Trouble
  <1>3. Trouble /\ [Next]_vars => Trouble'
    BY NextTyped, NextStarting, NextBereaved, NextUndisturbed, NextAlive,
       NextBlamed DEF Trouble
  <1> QED
    BY <1>2, <1>3, PTL DEF Spec

\* A null service pointer is used only after the service died; a deleted
\* AppClient only by a second test, a call or a reconnection.
THEOREM Causes == Spec => []FaultNeedsCause
  <1>1. Trouble => FaultNeedsCause
    BY DEF Trouble, Blamed
  <1> QED
    BY <1>1, Troubled, PTL

\* From the moment the test has stored its callbacks no call of the service
\* finds them, or ProcessThread, missing.
THEOREM Callbacks == Spec => []CallbacksSafe
  <1>1. Trouble => CallbacksSafe
    BY DEF Trouble, Blamed
  <1> QED
    BY <1>1, Troubled, PTL

-----------------------------------------------------------------------------
(* One AppClient.                                                          *)

\* A reconnection that has not linked the AppClient to the service's death yet.
Unlinked == {"getInstance", "gotInstance", "notReady", "getService", "ready",
             "link"}
Linking(r) == r \in Reconnectors /\ pc[r] \in Unlinked

\* There is one link or one reconnection that has still to make it, never more:
\* so no two reconnections replace the service of one AppClient at a time.
OneLink ==
  /\ \A o \in Objects, s \in Services : o > 1 => links[o][s] = 0
  /\ \A s \in Services : links[1][s] <= 1
  /\ \A s, q \in Services : links[1][s] > 0 /\ links[1][q] > 0 => s = q
  /\ \A r \in Reconnectors, s \in Services : Linking(r) => links[1][s] = 0
  /\ \A r, u \in Reconnectors : Linking(r) /\ Linking(u) => r = u

ReadyServed ==
  /\ \A r \in Reconnectors : pc[r] = "getService" => ~is_serviceready[1]
  /\ \A r \in Reconnectors : pc[r] = "ready" => pservice[1] # NULL
  /\ is_serviceready[1] => pservice[1] # NULL

\* Places of a thread whose AppClient is being made or has just been.
Making == MakePlaces \cup {"return"}

Single ==
  Alone => /\ pool => life[1] # "none"
           /\ \A r \in Reconnectors : pc[r] \notin Making
           /\ OneLink /\ ReadyServed

\* An AppClient stays one, alive or deleted.
LEMMA LivesOn ==
  ASSUME Typed, [Next]_vars, NEW o \in Objects, life[o] # "none"
  PROVE  life'[o] # "none"
  <1>0. ObjectsTyped /\ PointersTyped
    BY DEF Typed
  <1>1. ASSUME NEW t \in Threads, Makes(t)
        PROVE  life'[o] # "none"
    <2>1. life' = life \/ \E p \in Objects : life' = [life EXCEPT ![p] = "made"]
      BY <1>1, MakesFrame DEF GetInstance, objectVars
    <2> QED
      BY <1>0, <2>1 DEF ObjectsTyped
  <1>2. CASE Deregisters
    <2>1. life' = [life EXCEPT ![mClientInstance] = "deleted"]
      BY <1>2 DEF Deregisters, DeregisterClient, Faults
    <2> QED
      BY <1>0, <2>1 DEF ObjectsTyped
  <1> QED
    BY <1>1, <1>2, Steps, ReconnectsFrame, SendsFrame, TestsFrame, ProcessFrame,
       OtherFrame DEF vars, objectVars

\* Alone, every pointer leads to the first AppClient.
LEMMA OnlyFirst ==
  ASSUME Typed, Alone, NEW t \in Threads, pc[t] \in UsesThis
  PROVE  this[t] = 1
  BY DEF Typed, Alone, Owned, PointersTyped, Objects

\* Steps that leave the threads of reconnections and the AppClient's service.
LEMMA SingleKept ==
  ASSUME Single, Alone' => Alone,
         pool' => pool \/ life'[1] # "none", life[1] # "none" => life'[1] # "none",
         \A r \in Reconnectors : pc'[r] = pc[r],
         UNCHANGED <<pservice, is_serviceready, links>>
  PROVE  Single'
  BY DEF Single, OneLink, ReadyServed, Linking

LEMMA NextSingle ==
  ASSUME Typed, Starting, Single, [Next]_vars
  PROVE  Single'
  <1>0. /\ PlacesTyped /\ PointersTyped /\ ObjectsTyped /\ ReadyTyped
        /\ ServicesTyped /\ 1 \in Objects
    BY BoundAssumption DEF Typed, Objects
  <1>a. Alone' => Alone
    BY LivesOn DEF Alone
  <1>b. life[1] # "none" => life'[1] # "none"
    BY <1>0, LivesOn
  <1> SUFFICES ASSUME Alone'
               PROVE  Single'
    BY DEF Single
  <1>c. /\ Alone /\ OneLink /\ ReadyServed
        /\ pool => life[1] # "none"
        /\ \A r \in Reconnectors : pc[r] \notin Making
    BY <1>a DEF Single
  <1>1. CASE Makes(Test)
    <2>1. \A r \in Reconnectors : pc'[r] = pc[r]
      <3>1. PICK place : Goto(Test, place)
        BY <1>1 DEF Makes, Make, GetInstance, Connect, NoService, MakeCallback,
           FirstClient, CreateProcessThread, Made, Return
      <3> QED
        BY <1>0, <3>1, GotoEffect, ThreadKinds
    <2>2. CASE Connect(Test) /\ service # NULL
      <3>1. /\ pservice' = [pservice EXCEPT ![this[Test]] = service]
            /\ is_serviceready' = [is_serviceready EXCEPT ![this[Test]] = TRUE]
            /\ links' = [links EXCEPT ![this[Test]][service] = @ + 1]
            /\ UNCHANGED <<pool, life>> /\ pc[Test] = "connect"
        BY <2>2 DEF Connect, NoService, Linked, globalVars
      <3>2. this[Test] = 1
        BY <1>c, <3>1, OnlyFirst, ThreadKinds DEF UsesThis, MakePlaces
      <3>3. /\ \A r \in Reconnectors : pc[r] = "idle"
            /\ \A s \in Services : links[1][s] = 0
        BY <1>0, <3>1 DEF Starting
      <3>4. pservice'[1] # NULL /\ service \in Services
        BY <1>0, <2>2, <3>1, <3>2 DEF ObjectsTyped, ServicesTyped
      <3>5. /\ \A s \in Services : links'[1][s] = IF s = service THEN 1 ELSE 0
            /\ \A o \in Objects : o > 1 => links'[o] = links[o]
        BY <1>0, <3>1, <3>2, <3>3, <3>4 DEF ObjectsTyped
      <3>6. OneLink'
        BY <1>c, <2>1, <3>3, <3>5 DEF OneLink, Linking, Unlinked
      <3>7. ReadyServed'
        BY <2>1, <3>3, <3>4 DEF ReadyServed
      <3> QED
        BY <1>c, <2>1, <3>1, <3>6, <3>7 DEF Single
    <2>3. CASE ~(Connect(Test) /\ service # NULL)
      <3>1. UNCHANGED <<pservice, is_serviceready, links>>
        BY <1>1, <2>3, MakesFrame, ThreadKinds DEF Connect, objectVars
      <3>2. pool' => pool \/ life'[1] # "none"
        <4>1. CASE MakeCallback(Test)
          <5>1. pc[Test] = "callback" /\ life' = life
            BY <4>1 DEF MakeCallback, objectVars
          <5>2. this[Test] = 1 /\ life[this[Test]] # "none"
            BY <1>c, <5>1, OnlyFirst, ThreadKinds DEF UsesThis, MakePlaces, Typed,
               Owned
          <5> QED
            BY <5>1, <5>2
        <4>2. CASE ~MakeCallback(Test)
          BY <1>1, <4>2, MakesFrame, ThreadKinds
        <4> QED
          BY <4>1, <4>2
      <3> QED
        BY <1>a, <1>b, <2>1, <3>1, <3>2, SingleKept
    <2> QED
      BY <2>2, <2>3
  <1>2. ASSUME NEW t \in Reconnectors, Makes(t)
        PROVE  Single'
    <2>0. t \in Threads /\ t # Test
      BY ThreadKinds
    <2>1. GetInstance(t) /\ pc[t] = "getInstance"
      BY <1>2, <1>c DEF Makes, Make, GetInstance, Connect, MakeCallback,
         FirstClient, CreateProcessThread, Made, Return, MakePlaces, Making
    <2>2. life[1] # "none"
      BY <1>c, <2>1 DEF Starting
    <2>3. mInstance # NULL
      <3>1. ASSUME mInstance = NULL
            PROVE  FALSE
        <4>1. PICK o \in Objects :
                life[o] = "none" /\ life' = [life EXCEPT ![o] = "made"]
          BY <2>1, <3>1 DEF GetInstance
        <4>2. life'[o] = "made" /\ o > 1
          BY <1>0, <2>2, <4>1 DEF ObjectsTyped, Objects
        <4> QED
          BY <4>2 DEF Alone
      <3> QED
        BY <3>1
    <2>4. Goto(t, "gotInstance") /\ UNCHANGED <<objectVars, pool>>
      BY <2>1, <2>3 DEF GetInstance, globalVars
    <2>5. pc'[t] = "gotInstance" /\ \A u \in Threads : u # t => pc'[u] = pc[u]
      BY <1>0, <2>0, <2>4, GotoEffect
    <2>6. \A r \in Reconnectors : Linking(r)' <=> Linking(r)
      BY <2>1, <2>5, ThreadKinds DEF Linking, Unlinked
    <2>7. OneLink'
      BY <1>c, <2>4, <2>6 DEF OneLink, objectVars
    <2>8. ReadyServed'
      BY <1>c, <2>4, <2>5, ThreadKinds DEF ReadyServed, objectVars
    <2> QED
      BY <1>c, <2>4, <2>5, <2>7, <2>8, ThreadKinds DEF Single, objectVars,
         MakePlaces, Making
  <1>3. ASSUME NEW t \in Reconnectors, Reconnects(t)
        PROVE  Single'
    <2>0. t \in Threads
      BY ThreadKinds
    <2>1. this[t] = 1 /\ UNCHANGED <<life, pool>>
      <3>1. pc[t] \in UsesThis
        BY <1>3 DEF Reconnects, Unlink, NotReady, GetService, Ready, LinkToDeath,
           AddClient, Reconnecting, UsesThis, ReconnectPlaces
      <3> QED
        BY <1>3, <1>c, <2>0, <3>1, OnlyFirst, ReconnectsFrame DEF globalVars
    <2>2. PICK place \in Unlinked \cup {"addClient", "ended"} : Goto(t, place)
      BY <1>3 DEF Reconnects, Unlink, NotReady, GetService, Ready, LinkToDeath,
         AddClient, NoService, Unlinked
    <2>3. pc'[t] = place /\ \A u \in Threads : u # t => pc'[u] = pc[u]
      BY <1>0, <2>0, <2>2, GotoEffect
    <2>4. \A r \in Reconnectors : pc'[r] \notin Making
      BY <1>c, <2>3, ThreadKinds DEF Unlinked, MakePlaces, Making
    <2>5. CASE Unlink(t) \/ GetService(t)
      <3>1. /\ \A s \in Services : links'[1][s] = 0
            /\ \A o \in Objects : o > 1 => links'[o] = links[o]
        <4>1. \A s \in Services : links[1][s] = 0
          BY <1>c, <2>5 DEF Unlink, GetService, Reconnecting, OneLink, Linking,
             Unlinked
        <4>2. CASE Unlink(t)
          <5>1. links' = [links EXCEPT ![1][pservice[1]] =
                            IF @ > 0 THEN @ - 1 ELSE 0]
            BY <2>1, <4>2 DEF Unlink
          <5> QED
            BY <1>0, <4>1, <5>1 DEF ObjectsTyped
        <4>3. CASE GetService(t)
          <5>1. links' = [links EXCEPT ![1] = [q \in Services |->
                            IF q = service THEN @[q] ELSE 0]]
            BY <2>1, <4>3 DEF GetService, ReplaceService
          <5> QED
            BY <1>0, <4>1, <5>1 DEF ObjectsTyped
        <4> QED
          BY <2>5, <4>2, <4>3
      <3>2. \A r \in Reconnectors : Linking(r)' => Linking(r)
        BY <2>3, <2>5, ThreadKinds DEF Linking, Unlink, GetService, Reconnecting,
           Unlinked
      <3>3. OneLink'
        BY <1>c, <3>1, <3>2 DEF OneLink
      <3>4. ReadyServed'
        <4>1. CASE Unlink(t)
          <5>1. pc'[t] = "notReady" /\ UNCHANGED <<pservice, is_serviceready>>
            BY <1>0, <2>0, <4>1, GotoEffect DEF Unlink
          <5> QED
            BY <1>c, <2>3, <5>1, ThreadKinds DEF ReadyServed
        <4>2. CASE GetService(t)
          <5>1. /\ pservice' = [pservice EXCEPT ![1] = service]
                /\ UNCHANGED is_serviceready /\ pc[t] = "getService"
            BY <2>1, <4>2 DEF GetService, ReplaceService, Reconnecting
          <5>2. ~is_serviceready'[1]
            BY <1>c, <5>1 DEF ReadyServed
          <5>3. pc'[t] = "ready" => pservice'[1] # NULL
            <6>1. CASE service = NULL
              <7>1. PICK p \in {"getService", "ended"} : Goto(t, p)
                BY <4>2, <6>1 DEF GetService, NoService
              <7> QED
                BY <1>0, <2>0, <7>1, GotoEffect
            <6>2. CASE service # NULL
              BY <1>0, <5>1, <6>2 DEF ObjectsTyped
            <6> QED
              BY <6>1, <6>2
          <5>4. \A r \in Reconnectors : r # t => pc[r] # "ready"
            BY <1>c, <5>1 DEF OneLink, Linking, Unlinked
          <5> QED
            BY <2>3, <5>2, <5>3, <5>4, ThreadKinds DEF ReadyServed
        <4> QED
          BY <2>5, <4>1, <4>2
      <3> QED
        BY <1>c, <2>1, <2>4, <3>3, <3>4 DEF Single
    <2>6. CASE NotReady(t) \/ Ready(t)
      <3>1. UNCHANGED <<pservice, links>> /\ pc[t] \in {"notReady", "ready"}
        BY <2>6 DEF NotReady, Ready, Reconnecting
      <3>2. \A r \in Reconnectors : Linking(r)' => Linking(r)
        BY <2>3, <3>1, ThreadKinds DEF Linking, Unlinked
      <3>3. OneLink'
        BY <1>c, <3>1, <3>2 DEF OneLink
      <3>4. ReadyServed'
        <4>1. CASE NotReady(t)
          <5>1. /\ is_serviceready' = [is_serviceready EXCEPT ![1] = FALSE]
                /\ pc'[t] = "getService"
            BY <1>0, <2>0, <2>1, <4>1, GotoEffect DEF NotReady
          <5>2. ~is_serviceready'[1]
            BY <1>0, <5>1, Zenon DEF ReadyTyped
          <5> QED
            BY <1>c, <2>3, <3>1, <5>1, <5>2, ThreadKinds DEF ReadyServed
        <4>2. CASE Ready(t)
          <5>1. pc[t] = "ready" /\ pc'[t] = "link"
            BY <1>0, <2>0, <4>2, GotoEffect DEF Ready, Reconnecting
          <5>2. pservice'[1] # NULL
            BY <1>c, <3>1, <5>1 DEF ReadyServed
          <5>3. \A r \in Reconnectors : r # t => pc[r] # "getService"
            BY <1>c, <5>1 DEF OneLink, Linking, Unlinked
          <5> QED
            BY <2>3, <5>1, <5>2, <5>3, ThreadKinds DEF ReadyServed
        <4> QED
          BY <2>6, <4>1, <4>2
      <3> QED
        BY <1>c, <2>1, <2>4, <3>3, <3>4 DEF Single
    <2>7. CASE LinkToDeath(t)
      <3>1. /\ pc[t] = "link" /\ pc'[t] = "addClient" /\ pservice[1] \in Services
            /\ links' = [links EXCEPT ![1][pservice[1]] = @ + 1]
            /\ UNCHANGED <<pservice, is_serviceready>>
        BY <1>0, <2>0, <2>1, <2>7, GotoEffect DEF LinkToDeath, Reconnecting,
           Linked, ObjectsTyped
      <3>2. \A s \in Services : links[1][s] = 0
        BY <1>c, <3>1 DEF OneLink, Linking, Unlinked
      <3>3. /\ \A s \in Services :
                  links'[1][s] = IF s = pservice[1] THEN 1 ELSE 0
            /\ \A o \in Objects : o > 1 => links'[o] = links[o]
        BY <1>0, <3>1, <3>2 DEF ObjectsTyped
      <3>4. \A r \in Reconnectors : ~Linking(r)'
        BY <1>c, <2>3, <3>1, ThreadKinds DEF OneLink, Linking, Unlinked
      <3>5. OneLink'
        BY <1>c, <3>3, <3>4 DEF OneLink
      <3>6. ReadyServed'
        BY <1>c, <2>3, <3>1, ThreadKinds DEF ReadyServed
      <3> QED
        BY <1>c, <2>1, <2>4, <3>5, <3>6 DEF Single
    <2>8. CASE AddClient(t)
      <3>1. pc'[t] = "ended" /\ UNCHANGED <<pservice, is_serviceready, links>>
        BY <1>0, <2>0, <2>8, GotoEffect DEF AddClient, objectVars
      <3>2. \A r \in Reconnectors : Linking(r)' => Linking(r)
        BY <2>3, <3>1, ThreadKinds DEF Linking, Unlinked
      <3>3. OneLink'
        BY <1>c, <3>1, <3>2 DEF OneLink
      <3>4. ReadyServed'
        BY <1>c, <2>3, <3>1, ThreadKinds DEF ReadyServed
      <3> QED
        BY <1>c, <2>1, <2>4, <3>3, <3>4 DEF Single
    <2> QED
      BY <1>3, <2>5, <2>6, <2>7, <2>8 DEF Reconnects
  <1>4. ASSUME NEW t \in {Test, Process}, Sends(t)
        PROVE  Single'
    <2>1. PICK place : Goto(t, place)
      BY <1>4 DEF Sends, SendRequest, Checks, CheckReady, Transacts, Transact
    <2>2. \A r \in Reconnectors : pc'[r] = pc[r]
      BY <1>0, <2>1, GotoEffect, ThreadKinds
    <2> QED
      BY <1>4, <1>a, <1>b, <2>2, SingleKept, SendsFrame, ThreadKinds
      DEF objectVars, globalVars
  <1>5. CASE Tests
    <2>1. PICK place : Goto(Test, place)
      BY <1>5 DEF Tests, KeepInstance, StoreCallbacks, Answered, Deregisters,
         DeregisterClient, StartTest, Faults
    <2>2. \A r \in Reconnectors : pc'[r] = pc[r]
      BY <1>0, <2>1, GotoEffect, ThreadKinds
    <2>3. UNCHANGED <<pservice, is_serviceready, pool>>
      BY <1>5, TestsFrame
    <2>4. CASE Deregisters
      <3>1. links' = [links EXCEPT ![mClientInstance] = [s \in Services |-> 0]]
        BY <2>4 DEF Deregisters, DeregisterClient, Faults
      <3>2. \A o \in Objects, s \in Services :
              links'[o][s] = links[o][s] \/ links'[o][s] = 0
        BY <1>0, <3>1 DEF ObjectsTyped
      <3>3. OneLink'
        <4>1. \A o \in Objects, s \in Services : o > 1 => links'[o][s] = 0
          BY <1>c, <3>2 DEF OneLink
        <4>2. \A s \in Services : links'[1][s] = links[1][s] \/ links'[1][s] = 0
          BY <1>0, <3>2
        <4>3. \A s \in Services : links'[1][s] <= 1
          BY <1>c, <4>2 DEF OneLink
        <4>4. \A r \in Reconnectors : Linking(r)' => Linking(r)
          BY <2>2 DEF Linking
        <4>5. \A s, q \in Services :
                links'[1][s] > 0 /\ links'[1][q] > 0 => s = q
          BY <1>c, <4>2 DEF OneLink
        <4>6. \A r \in Reconnectors, s \in Services :
                Linking(r)' => links'[1][s] = 0
          BY <1>c, <4>2, <4>4 DEF OneLink
        <4>7. \A r, u \in Reconnectors : Linking(r)' /\ Linking(u)' => r = u
          BY <1>c, <4>4 DEF OneLink
        <4> QED
          BY <4>1, <4>3, <4>5, <4>6, <4>7 DEF OneLink
      <3>4. ReadyServed'
        BY <1>c, <2>2, <2>3 DEF ReadyServed
      <3> QED
        BY <1>b, <1>c, <2>2, <2>3, <3>3, <3>4 DEF Single
    <2>5. CASE ~Deregisters
      BY <1>5, <1>a, <1>b, <2>2, <2>3, <2>5, SingleKept, TestsFrame
    <2> QED
      BY <2>4, <2>5
  <1>6. CASE Handles \/ CallHandled
    <2>1. PICK place : Goto(Process, place)
      BY <1>6 DEF Handles, HandleCall, CallHandled, Faults
    <2>2. \A r \in Reconnectors : pc'[r] = pc[r]
      BY <1>0, <2>1, GotoEffect, ThreadKinds
    <2> QED
      BY <1>6, <1>a, <1>b, <2>2, SingleKept, ProcessFrame DEF ProcessCalls,
         objectVars, globalVars
  <1>7. ASSUME NEW o \in Objects, NEW s \in Services, Dies(o, s)
        PROVE  Single'
    <2>1. PICK t \in Reconnectors : pc[t] = "idle" /\ Goto(t, "getInstance")
      BY <1>7 DEF Dies, BinderDied
    <2>2. pc'[t] = "getInstance" /\ \A u \in Threads : u # t => pc'[u] = pc[u]
      BY <1>0, <2>1, GotoEffect, ThreadKinds
    <2>3. /\ links[o][s] > 0 /\ links' = [links EXCEPT ![o][s] = @ - 1]
          /\ UNCHANGED <<life, pservice, is_serviceready, pool>>
      BY <1>7, OtherFrame DEF Dies, BinderDied, globalVars
    <2>4. o = 1
      BY <1>c, <2>3 DEF OneLink, Objects
    <2>5. /\ \A q \in Services : links'[1][q] = 0
          /\ \A p \in Objects : p > 1 => links'[p] = links[p]
      BY <1>0, <1>c, <2>3, <2>4 DEF ObjectsTyped, OneLink
    <2>6. \A r \in Reconnectors : ~Linking(r)
      BY <1>c, <2>3, <2>4 DEF OneLink
    <2>7. OneLink'
      BY <1>c, <2>2, <2>5, <2>6, ThreadKinds DEF OneLink, Linking
    <2>8. ReadyServed'
      BY <1>c, <2>2, <2>3, ThreadKinds DEF ReadyServed
    <2> QED
      BY <1>c, <2>2, <2>3, <2>7, <2>8, ThreadKinds DEF Single, MakePlaces, Making
  <1>8. CASE UNCHANGED vars \/ Calls \/ Environs
               \/ \E kind \in Kinds : Freezes(kind)
    <2>1. UNCHANGED <<pc, objectVars, pool>>
      BY <1>8, OtherFrame DEF vars, threadVars, globalVars, Calls, IncomingCall
    <2> QED
      BY <1>a, <1>b, <2>1, SingleKept DEF objectVars
  <1>9. ASSUME NEW t \in Threads, Makes(t) \/ Reconnects(t) \/ Sends(t)
        PROVE  Single'
    BY <1>1, <1>2, <1>3, <1>4, <1>9, ThreadKinds DEF Makes, Reconnects, Sends
  <1> QED
    BY <1>5, <1>6, <1>7, <1>8, <1>9, Steps DEF ProcessCalls

LEMMA OneAppClient == Spec => []Single
  <1>1. Init => Single
    <2> SUFFICES ASSUME Init PROVE Single
      OBVIOUS
    <2>1. 1 \in Objects
      BY BoundAssumption DEF Objects
    <2>2. OneLink
      BY <2>1, ThreadKinds DEF Init, OneLink, Linking, Unlinked
    <2>3. ReadyServed
      BY <2>1, ThreadKinds DEF Init, ReadyServed
    <2> QED
      BY <2>2, <2>3, ThreadKinds DEF Init, Single, MakePlaces, Making
  <1>2. Trouble /\ Single /\ [Next]_vars => Single'
    BY NextSingle DEF Trouble
  <1> QED
    BY <1>1, <1>2, Troubled, PTL DEF Spec

\* One AppClient is never ready without a service: its reconnections follow one
\* another, because the link that starts the next is made at the end of each.
THEOREM ReadyServes == Spec => []ReadyHasService
  <1>1. Single => ReadyHasService
    BY DEF Single, ReadyServed, ReadyHasService, Alone, Objects
  <1> QED
    BY <1>1, OneAppClient, PTL

-----------------------------------------------------------------------------
(* Why the AppClient is connected again: no death of its service goes       *)
(* unnoticed, which is what Reconnected says but for the passing of time.   *)

\* AppClient o has a proxy of service pservice[o] and will hear of its death,
\* and if that is the living service it is or will be known to it.
Connected(o) ==
  /\ is_serviceready[o] /\ links[o][pservice[o]] > 0
  /\ pool \/ pc[Test] = "callback"
  /\ pservice[o] = service =>
       \/ service \in clients
       \/ pc[Test] \in {"callback", "firstClient"}
       \/ \E r \in Reconnectors : pc[r] = "addClient"

\* The first AppClient is connected, or a reconnection is on its way to that.
Noticed ==
  Alone =>
    /\ life[1] = "none" => pservice[1] = NULL
    /\ \A r \in Reconnectors : pc[r] = "link" => is_serviceready[1]
    /\ life[1] = "made" /\ pservice[1] # NULL =>
         Connected(1) \/ \E r \in Reconnectors : Linking(r)

\* The AppClient of the tests, unless it gave up or was deleted, is being
\* reconnected, or is ready and known to the living service, or is linked to
\* the death of the service it had, with a thread pool to hear of it.
DeathHeard ==
  LET o == mClientInstance IN
  Alone /\ o # NULL /\ life[o] # "deleted" /\ pservice[o] # NULL =>
    \/ \E r \in Reconnectors : Linking(r) \/ pc[r] = "addClient"
    \/ /\ is_serviceready[o] /\ pool
       /\ links[o][pservice[o]] > 0
       /\ pservice[o] = service => service \in clients

\* Steps that leave the reconnections and the AppClient's service alone.
LEMMA NoticedKept ==
  ASSUME Noticed, Alone' => Alone, pool => pool', clients \subseteq clients',
         life'[1] = "none" => life[1] = "none",
         life'[1] = "made" => life[1] = "made" \/ pservice[1] = NULL,
         service' = service \/ service' # pservice[1],
         UNCHANGED <<pservice, is_serviceready, links>>,
         \A r \in Reconnectors : pc'[r] = pc[r],
         pc[Test] = "callback" => pool' \/ pc'[Test] = "callback",
         pc[Test] \in {"callback", "firstClient"} =>
           \/ pc'[Test] \in {"callback", "firstClient"}
           \/ pservice[1] = service' => service' \in clients'
  PROVE  Noticed'
  <1> SUFFICES ASSUME Alone'
               PROVE  Noticed'
    BY DEF Noticed
  <1>1. /\ life'[1] = "none" => pservice'[1] = NULL
        /\ \A r \in Reconnectors : pc'[r] = "link" => is_serviceready'[1]
    BY DEF Noticed
  <1>2. ASSUME life'[1] = "made", pservice'[1] # NULL
        PROVE  Connected(1)' \/ \E r \in Reconnectors : Linking(r)'
    <2>1. Connected(1) \/ \E r \in Reconnectors : Linking(r)
      BY <1>2 DEF Noticed
    <2>2. ASSUME NEW r \in Reconnectors, Linking(r)
          PROVE  Linking(r)'
      BY <2>2 DEF Linking
    <2>3. CASE Connected(1)
      <3>1. /\ is_serviceready'[1] /\ links'[1][pservice'[1]] > 0
            /\ pool' \/ pc'[Test] = "callback"
        BY <2>3 DEF Connected
      <3>2. pservice'[1] = service' =>
              \/ service' \in clients'
              \/ pc'[Test] \in {"callback", "firstClient"}
              \/ \E r \in Reconnectors : pc'[r] = "addClient"
        BY <2>3 DEF Connected
      <3> QED
        BY <3>1, <3>2 DEF Connected
    <2> QED
      BY <2>1, <2>2, <2>3
  <1> QED
    BY <1>1, <1>2 DEF Noticed

LEMMA NextNoticed ==
  ASSUME Typed, Starting, Single, Single', Noticed, [Next]_vars
  PROVE  Noticed'
  <1>0. /\ PlacesTyped /\ PointersTyped /\ ObjectsTyped /\ ReadyTyped
        /\ ServicesTyped /\ Owned /\ 1 \in Objects
    BY BoundAssumption DEF Typed, Objects
  <1>a. Alone' => Alone
    BY LivesOn DEF Alone
  <1>b. life'[1] = "none" => life[1] = "none"
    BY <1>0, LivesOn
  <1> SUFFICES ASSUME Alone'
               PROVE  Noticed'
    BY DEF Noticed
  <1>c. /\ Alone /\ OneLink
        /\ \A r \in Reconnectors : pc'[r] \notin Making
        /\ \A r \in Reconnectors : pc[r] \notin Making
        /\ life[1] = "none" => pservice[1] = NULL
        /\ \A r \in Reconnectors : pc[r] = "link" => is_serviceready[1]
    BY <1>a DEF Single, Noticed
  <1>1. CASE Makes(Test)
    <2>1. PICK place : Goto(Test, place)
      BY <1>1 DEF Makes, Make, GetInstance, Connect, NoService, MakeCallback,
         FirstClient, CreateProcessThread, Made, Return
    <2>2. pc'[Test] = place /\ \A r \in Reconnectors : pc'[r] = pc[r]
      BY <1>0, <2>1, GotoEffect, ThreadKinds
    <2>3. UNCHANGED service
      BY <1>1, MakesFrame, ThreadKinds
    <2>4. CASE GetInstance(Test)
      <3>1. /\ pc[Test] = "getInstance"
            /\ UNCHANGED <<pservice, is_serviceready, links, clients, pool>>
        BY <2>4 DEF GetInstance, objectVars, serviceVars, globalVars
      <3>2. life'[1] = "made" => life[1] = "made" \/ pservice[1] = NULL
        <4>1. life' = life \/ \E o \in Objects :
                life[o] = "none" /\ life' = [life EXCEPT ![o] = "made"]
          BY <2>4 DEF GetInstance, objectVars
        <4> QED
          BY <1>0, <1>c, <4>1 DEF ObjectsTyped
      <3> QED
        BY <1>a, <1>b, <2>2, <2>3, <3>1, <3>2, NoticedKept
    <2>5. CASE Connect(Test) /\ service # NULL
      <3>1. /\ pservice' = [pservice EXCEPT ![this[Test]] = service]
            /\ is_serviceready' = [is_serviceready EXCEPT ![this[Test]] = TRUE]
            /\ links' = [links EXCEPT ![this[Test]][service] = @ + 1]
            /\ UNCHANGED <<pool, life>>
            /\ pc[Test] = "connect" /\ Goto(Test, "callback")
        BY <2>5 DEF Connect, NoService, Linked, globalVars
      <3>2. /\ this[Test] = 1 /\ pc'[Test] = "callback"
            /\ life[this[Test]] # "none"
        BY <1>0, <1>c, <3>1, GotoEffect, OnlyFirst, ThreadKinds
        DEF UsesThis, MakePlaces, Owned
      <3>3. /\ \A r \in Reconnectors : pc[r] = "idle"
            /\ \A s \in Services : links[1][s] = 0
        BY <1>0, <3>1 DEF Starting
      <3>4. service \in Services
        BY <1>0, <2>5 DEF ServicesTyped
      <3>5. /\ pservice'[1] = service /\ links'[1][service] = 1
            /\ is_serviceready'[1] = TRUE
        BY <1>0, <3>1, <3>2, <3>3, <3>4 DEF ObjectsTyped, ReadyTyped
      <3>6. Connected(1)'
        BY <3>2, <3>5 DEF Connected
      <3> QED
        BY <2>2, <3>1, <3>2, <3>3, <3>6 DEF Noticed
    <2>6. CASE FirstClient(Test)
      <3>1. /\ pc[Test] = "firstClient" /\ Registers(pservice[this[Test]])
            /\ UNCHANGED <<pservice, is_serviceready, links, pool, life>>
        BY <2>6 DEF FirstClient, objectVars, globalVars
      <3>2. this[Test] = 1
        BY <1>c, <3>1, OnlyFirst, ThreadKinds DEF UsesThis, MakePlaces
      <3>3. /\ clients \subseteq clients'
            /\ pservice[1] = service => service \in clients'
        BY <3>1, <3>2 DEF Registers
      <3> QED
        BY <1>a, <1>b, <2>2, <2>3, <3>1, <3>3, NoticedKept
    <2>7. CASE MakeCallback(Test) \/ CreateProcessThread(Test) \/ Made(Test)
               \/ Return(Test) \/ (Connect(Test) /\ service = NULL)
      <3>1. /\ UNCHANGED <<pservice, is_serviceready, links, life, clients>>
            /\ pool => pool'
            /\ pc[Test] \in {"callback", "processThread", "made", "return",
                            "connect"}
            /\ pc[Test] = "callback" => pool' /\ Goto(Test, "firstClient")
        BY <2>7 DEF MakeCallback, CreateProcessThread, Made, Return, Connect,
           NoService,
           objectVars, serviceVars, globalVars
      <3>2. pc[Test] = "callback" => pc'[Test] = "firstClient"
        BY <1>0, <3>1, GotoEffect, ThreadKinds
      <3> QED
        BY <1>a, <1>b, <2>2, <2>3, <3>1, <3>2, NoticedKept
    <2> QED
      BY <1>1, <2>4, <2>5, <2>6, <2>7 DEF Makes, Make
  <1>2. ASSUME NEW t \in Reconnectors, Makes(t)
        PROVE  Noticed'
    <2>0. t \in Threads
      BY ThreadKinds
    <2>1. GetInstance(t)
      BY <1>2, <1>c DEF Makes, Make, Connect, MakeCallback, FirstClient,
         CreateProcessThread, Made, Return, MakePlaces, Making
    <2>2. /\ Goto(t, "gotInstance") /\ UNCHANGED <<objectVars>>
          \/ Goto(t, "connect")
      BY <2>1 DEF GetInstance
    <2>3. Goto(t, "gotInstance") /\ UNCHANGED objectVars
      BY <1>0, <1>c, <2>0, <2>2, GotoEffect DEF MakePlaces, Making
    <2>4. /\ pc'[t] = "gotInstance"
          /\ \A u \in Threads : u # t => pc'[u] = pc[u]
      BY <1>0, <2>0, <2>3, GotoEffect
    <2>5. Linking(t)'
      BY <2>4 DEF Linking, Unlinked
    <2> QED
      BY <1>c, <2>3, <2>4, <2>5, ThreadKinds DEF Noticed, objectVars
  <1>3. ASSUME NEW t \in Reconnectors, Reconnects(t)
        PROVE  Noticed'
    <2>0. t \in Threads
      BY ThreadKinds
    <2>1. /\ this[t] = 1 /\ life[this[t]] # "none"
          /\ UNCHANGED <<life, pool, service>>
      <3>1. pc[t] \in UsesThis
        BY <1>3 DEF Reconnects, Unlink, NotReady, GetService, Ready, LinkToDeath,
           AddClient, Reconnecting, UsesThis, ReconnectPlaces
      <3> QED
        BY <1>0, <1>3, <1>c, <2>0, <3>1, OnlyFirst, ReconnectsFrame
        DEF globalVars, Owned
    <2>2. PICK place \in Unlinked \cup {"addClient", "ended"} : Goto(t, place)
      BY <1>3 DEF Reconnects, Unlink, NotReady, GetService, Ready, LinkToDeath,
         AddClient, NoService, Unlinked
    <2>3. pc'[t] = place /\ \A u \in Threads : u # t => pc'[u] = pc[u]
      BY <1>0, <2>0, <2>2, GotoEffect
    <2>4. life'[1] # "none"
      BY <2>1
    <2>5. \A r \in Reconnectors : pc'[r] = "link" => is_serviceready'[1]
      <3>1. CASE Ready(t)
        <4>1. is_serviceready' = [is_serviceready EXCEPT ![1] = TRUE]
          BY <2>1, <3>1 DEF Ready
        <4>2. is_serviceready'[1] = TRUE
          BY <1>0, <4>1, Zenon DEF ReadyTyped
        <4> QED
          BY <4>2
      <3>2. CASE NotReady(t)
        <4>1. pc[t] = "notReady" /\ pc'[t] = "getService"
          BY <1>0, <2>0, <3>2, GotoEffect DEF NotReady, Reconnecting
        <4>2. \A r \in Reconnectors : pc[r] # "link"
          BY <1>c, <4>1 DEF OneLink, Linking, Unlinked
        <4>3. \A r \in Reconnectors : pc'[r] # "link"
          BY <2>3, <4>1, <4>2, ThreadKinds
        <4> QED
          BY <4>3
      <3>3. CASE ~(Ready(t) \/ NotReady(t))
        <4>1. UNCHANGED is_serviceready
          BY <1>3, <2>0, <3>3, ReconnectsFrame
        <4>2. pc'[t] # "link"
          <5>1. PICK p \in {"notReady", "getService", "ready", "addClient",
                            "ended"} : Goto(t, p)
            BY <1>3, <3>3 DEF Reconnects, Unlink, GetService, LinkToDeath,
               AddClient, NoService
          <5> QED
            BY <1>0, <2>0, <5>1, GotoEffect
        <4> QED
          BY <1>c, <2>3, <4>1, <4>2, ThreadKinds
      <3> QED
        BY <3>1, <3>2, <3>3
    <2>6. CASE place \in Unlinked
      <3>1. Linking(t)'
        BY <2>3, <2>6 DEF Linking
      <3> QED
        BY <2>4, <2>5, <3>1 DEF Noticed
    <2>7. CASE LinkToDeath(t)
      <3>1. /\ pc[t] = "link" /\ pc'[t] = "addClient" /\ pservice[1] \in Services
            /\ links' = [links EXCEPT ![1][pservice[1]] = @ + 1]
            /\ UNCHANGED <<pservice, is_serviceready>>
        BY <1>0, <2>0, <2>1, <2>7, GotoEffect DEF LinkToDeath, Reconnecting,
           Linked, ObjectsTyped
      <3>2. /\ links[1][pservice[1]] = 0 /\ is_serviceready[1] /\ pool
        BY <1>c, <3>1 DEF OneLink, Linking, Unlinked, Starting
      <3>3. links'[1][pservice'[1]] = 1
        BY <1>0, <3>1, <3>2 DEF ObjectsTyped
      <3>4. Connected(1)'
        BY <2>1, <3>1, <3>2, <3>3 DEF Connected
      <3> QED
        BY <2>4, <2>5, <3>4 DEF Noticed
    <2>8. CASE AddClient(t)
      <3>1. /\ pc[t] = "addClient" /\ pc'[t] = "ended"
            /\ UNCHANGED <<pservice, is_serviceready, links>>
            /\ Registers(pservice[1])
        BY <1>0, <2>0, <2>1, <2>8, GotoEffect DEF AddClient, Reconnecting,
           objectVars
      <3>2. /\ clients \subseteq clients'
            /\ pservice[1] = service => service \in clients'
        BY <3>1 DEF Registers
      <3>3. pc'[Test] = pc[Test]
        BY <2>3, ThreadKinds
      <3>4. ASSUME life'[1] = "made", pservice'[1] # NULL
            PROVE  Connected(1)' \/ \E r \in Reconnectors : Linking(r)'
        <4>1. Connected(1) \/ \E r \in Reconnectors : Linking(r)
          BY <1>c, <2>1, <3>1, <3>4 DEF Noticed
        <4>2. ASSUME NEW r \in Reconnectors, Linking(r)
              PROVE  Linking(r)'
          <5>1. r # t
            BY <3>1, <4>2 DEF Linking, Unlinked
          <5> QED
            BY <2>3, <4>2, <5>1, ThreadKinds DEF Linking
        <4>3. CASE Connected(1)
          BY <2>1, <3>1, <3>2, <3>3, <4>3 DEF Connected
        <4> QED
          BY <4>1, <4>2, <4>3
      <3> QED
        BY <2>4, <2>5, <3>4 DEF Noticed
    <2>9. CASE place = "ended" /\ ~AddClient(t)
      <3>1. GetService(t) /\ service = NULL
        <4>1. \A p : Goto(t, p) => p = "ended"
          BY <1>0, <2>0, <2>3, <2>9, GotoEffect
        <4>2. ~(Unlink(t) \/ NotReady(t) \/ Ready(t) \/ LinkToDeath(t))
          BY <4>1 DEF Unlink, NotReady, Ready, LinkToDeath
        <4>3. GetService(t)
          BY <1>3, <2>9, <4>2 DEF Reconnects
        <4>4. ~Goto(t, "ready")
          BY <4>1
        <4> QED
          BY <4>3, <4>4 DEF GetService, NoService
      <3>2. pservice'[1] = NULL
        BY <1>0, <2>1, <3>1 DEF GetService, ReplaceService, ObjectsTyped
      <3> QED
        BY <2>4, <2>5, <3>2 DEF Noticed
    <2>10. CASE place = "addClient" /\ ~LinkToDeath(t)
      <3>1. \A p : Goto(t, p) => p = "addClient"
        BY <1>0, <2>0, <2>3, <2>10, GotoEffect
      <3> QED
        BY <1>3, <2>10, <3>1 DEF Reconnects, Unlink, NotReady, GetService,
           Ready, AddClient, NoService
    <2> QED
      BY <2>6, <2>7, <2>8, <2>9, <2>10
  <1>4. ASSUME NEW t \in {Test, Process}, Sends(t)
        PROVE  Noticed'
    <2>1. PICK place : Goto(t, place)
      BY <1>4 DEF Sends, SendRequest, Checks, CheckReady, Transacts, Transact
    <2>2. \A u \in Threads : u # t => pc'[u] = pc[u]
      BY <1>0, <2>1, GotoEffect, ThreadKinds
    <2>3. pc[Test] \in {"callback", "firstClient"} => t # Test
      BY <1>4 DEF Sends, SendRequest, Checks, CheckReady, Transacts, Transact
    <2>4. UNCHANGED <<serviceVars, objectVars, globalVars>>
      BY <1>4, SendsFrame, ThreadKinds
    <2> QED
      BY <1>a, <2>2, <2>3, <2>4, NoticedKept, ThreadKinds
      DEF serviceVars, objectVars, globalVars
  <1>5. CASE Tests
    <2>1. PICK place : Goto(Test, place)
      BY <1>5 DEF Tests, KeepInstance, StoreCallbacks, Answered, Deregisters,
         DeregisterClient, StartTest, Faults
    <2>2. \A r \in Reconnectors : pc'[r] = pc[r]
      BY <1>0, <2>1, GotoEffect, ThreadKinds
    <2>3. UNCHANGED <<serviceVars, pservice, is_serviceready, pool>>
      BY <1>5, TestsFrame
    <2>4. CASE Deregisters
      <3>1. /\ life' = [life EXCEPT ![mClientInstance] = "deleted"]
            /\ mClientInstance \in Objects
        BY <1>0, <2>4 DEF Deregisters, DeregisterClient, Faults, PointersTyped
      <3>2. mClientInstance = 1
        BY <1>0, <1>c, <3>1 DEF Owned, Alone, Objects
      <3>3. life'[1] = "deleted"
        BY <1>0, <3>1, <3>2 DEF ObjectsTyped
      <3> QED
        BY <1>c, <2>2, <2>3, <3>3 DEF Noticed
    <2>5. CASE ~Deregisters
      <3>1. UNCHANGED <<life, links>>
        BY <1>5, <2>5, TestsFrame
      <3>2. pc[Test] \notin {"callback", "firstClient"}
        BY <1>5 DEF Tests, KeepInstance, StoreCallbacks, Answered, Deregisters,
           DeregisterClient, StartTest
      <3> QED
        BY <1>a, <2>2, <2>3, <3>1, <3>2, NoticedKept DEF serviceVars
    <2> QED
      BY <2>4, <2>5
  <1>6. CASE Handles \/ CallHandled
    <2>1. PICK place : Goto(Process, place)
      BY <1>6 DEF Handles, HandleCall, CallHandled, Faults
    <2>2. pc'[Test] = pc[Test] /\ \A r \in Reconnectors : pc'[r] = pc[r]
      BY <1>0, <2>1, GotoEffect, ThreadKinds
    <2>3. UNCHANGED <<serviceVars, objectVars, globalVars>>
      BY <1>6, ProcessFrame DEF ProcessCalls
    <2> QED
      BY <1>a, <2>2, <2>3, NoticedKept DEF serviceVars, objectVars, globalVars
  <1>7. ASSUME NEW o \in Objects, NEW s \in Services, Dies(o, s)
        PROVE  Noticed'
    <2>1. PICK t \in Reconnectors : pc[t] = "idle" /\ Goto(t, "getInstance")
      BY <1>7 DEF Dies, BinderDied
    <2>2. pc'[t] = "getInstance" /\ \A u \in Threads : u # t => pc'[u] = pc[u]
      BY <1>0, <2>1, GotoEffect, ThreadKinds
    <2>3. UNCHANGED <<life, pservice, is_serviceready>>
      BY <1>7, OtherFrame
    <2>4. Linking(t)'
      BY <2>2 DEF Linking, Unlinked
    <2> QED
      BY <1>c, <2>2, <2>3, <2>4, ThreadKinds DEF Noticed
  <1>8. CASE UNCHANGED vars \/ Calls \/ Environs
               \/ \E kind \in Kinds : Freezes(kind)
    <2>1. UNCHANGED <<pc, objectVars, pool, clients>>
      BY <1>8, OtherFrame DEF vars, threadVars, globalVars, Calls, IncomingCall,
         serviceVars
    <2>2. CASE ~Environs
      <3>1. UNCHANGED service
        BY <1>8, <2>2, OtherFrame DEF vars, Calls, IncomingCall, serviceVars
      <3> QED
        BY <1>a, <2>1, <3>1, NoticedKept DEF objectVars
    <2>3. CASE Environs
      <3>1. CASE pservice[1] = NULL
        BY <1>c, <2>1, <3>1 DEF Noticed, objectVars
      <3>2. CASE pservice[1] # NULL
        <4>1. service' = NULL \/ service' = born + 1
          BY <2>3 DEF Environs, ServiceStarts, ServiceDies
        <4>2. pservice[1] <= born /\ pservice[1] \in Nat /\ born \in Nat
          BY <1>0, BoundAssumption DEF ObjectsTyped, ServicesTyped, Services, NULL
        <4>3. service' # pservice[1]
          BY <3>2, <4>1, <4>2
        <4> QED
          BY <1>a, <2>1, <4>3, NoticedKept DEF objectVars
      <3> QED
        BY <3>1, <3>2
    <2> QED
      BY <2>2, <2>3
  <1>9. ASSUME NEW t \in Threads, Makes(t) \/ Reconnects(t) \/ Sends(t)
        PROVE  Noticed'
    BY <1>1, <1>2, <1>3, <1>4, <1>9, ThreadKinds DEF Makes, Reconnects, Sends
  <1> QED
    BY <1>5, <1>6, <1>7, <1>8, <1>9, Steps DEF ProcessCalls

\* Whichever step of a connection a death of the service comes between, the
\* AppClient of the tests will hear of it or is already being reconnected
\* (AppClient.cpp 40-127), as long as there is one AppClient.
THEOREM NoDeathLost == Spec => []DeathHeard
  <1>1. Init => Noticed
    <2> SUFFICES ASSUME Init PROVE Noticed
      OBVIOUS
    <2>1. 1 \in Objects
      BY BoundAssumption DEF Objects
    <2> QED
      BY <2>1, ThreadKinds DEF Init, Noticed
  <1>2. Trouble /\ Single /\ Single' /\ Noticed /\ [Next]_vars => Noticed'
    BY NextNoticed DEF Trouble
  <1>3. Spec => [](Noticed /\ Trouble)
    BY <1>1, <1>2, OneAppClient, Troubled, PTL DEF Spec
  <1>4. Noticed /\ Trouble => DeathHeard
    <2> SUFFICES ASSUME Noticed, Typed, Alone, mClientInstance # NULL,
                        life[mClientInstance] # "deleted",
                        pservice[mClientInstance] # NULL
                 PROVE  LET o == mClientInstance IN
                        \/ \E r \in Reconnectors : Linking(r)
                                                     \/ pc[r] = "addClient"
                        \/ /\ is_serviceready[o] /\ pool
                           /\ links[o][pservice[o]] > 0
                           /\ pservice[o] = service => service \in clients
      BY DEF DeathHeard, Trouble
    <2>1. mClientInstance \in Objects /\ life[mClientInstance] # "none"
      BY DEF Typed, PointersTyped, Owned
    <2>2. mClientInstance = 1 /\ life[1] = "made"
      BY <2>1 DEF Alone, Objects, Typed, ObjectsTyped
    <2>3. pc[Test] \notin MakePlaces
      <3> SUFFICES ASSUME pc[Test] \in MakePlaces
                   PROVE  FALSE
        OBVIOUS
      <3>1. this[Test] = 1
        BY OnlyFirst, ThreadKinds DEF UsesThis
      <3>2. this[Test] # mClientInstance
        BY ThreadKinds DEF Typed, Owned
      <3> QED
        BY <2>2, <3>1, <3>2
    <2> QED
      BY <2>2, <2>3 DEF Noticed, Connected, MakePlaces
  <1> QED
    BY <1>3, <1>4, PTL

-----------------------------------------------------------------------------
(* The codec: counting to the last text.  The induction over the texts of  *)
(* an answer is by the least number of texts for which a claim would fail. *)

\* What aid_ptr can hold, and what an application of an answer can have for a
\* text.
Buffers == Seq(Nat)
Aids == Texts \cup {NoText}

\* A set of numbers has a least element, so a claim that fails for some number
\* fails for a least one.
LEMMA LeastNat ==
  ASSUME NEW T, T \subseteq Nat, T # {}
  PROVE  \E x \in T : \A y \in T : x <= y
  <1> DEFINE R == OpToRel(<, Nat)
  <1>1. IsWellFoundedOn(R, Nat)
    BY NatLessThanWellFounded
  <1>2. \A y, x \in Nat : y < x => <<y, x>> \in R
    BY DEF OpToRel
  <1> HIDE DEF R
  <1>3. PICK x \in T : \A y \in T : ~(<<y, x>> \in R)
    BY <1>1, WFMin
  <1>4. \A y \in T : x <= y
    <2> SUFFICES ASSUME NEW y \in T PROVE x <= y
      OBVIOUS
    <2>1. x \in Nat /\ y \in Nat
      OBVIOUS
    <2>2. ~(y < x)
      BY <1>2, <1>3, <2>1
    <2> QED
      BY <2>1, <2>2
  <1> QED
    BY <1>4

\* Texts are rows of numbers, and no text is none of them.
LEMMA TextsTyped ==
  /\ NoText \notin Buffers
  /\ Texts \subseteq Buffers
  /\ \A n \in Nat : \A t \in [1 .. n -> Aids] : Len(t) = n /\ DOMAIN t = 1 .. n
  <1>1. NoText \notin Buffers
    <2> SUFFICES ASSUME NoText \in Seq(Nat) PROVE FALSE
      BY DEF Buffers
    <2>1. Len(NoText) = 1 /\ NoText[1] = -1
      BY DEF NoText
    <2>2. NoText[1] \in Nat
      BY <2>1, ElementOfSeq
    <2> QED
      BY <2>1, <2>2
  <1>2. \A n \in Nat : \A t \in [1 .. n -> Aids] : Len(t) = n /\ DOMAIN t = 1 .. n
    <2> SUFFICES ASSUME NEW n \in Nat, NEW t \in [1 .. n -> Aids]
                 PROVE  Len(t) = n /\ DOMAIN t = 1 .. n
      OBVIOUS
    <2>1. t \in Seq(Aids) /\ DOMAIN t = 1 .. n
      BY SeqDef
    <2>2. Len(t) \in Nat /\ DOMAIN t = 1 .. Len(t)
      BY <2>1, LenProperties
    <2> QED
      BY <2>1, <2>2
  <1> QED
    BY <1>1, <1>2, TextAssumption DEF Buffers

\* The greater of two lengths.
Greater(a, b) == IF a <= b THEN b ELSE a

\* A copied text is at the front of the buffer, which never gets shorter.
LEMMA CopiedText ==
  ASSUME NEW t \in Buffers, NEW b \in Buffers
  PROVE  /\ Copied(t, b) \in Buffers
         /\ Len(Copied(t, b)) = Greater(Len(b), Len(t))
         /\ SubSeq(Copied(t, b), 1, Len(t)) = t
  <1> DEFINE m == Len(t)
             n == Len(b)
             r == SubSeq(b, m + 1, n)
             c == t \o r
  <1>1. m \in Nat /\ n \in Nat
    BY LenProperties DEF Buffers
  <1>2. r \in Seq(Nat) /\ Len(r) = IF m + 1 <= n THEN n - (m + 1) + 1 ELSE 0
    <2>1. \A i \in m + 1 .. n : b[i] \in Nat
      BY <1>1, ElementOfSeq DEF Buffers
    <2> QED
      BY <1>1, <2>1, SubSeqProperties
  <1> HIDE DEF r
  <1>3. c \in Seq(Nat) /\ Len(c) = m + Len(r) /\ \A i \in 1 .. m : c[i] = t[i]
    <2>1. /\ c \in Seq(Nat) /\ Len(c) = Len(t) + Len(r)
          /\ \A i \in 1 .. Len(t) + Len(r) :
               c[i] = IF i <= Len(t) THEN t[i] ELSE r[i - Len(t)]
      BY <1>2, ConcatProperties DEF Buffers
    <2>2. \A i \in 1 .. m : i \in 1 .. Len(t) + Len(r) /\ i <= Len(t)
      BY <1>1, <1>2
    <2> QED
      BY <2>1, <2>2
  <1> HIDE DEF c
  <1>4. Len(c) = Greater(n, m)
    BY <1>1, <1>2, <1>3 DEF Greater
  <1>5. SubSeq(c, 1, m) = t
    <2>1. \A i \in 1 .. m : c[i] \in Nat
      BY <1>3, ElementOfSeq DEF Buffers
    <2>2. /\ SubSeq(c, 1, m) \in Seq(Nat) /\ Len(SubSeq(c, 1, m)) = m
          /\ \A i \in 1 .. m : SubSeq(c, 1, m)[i] = c[i]
      <3>1. /\ SubSeq(c, 1, m) \in Seq(Nat)
            /\ Len(SubSeq(c, 1, m)) = IF 1 <= m THEN m - 1 + 1 ELSE 0
            /\ \A i \in 1 .. m - 1 + 1 : SubSeq(c, 1, m)[i] = c[1 + i - 1]
        BY <1>1, <2>1, SubSeqProperties
      <3> QED
        BY <1>1, <3>1
    <2> QED
      BY <1>3, <2>2, SeqEqual DEF Buffers
  <1> QED
    BY <1>3, <1>4, <1>5 DEF c, r, Copied, Buffers

\* What aid_ptr holds when n of the texts have been copied, given what it holds
\* before each of them; and the function of n that AidsCopied computes.
CopyStep(f, texts, n) ==
  IF n = 0 THEN aid_ptr
  ELSE IF texts[n] = NoText THEN f[n - 1]
  ELSE Copied(texts[n], f[n - 1])

Copying(f, texts, k) == f = [n \in 0 .. k |-> CopyStep(f, texts, n)]

\* There is such a function: extend one for fewer texts by one step.
LEMMA CopyingExists ==
  ASSUME NEW texts, NEW N \in Nat
  PROVE  \E f : Copying(f, texts, N)
  <1> DEFINE Missing == {k \in Nat : ~(\E f : Copying(f, texts, k))}
  <1> SUFFICES ASSUME Missing # {} PROVE FALSE
    OBVIOUS
  <1>1. PICK k \in Missing : \A j \in Missing : k <= j
    <2>1. Missing \subseteq Nat
      OBVIOUS
    <2> HIDE DEF Missing
    <2> QED
      BY <2>1, LeastNat
  <1>2. k \in Nat /\ ~(\E f : Copying(f, texts, k))
    OBVIOUS
  <1>3. CASE k = 0
    <2> DEFINE f == [n \in 0 .. 0 |-> aid_ptr]
    <2>1. f = [n \in 0 .. 0 |-> CopyStep(f, texts, n)]
      BY DEF CopyStep
    <2> QED
      BY <1>2, <1>3, <2>1 DEF Copying
  <1>4. CASE k # 0
    <2>1. k - 1 \in Nat /\ k - 1 \notin Missing
      BY <1>1, <1>2, <1>4
    <2>2. PICK g : Copying(g, texts, k - 1)
      BY <2>1
    <2> DEFINE f == [n \in 0 .. k |-> IF n = k THEN CopyStep(g, texts, k)
                                               ELSE g[n]]
    <2>3. \A n \in 0 .. k : f[n] = CopyStep(f, texts, n)
      <3> SUFFICES ASSUME NEW n \in 0 .. k PROVE f[n] = CopyStep(f, texts, n)
        OBVIOUS
      <3>1. n # 0 => n - 1 \in 0 .. k /\ n - 1 # k /\ f[n - 1] = g[n - 1]
        BY <1>2
      <3>2. CopyStep(f, texts, n) = CopyStep(g, texts, n)
        BY <3>1 DEF CopyStep
      <3>3. n # k => n \in 0 .. k - 1 /\ g[n] = CopyStep(g, texts, n)
        <4>1. g = [i \in 0 .. k - 1 |-> CopyStep(g, texts, i)]
          BY <2>2 DEF Copying
        <4>2. n # k => n \in 0 .. k - 1
          BY <1>2
        <4>3. \A i \in 0 .. k - 1 : g[i] = CopyStep(g, texts, i)
          BY <4>1
        <4> QED
          BY <4>2, <4>3
      <3> QED
        BY <3>2, <3>3
    <2>4. f = [n \in 0 .. k |-> CopyStep(f, texts, n)]
      <3> HIDE DEF f
      <3>1. f = [n \in 0 .. k |-> f[n]]
        BY DEF f
      <3> QED
        BY <2>3, <3>1
    <2>5. Copying(f, texts, k)
      BY <2>4 DEF Copying
    <2> QED
      BY <1>2, <2>5
  <1> QED
    BY <1>3, <1>4

\* What holds of aid_ptr when n of the texts have been copied.
CopiedSoFar(b, texts, n) ==
  /\ b \in Buffers
  /\ Len(aid_ptr) <= Len(b)
  /\ \A i \in 1 .. n : texts[i] # NoText => Len(texts[i]) <= Len(b)
  /\ \/ Len(b) = Len(aid_ptr)
     \/ \E i \in 1 .. n : texts[i] # NoText /\ Len(b) = Len(texts[i])
  /\ n > 0 /\ texts[n] # NoText => SubSeq(b, 1, Len(texts[n])) = texts[n]

\* However many texts there are: aid_ptr has the length of the longest it ever
\* held, and the last text is at its front.
LEMMA AllCopied ==
  ASSUME NEW N \in Nat, NEW texts \in [1 .. N -> Aids], aid_ptr \in Buffers
  PROVE  CopiedSoFar(AidsCopied(texts), texts, N)
  <1> DEFINE f == CHOOSE g : Copying(g, texts, N)
  <1>1. Len(texts) = N
    BY TextsTyped
  <1>2. AidsCopied(texts) = f[N]
    <2>1. AidsCopied(texts)
            = (CHOOSE g : Copying(g, texts, Len(texts)))[Len(texts)]
      BY DEF AidsCopied, Copying, CopyStep
    <2> QED
      BY <1>1, <2>1
  <1>3. Copying(f, texts, N)
    BY CopyingExists
  <1> HIDE DEF f
  <1>4. \A n \in 0 .. N : f[n] = CopyStep(f, texts, n)
    <2>1. f = [n \in 0 .. N |-> CopyStep(f, texts, n)]
      BY <1>3 DEF Copying
    <2> QED
      BY <2>1
  <1> DEFINE Wrong == {n \in 0 .. N : ~CopiedSoFar(f[n], texts, n)}
  <1>5. Wrong = {}
    <2> SUFFICES ASSUME Wrong # {} PROVE FALSE
      OBVIOUS
    <2>1. PICK n \in Wrong : \A j \in Wrong : n <= j
      <3>1. Wrong \subseteq Nat
        OBVIOUS
      <3> HIDE DEF Wrong
      <3> QED
        BY <3>1, LeastNat
    <2>2. n \in 0 .. N /\ ~CopiedSoFar(f[n], texts, n)
      OBVIOUS
    <2>3. CASE n = 0
      <3>1. f[n] = aid_ptr
        BY <1>4, <2>3 DEF CopyStep
      <3>2. Len(aid_ptr) \in Nat
        BY LenProperties DEF Buffers
      <3> QED
        BY <2>2, <2>3, <3>1, <3>2 DEF CopiedSoFar
    <2>4. CASE n # 0
      <3> DEFINE b == f[n - 1]
      <3>1. n - 1 \in 0 .. N /\ n \in 1 .. N /\ n - 1 \notin Wrong
        BY <2>1, <2>2, <2>4
      <3>2. CopiedSoFar(b, texts, n - 1)
        BY <3>1
      <3>3. texts[n] \in Aids
        BY <3>1
      <3>4. CASE texts[n] = NoText
        <4>1. f[n] = b
          BY <1>4, <2>2, <2>4, <3>4 DEF CopyStep
        <4>2. \A i \in 1 .. n : texts[i] # NoText => i \in 1 .. n - 1
          BY <2>2, <3>4
        <4>3. \A i \in 1 .. n - 1 : i \in 1 .. n
          BY <2>2
        <4> HIDE DEF b
        <4> QED
          BY <2>2, <3>2, <3>4, <4>1, <4>2, <4>3 DEF CopiedSoFar
      <3>5. CASE texts[n] # NoText
        <4>1. f[n] = Copied(texts[n], b)
          BY <1>4, <2>2, <2>4, <3>5 DEF CopyStep
        <4>2. texts[n] \in Buffers /\ b \in Buffers
          BY <3>2, <3>3, <3>5, TextsTyped DEF Aids, CopiedSoFar
        <4> HIDE DEF b
        <4>3. /\ f[n] \in Buffers
              /\ Len(f[n]) = Greater(Len(b), Len(texts[n]))
              /\ SubSeq(f[n], 1, Len(texts[n])) = texts[n]
          BY <4>1, <4>2, CopiedText
        <4>4. /\ Len(b) \in Nat /\ Len(texts[n]) \in Nat /\ Len(aid_ptr) \in Nat
              /\ Len(f[n]) \in Nat
          BY <4>2, <4>3, LenProperties DEF Buffers
        <4>5. /\ Len(b) <= Len(f[n]) /\ Len(texts[n]) <= Len(f[n])
              /\ Len(f[n]) = Len(b) \/ Len(f[n]) = Len(texts[n])
          BY <4>3, <4>4 DEF Greater
        <4>6. Len(aid_ptr) <= Len(f[n])
          BY <3>2, <4>4, <4>5 DEF CopiedSoFar
        <4>7. \A i \in 1 .. n : texts[i] # NoText => Len(texts[i]) <= Len(f[n])
          <5> SUFFICES ASSUME NEW i \in 1 .. n, texts[i] # NoText
                       PROVE  Len(texts[i]) <= Len(f[n])
            OBVIOUS
          <5>1. CASE i = n
            BY <4>5, <5>1
          <5>2. CASE i # n
            <6>1. i \in 1 .. n - 1 /\ i \in 1 .. N
              BY <2>2, <5>2
            <6>2. texts[i] \in Buffers
              BY <6>1, TextsTyped DEF Aids
            <6>3. Len(texts[i]) \in Nat
              BY <6>2, LenProperties DEF Buffers
            <6> QED
              BY <3>2, <4>4, <4>5, <6>1, <6>3 DEF CopiedSoFar
          <5> QED
            BY <5>1, <5>2
        <4>8. \/ Len(f[n]) = Len(aid_ptr)
              \/ \E i \in 1 .. n : texts[i] # NoText /\ Len(f[n]) = Len(texts[i])
          <5>1. \A i \in 1 .. n - 1 : i \in 1 .. n
            BY <2>2
          <5>2. n \in 1 .. n
            BY <2>2, <2>4
          <5> QED
            BY <3>2, <3>5, <4>5, <5>1, <5>2 DEF CopiedSoFar
        <4> QED
          BY <2>2, <4>3, <4>6, <4>7, <4>8 DEF CopiedSoFar
      <3> QED
        BY <3>4, <3>5
    <2> QED
      BY <2>3, <2>4
  <1>6. N \in 0 .. N
    OBVIOUS
  <1> QED
    BY <1>2, <1>5, <1>6

\* The texts of an answer, whatever its length.
Rows == UNION {[1 .. n -> Aids] : n \in Nat}

\* aid_ptr is as long as the longest text it ever held, and the last text of
\* the answer can be read from its front.
AidInv ==
  /\ apps \in Rows /\ aid_ptr \in Buffers /\ longest = Len(aid_ptr)
  /\ apps # <<>> /\ apps[Len(apps)] # NoText =>
       SubSeq(aid_ptr, 1, Len(apps[Len(apps)])) = apps[Len(apps)]

\* The answers of CodecSpec are such rows.
LEMMA AnswersAreRows ==
  /\ Answers \subseteq Rows
  /\ \A t \in Rows : Len(t) \in Nat /\ t \in [1 .. Len(t) -> Aids]
                     /\ DOMAIN t = 1 .. Len(t)
  <1>1. Answers \subseteq Rows
    BY CallAssumption DEF Answers, Rows, Aids
  <1>2. ASSUME NEW t \in Rows
        PROVE  Len(t) \in Nat /\ t \in [1 .. Len(t) -> Aids]
               /\ DOMAIN t = 1 .. Len(t)
    <2>1. PICK n \in Nat : t \in [1 .. n -> Aids]
      BY DEF Rows
    <2>2. Len(t) = n /\ DOMAIN t = 1 .. n
      BY <2>1, TextsTyped
    <2> QED
      BY <2>1, <2>2
  <1> QED
    BY <1>1, <1>2

\* The empty answer has no last text.
LEMMA RowLast ==
  ASSUME NEW t \in Rows, t # <<>>
  PROVE  Len(t) > 0
  <1>1. Len(t) \in Nat /\ t \in [1 .. Len(t) -> Aids]
    BY AnswersAreRows
  <1>2. t \in Seq(Aids)
    BY <1>1, SeqDef
  <1> QED
    BY <1>2, EmptySeq

\* After any card status the invariant holds again.
LEMMA SimStatusInv ==
  ASSUME AidInv, SimStatus
  PROVE  AidInv'
  <1> DEFINE N == Len(apps')
             real == {apps'[i] : i \in DOMAIN apps'} \ {NoText}
             lens == {longest} \cup {Len(t) : t \in real}
             b == AidsCopied(apps')
  <1>1. /\ apps' \in Rows /\ aid_ptr' = b /\ longest' = Max(lens)
    BY AnswersAreRows DEF SimStatus
  <1>2. N \in Nat /\ apps' \in [1 .. N -> Aids] /\ DOMAIN apps' = 1 .. N
    BY <1>1, AnswersAreRows
  <1>3. CopiedSoFar(b, apps', N)
    BY <1>2, AllCopied DEF AidInv
  <1> HIDE DEF N, b
  <1>4. b \in Buffers /\ Len(b) \in Nat
    BY <1>3, LenProperties DEF CopiedSoFar, Buffers
  <1>5. Max(lens) = Len(b)
    <2>1. \A t \in real : \E i \in 1 .. N : t = apps'[i] /\ apps'[i] # NoText
      BY <1>2
    <2>2. \A i \in 1 .. N : apps'[i] # NoText => apps'[i] \in real
      BY <1>2
    <2> HIDE DEF real
    <2>3. \A t \in real : Len(t) \in Nat /\ Len(t) <= Len(b)
      <3> SUFFICES ASSUME NEW t \in real PROVE Len(t) \in Nat /\ Len(t) <= Len(b)
        OBVIOUS
      <3>1. PICK i \in 1 .. N : t = apps'[i] /\ apps'[i] # NoText
        BY <2>1
      <3>2. t \in Buffers
        BY <1>2, <3>1, TextsTyped DEF Aids
      <3> QED
        BY <1>3, <3>1, <3>2, LenProperties DEF CopiedSoFar, Buffers
    <2>4. Len(b) \in lens
      BY <1>3, <2>2 DEF AidInv, CopiedSoFar
    <2>5. \A x \in lens : x \in Nat /\ x <= Len(b)
      <3>1. longest \in Nat /\ longest <= Len(b)
        BY <1>3, LenProperties DEF AidInv, CopiedSoFar, Buffers
      <3> QED
        BY <2>3, <3>1
    <2> HIDE DEF lens
    <2>6. \A x \in lens : (\A y \in lens : x >= y) => x = Len(b)
      BY <1>4, <2>4, <2>5
    <2>7. \A y \in lens : Len(b) >= y
      BY <1>4, <2>5
    <2> QED
      BY <2>4, <2>6, <2>7 DEF Max
  <1>6. ASSUME apps' # <<>>, apps'[N] # NoText
        PROVE  SubSeq(b, 1, Len(apps'[N])) = apps'[N]
    <2>1. N > 0
      BY <1>1, <1>6, RowLast DEF N
    <2> QED
      BY <1>3, <1>6, <2>1 DEF CopiedSoFar
  <1> QED
    BY <1>1, <1>4, <1>5, <1>6 DEF AidInv, N

\* The text of the last application is read back at the front of aid_ptr, and
\* aid_ptr has kept the length of the longest text there ever was.
THEOREM LastAid == CodecSpec => []LastAidRead
  <1>1. CodecInit => AidInv
    <2>1. <<>> \in Rows /\ <<>> \in Buffers /\ Len(<<>>) = 0
      <3>1. <<>> \in [1 .. 0 -> Aids]
        OBVIOUS
      <3> QED
        BY <3>1, EmptySeq DEF Rows, Buffers
    <2> QED
      BY <2>1 DEF CodecInit, AidInv
  <1>2. AidInv /\ [Answer]_codecVars => AidInv'
    <2> SUFFICES ASSUME AidInv, [Answer]_codecVars PROVE AidInv'
      OBVIOUS
    <2>1. CASE SimStatus
      BY <2>1, SimStatusInv
    <2>2. CASE CurrentCalls \/ SmscAddress \/ UNCHANGED codecVars
      BY <2>2 DEF CurrentCalls, SmscAddress, codecVars, cardVars, AidInv
    <2> QED
      BY <2>1, <2>2 DEF Answer
  <1>3. AidInv => LastAidRead
    BY DEF AidInv, LastAidRead
  <1> QED
    BY <1>1, <1>2, <1>3, PTL DEF CodecSpec

-----------------------------------------------------------------------------
(* Lists of calls: the array holds the first, number holds the last.       *)

\* Each call of a list but the first is written behind the caller's array.
ListInv ==
  /\ \E n \in Nat : callList \in [1 .. n -> Aids]
  /\ callList # <<>> /\ callList[Len(callList)] # NoText =>
       number = callList[Len(callList)]
  /\ written = {ElementOf(i) : i \in DOMAIN callList}

\* The elements that rows of calls begin at.
LEMMA RowsApart ==
  /\ ElementOf(1) = 0
  /\ \A i \in Nat : i > 1 => ElementOf(i) \in Nat /\ ElementOf(i) >= RIL_MAX_CALLS
  <1>1. RIL_MAX_CALLS \in Nat /\ RIL_MAX_CALLS > 0
    BY CallAssumption
  <1>2. ASSUME NEW i \in Nat, i > 1
        PROVE  ElementOf(i) \in Nat /\ ElementOf(i) >= RIL_MAX_CALLS
    <2>1. (i - 2) * RIL_MAX_CALLS \in Nat
      BY <1>1, <1>2
    <2>2. (i - 1) * RIL_MAX_CALLS = (i - 2) * RIL_MAX_CALLS + RIL_MAX_CALLS
      BY <1>1, <1>2
    <2> QED
      BY <1>1, <2>1, <2>2 DEF ElementOf
  <1> QED
    BY <1>1, <1>2 DEF ElementOf

\* The calls that are taken from an answer.
LEMMA TakenCalls ==
  ASSUME NEW t \in Rows
  PROVE  SubSeq(t, 1, Min({Len(t), RIL_MAX_CALLS})) \in Rows
  <1> DEFINE k == Min({Len(t), RIL_MAX_CALLS})
             s == SubSeq(t, 1, k)
  <1>1. Len(t) \in Nat /\ t \in [1 .. Len(t) -> Aids] /\ RIL_MAX_CALLS \in Nat
    BY AnswersAreRows, CallAssumption
  <1>2. k \in Nat /\ k <= Len(t)
    <2>1. CASE Len(t) <= RIL_MAX_CALLS
      BY <1>1, <2>1 DEF Min
    <2>2. CASE ~(Len(t) <= RIL_MAX_CALLS)
      BY <1>1, <2>2 DEF Min
    <2> QED
      BY <2>1, <2>2
  <1> HIDE DEF k
  <1>3. s \in Seq(Aids)
    <2>1. \A i \in 1 .. k : t[i] \in Aids
      BY <1>1, <1>2
    <2> QED
      BY <1>2, <2>1, SubSeqProperties
  <1>4. Len(s) \in Nat /\ s \in [1 .. Len(s) -> Aids]
    BY <1>3, LenProperties
  <1> QED
    BY <1>4 DEF Rows, k

\* The last text there is, is what a list leaves in number.
LEMMA NumberOfLast ==
  ASSUME NEW t \in Rows, t # <<>>, t[Len(t)] # NoText
  PROVE  LastNumber(t) = t[Len(t)]
  <1>1. Len(t) \in Nat /\ DOMAIN t = 1 .. Len(t) /\ Len(t) > 0
    BY AnswersAreRows, RowLast
  <1>2. Len(t) \in TextsAt(t) /\ \A i \in TextsAt(t) : i \in Nat /\ i <= Len(t)
    BY <1>1 DEF TextsAt
  <1>3. Max(TextsAt(t)) = Len(t)
    <2>1. \A x \in TextsAt(t) : (\A y \in TextsAt(t) : x >= y) => x = Len(t)
      BY <1>1, <1>2
    <2>2. \A y \in TextsAt(t) : Len(t) >= y
      BY <1>1, <1>2
    <2> QED
      BY <1>2, <2>1, <2>2 DEF Max
  <1> QED
    BY <1>2, <1>3 DEF LastNumber

\* For any lengths of the array, the lists and the texts, the number of the
\* last call is its own, and only the first call gets into the caller's array.
THEOREM CallLists == CodecSpec => []CallsRead
  <1>1. CodecInit => ListInv
    <2> SUFFICES ASSUME CodecInit PROVE ListInv
      OBVIOUS
    <2>1. <<>> \in [1 .. 0 -> Aids] /\ DOMAIN <<>> = {}
      OBVIOUS
    <2>2. written = {ElementOf(i) : i \in DOMAIN callList}
      BY <2>1 DEF CodecInit
    <2> QED
      BY <2>1, <2>2 DEF CodecInit, ListInv
  <1>2. ListInv /\ [Answer]_codecVars => ListInv'
    <2> SUFFICES ASSUME ListInv, [Answer]_codecVars PROVE ListInv'
      OBVIOUS
    <2>1. CASE CurrentCalls
      <3>1. PICK a \in Answers :
              callList' = SubSeq(a, 1, Min({Len(a), RIL_MAX_CALLS}))
        BY <2>1 DEF CurrentCalls
      <3>2. callList' \in Rows
        BY <3>1, AnswersAreRows, TakenCalls
      <3>3. number' = LastNumber(callList')
            /\ written' = {ElementOf(i) : i \in DOMAIN callList'}
        BY <2>1 DEF CurrentCalls
      <3>4. callList' # <<>> /\ callList'[Len(callList')] # NoText =>
              number' = callList'[Len(callList')]
        BY <3>2, <3>3, NumberOfLast
      <3>5. \E n \in Nat : callList' \in [1 .. n -> Aids]
        BY <3>2 DEF Rows
      <3> QED
        BY <3>3, <3>4, <3>5 DEF ListInv, ElementOf
    <2>2. CASE SimStatus \/ SmscAddress \/ UNCHANGED codecVars
      BY <2>2 DEF SimStatus, SmscAddress, codecVars, listVars, ListInv, ElementOf
    <2> QED
      BY <2>1, <2>2 DEF Answer
  <1>3. ListInv => CallsRead
    <2> SUFFICES ASSUME ListInv
                 PROVE  written \cap (0 .. RIL_MAX_CALLS - 1)
                          = IF callList = <<>> THEN {} ELSE {0}
      BY DEF ListInv, CallsRead
    <2>1. callList \in Rows
      BY DEF ListInv, Rows
    <2>2. DOMAIN callList = 1 .. Len(callList) /\ Len(callList) \in Nat
      BY <2>1, AnswersAreRows
    <2>3. RIL_MAX_CALLS \in Nat /\ RIL_MAX_CALLS > 0
      BY CallAssumption
    <2>4. CASE callList = <<>>
      <3>1. DOMAIN callList = {}
        BY <2>4
      <3> QED
        BY <2>4, <3>1 DEF ListInv
    <2>5. CASE callList # <<>>
      <3>1. 1 \in DOMAIN callList
        BY <2>1, <2>2, <2>5, RowLast
      <3>2. 0 \in written
        BY <3>1, RowsApart DEF ListInv
      <3>3. \A e \in written : e # 0 => e \notin 0 .. RIL_MAX_CALLS - 1
        <4> SUFFICES ASSUME NEW i \in DOMAIN callList, ElementOf(i) # 0
                     PROVE  ElementOf(i) \notin 0 .. RIL_MAX_CALLS - 1
          BY DEF ListInv
        <4>1. i \in Nat /\ i > 1
          BY <2>2, RowsApart
        <4> QED
          BY <2>3, <4>1, RowsApart
      <3> QED
        BY <2>3, <2>5, <3>2, <3>3
    <2> QED
      BY <2>4, <2>5
  <1> QED
    BY <1>1, <1>2, <1>3, PTL DEF CodecSpec

(* Service centre numbers.                                                 *)

\* The semi-octets of a PDU, the filler among them.
Semis == 0 .. Filler

\* Rows of semi-octets of even length, which smsc_to_pdu swaps by pairs.
EvenRows == {s \in Seq(Semis) : Len(s) % 2 = 0}

\* Swapping keeps the length and is its own inverse.
LEMMA SwappedTwice ==
  ASSUME NEW s \in EvenRows
  PROVE  /\ Swapped(s) \in EvenRows /\ Len(Swapped(s)) = Len(s)
         /\ Swapped(Swapped(s)) = s
  <1> DEFINE n == Len(s)
             Other(i) == IF i % 2 = 1 THEN i + 1 ELSE i - 1
             t == Swapped(s)
             u == Swapped(t)
  <1>1. n \in Nat /\ n % 2 = 0 /\ DOMAIN s = 1 .. n /\ s \in Seq(Semis)
        /\ s \in [1 .. n -> Semis]
    BY LenProperties DEF EvenRows
  <1>2. \A i \in 1 .. n : Other(i) \in 1 .. n /\ Other(Other(i)) = i
    BY <1>1
  <1>3. t = [i \in 1 .. n |-> s[Other(i)]]
    BY <1>1 DEF Swapped
  <1> HIDE DEF Other, t, n
  <1>4. t \in [1 .. n -> Semis] /\ DOMAIN t = 1 .. n
    BY <1>1, <1>2, <1>3
  <1>5. t \in Seq(Semis)
    BY <1>1, <1>4, SeqDef
  <1>6. Len(t) = n
    <2>1. Len(t) \in Nat /\ DOMAIN t = 1 .. Len(t)
      BY <1>5, LenProperties
    <2> QED
      BY <1>1, <1>4, <2>1
  <1>7. u = [i \in 1 .. n |-> t[Other(i)]]
    BY <1>4 DEF Swapped, Other
  <1>8. \A i \in 1 .. n : u[i] = s[i]
    <2> SUFFICES ASSUME NEW i \in 1 .. n PROVE u[i] = s[i]
      OBVIOUS
    <2>1. u[i] = t[Other(i)]
      BY <1>7
    <2>2. t[Other(i)] = s[Other(Other(i))]
      BY <1>2, <1>3
    <2> QED
      BY <1>2, <2>1, <2>2
  <1>9. u = s
    <2>1. u = [i \in 1 .. n |-> u[i]]
      BY <1>7
    <2>2. s = [i \in 1 .. n |-> s[i]]
      BY <1>1
    <2> HIDE DEF u
    <2> QED
      BY <1>8, <2>1, <2>2
  <1> QED
    BY <1>1, <1>5, <1>6, <1>9 DEF EvenRows, t, n

\* What is added to make a number even.
LEMMA Parity ==
  ASSUME NEW n \in Nat
  PROVE  /\ n % 2 = 0 => n + (n % 2) = n
         /\ n % 2 # 0 => n % 2 = 1 /\ n + (n % 2) = n + 1 /\ (n + 1) % 2 = 0
         /\ n + (n % 2) = 14 <=> n = 13 \/ n = 14
  <1>1. n % 2 \in {0, 1}
    OBVIOUS
  <1>2. n % 2 = 0 => n + (n % 2) = n
    OBVIOUS
  <1>3. n % 2 = 1 => (n + 1) % 2 = 0
    OBVIOUS
  <1>4. n % 2 = 1 => n + (n % 2) = n + 1
    OBVIOUS
  <1>5. n % 2 = 0 => n # 13
    OBVIOUS
  <1>6. n % 2 = 1 => n # 14
    OBVIOUS
  <1>7. 13 % 2 = 1 /\ 14 % 2 = 0
    OBVIOUS
  <1>8. n + (n % 2) = 14 <=> n = 13 \/ n = 14
    BY <1>1, <1>5, <1>6, <1>7
  <1> QED
    BY <1>1, <1>2, <1>3, <1>4, <1>8

\* The digits behind the first character, made even in number.
LEMMA PaddedDigits ==
  ASSUME NEW digits \in Seq(0 .. Plus)
  PROVE  /\ Padded(digits) \in EvenRows
         /\ Len(digits) \in Nat /\ Len(Padded(digits)) \in Nat
         /\ Len(Padded(digits)) = Len(digits) + (Len(digits) % 2)
         /\ \A i \in 1 .. Len(digits) :
              Padded(digits)[i] = digits[i] /\ digits[i] # Filler
         /\ Len(digits) % 2 = 1 => Padded(digits)[Len(digits) + 1] = Filler
  <1>1. digits \in Seq(Semis) /\ Filler \in Semis
    <2>1. 0 .. Plus \subseteq Semis /\ Filler \in Semis
      BY DEF Plus, Semis, Filler
    <2>2. digits \in Seq(Semis)
      BY <2>1, SeqMonotonic
    <2> QED
      BY <2>1, <2>2
  <1>2. Len(digits) \in Nat /\ \A i \in 1 .. Len(digits) : digits[i] # Filler
    <2>1. Len(digits) \in Nat
      BY LenProperties
    <2>2. \A i \in 1 .. Len(digits) : digits[i] \in 0 .. Plus
      BY ElementOfSeq
    <2> QED
      BY <2>1, <2>2 DEF Plus, Filler
  <1>3. CASE Len(digits) % 2 = 0
    <2>1. Padded(digits) = digits /\ digits \in EvenRows
      BY <1>1, <1>3 DEF Padded, EvenRows
    <2>2. Len(digits) = Len(digits) + (Len(digits) % 2)
      BY <1>2, <1>3, Parity
    <2> QED
      BY <1>2, <1>3, <2>1, <2>2
  <1>4. CASE Len(digits) % 2 # 0
    <2> DEFINE p == Append(digits, Filler)
    <2>1. Padded(digits) = p
      BY <1>4 DEF Padded
    <2>2. /\ p \in Seq(Semis) /\ Len(p) = Len(digits) + 1
          /\ \A i \in 1 .. Len(digits) : p[i] = digits[i]
          /\ p[Len(digits) + 1] = Filler
      BY <1>1, AppendProperties
    <2> HIDE DEF p
    <2>3. /\ Len(digits) % 2 = 1 /\ (Len(digits) + 1) % 2 = 0
          /\ Len(digits) + 1 \in Nat
      BY <1>2, <1>4, Parity
    <2>4. p \in EvenRows
      BY <2>2, <2>3 DEF EvenRows
    <2>5. Len(Padded(digits)) = Len(digits) + (Len(digits) % 2)
      BY <1>2, <1>4, <2>1, <2>2, Parity
    <2> QED
      BY <1>2, <2>1, <2>2, <2>3, <2>4, <2>5
  <1> QED
    BY <1>3, <1>4

\* What a reader makes of the PDU of a number: the digits behind the first
\* character, if they fill the seven octets that the constant length promises.
LEMMA DigitsRead ==
  ASSUME NEW text \in Seq(0 .. Plus), text # <<>>
  PROVE  PduDigits(smsc_to_pdu(text))
           = IF Len(text) \in {14, 15} THEN Tail(text) ELSE NoText
  <1> DEFINE d == Tail(text)
             n == Len(d)
             p == Padded(d)
             s == Swapped(p)
             u == smsc_to_pdu(text)
             v == SubSeq(u, 5, Len(u))
  <1>1. d \in Seq(0 .. Plus) /\ n = Len(text) - 1 /\ Len(text) \in Nat
    BY HeadTailProperties, LenProperties
  <1>2. /\ p \in EvenRows /\ n \in Nat /\ Len(p) = n + (n % 2)
        /\ \A i \in 1 .. n : p[i] = d[i] /\ d[i] # Filler
        /\ n % 2 = 1 => p[n + 1] = Filler
    BY <1>1, PaddedDigits
  <1> HIDE DEF d, p, n
  <1>3. s \in EvenRows /\ Len(s) = Len(p) /\ Swapped(s) = p
    BY <1>2, SwappedTwice
  <1>4. u = <<0, 8, 9, 1>> \o s
    BY DEF smsc_to_pdu, p, d
  <1> HIDE DEF s, u
  <1>5. /\ Len(u) = 4 + Len(s) /\ u[1] = 0 /\ u[2] = 8
        /\ \A i \in 1 .. Len(s) : u[4 + i] = s[i]
    <2> DEFINE h == <<0, 8, 9, 1>>
    <2>1. h \in Seq(Semis) /\ Len(h) = 4 /\ h[1] = 0 /\ h[2] = 8
      BY DEF Semis, Filler
    <2>2. s \in Seq(Semis) /\ Len(s) \in Nat
      BY <1>3, LenProperties DEF EvenRows
    <2> HIDE DEF h
    <2>3. /\ Len(u) = 4 + Len(s)
          /\ \A i \in 1 .. 4 + Len(s) : u[i] = IF i <= 4 THEN h[i] ELSE s[i - 4]
      <3>1. u = h \o s
        BY <1>4 DEF h
      <3>2. /\ Len(h \o s) = Len(h) + Len(s)
            /\ \A i \in 1 .. Len(h) + Len(s) :
                 (h \o s)[i] = IF i <= Len(h) THEN h[i] ELSE s[i - Len(h)]
        BY <2>1, <2>2, ConcatProperties
      <3> QED
        BY <2>1, <3>1, <3>2
    <2>4. u[1] = 0 /\ u[2] = 8
      BY <2>1, <2>2, <2>3
    <2>5. ASSUME NEW i \in 1 .. Len(s) PROVE u[4 + i] = s[i]
      <3>1. 4 + i \in 1 .. 4 + Len(s) /\ ~(4 + i <= 4) /\ (4 + i) - 4 = i
        BY <2>2
      <3> QED
        BY <2>3, <3>1
    <2> QED
      BY <2>3, <2>4, <2>5
  <1>6. v = s
    <2>1. s \in Seq(Semis) /\ Len(s) \in Nat
      BY <1>3, LenProperties DEF EvenRows
    <2>2. \A i \in 5 .. Len(u) : u[i] \in Semis
      <3> SUFFICES ASSUME NEW i \in 5 .. Len(u) PROVE u[i] \in Semis
        OBVIOUS
      <3>1. i - 4 \in 1 .. Len(s) /\ 4 + (i - 4) = i
        BY <1>5, <2>1
      <3>2. u[i] = s[i - 4]
        BY <1>5, <3>1
      <3> QED
        BY <2>1, <3>1, <3>2, ElementOfSeq
    <2>3. /\ v \in Seq(Semis) /\ Len(v) = Len(s)
          /\ \A i \in 1 .. Len(s) : v[i] = s[i]
      <3>1. Len(u) \in Int /\ Len(u) = 4 + Len(s)
        BY <1>5, <2>1
      <3>2. /\ v \in Seq(Semis)
            /\ Len(v) = IF 5 <= Len(u) THEN Len(u) - 5 + 1 ELSE 0
            /\ \A i \in 1 .. Len(u) - 5 + 1 : v[i] = u[5 + i - 1]
        BY <2>2, <3>1, SubSeqProperties
      <3> HIDE DEF v
      <3>3. \A i \in 1 .. Len(s) : v[i] = s[i]
        <4> SUFFICES ASSUME NEW i \in 1 .. Len(s) PROVE v[i] = s[i]
          OBVIOUS
        <4>1. i \in 1 .. Len(u) - 5 + 1 /\ 5 + i - 1 = 4 + i
          BY <2>1, <3>1
        <4> QED
          BY <1>5, <3>2, <4>1
      <3> QED
        BY <2>1, <3>1, <3>2, <3>3
    <2> HIDE DEF v
    <2> QED
      BY <2>1, <2>3, SeqEqual
  <1>7. PduDigits(u) = IF Len(p) # 14 THEN NoText
                       ELSE IF p[14] = Filler THEN SubSeq(p, 1, 13) ELSE p
    <2>1. Swapped(SubSeq(u, 5, Len(u))) = p
      BY <1>3, <1>6
    <2>2. 2 * (16 * u[1] + u[2] - 1) = 14 /\ 14 - 1 = 13
      BY <1>5
    <2> QED
      BY <2>1, <2>2 DEF PduDigits
  <1>8. Len(p) = 14 <=> Len(text) \in {14, 15}
    <2>1. n + (n % 2) = 14 <=> n = 13 \/ n = 14
      BY <1>2, Parity
    <2> QED
      BY <1>1, <1>2, <2>1
  <1>9. ASSUME n = 13 PROVE p[14] = Filler /\ SubSeq(p, 1, 13) = d
    <2>1. p[14] = Filler
      BY <1>2, <1>9
    <2>2. \A i \in 1 .. 13 : p[i] = d[i] /\ d[i] \in 0 .. Plus
      BY <1>1, <1>2, <1>9, ElementOfSeq DEF n
    <2>3. /\ SubSeq(p, 1, 13) \in Seq(0 .. Plus) /\ Len(SubSeq(p, 1, 13)) = 13
          /\ \A i \in 1 .. 13 : SubSeq(p, 1, 13)[i] = p[i]
      <3>1. \A i \in 1 .. 13 : p[i] \in 0 .. Plus
        BY <2>2
      <3>2. /\ SubSeq(p, 1, 13) \in Seq(0 .. Plus)
            /\ Len(SubSeq(p, 1, 13)) = IF 1 <= 13 THEN 13 - 1 + 1 ELSE 0
            /\ \A i \in 1 .. 13 - 1 + 1 : SubSeq(p, 1, 13)[i] = p[1 + i - 1]
        BY <3>1, SubSeqProperties
      <3> QED
        BY <3>2
    <2>4. d \in Seq(0 .. Plus) /\ Len(d) = 13
      BY <1>1, <1>9 DEF n
    <2>5. \A i \in 1 .. 13 : SubSeq(p, 1, 13)[i] = d[i]
      BY <2>2, <2>3
    <2>6. SubSeq(p, 1, 13) = d
      <3> DEFINE q == SubSeq(p, 1, 13)
      <3>1. q \in Seq(0 .. Plus) /\ Len(q) = Len(d)
            /\ \A i \in 1 .. Len(q) : q[i] = d[i]
        BY <2>3, <2>4, <2>5
      <3> HIDE DEF q
      <3>2. q = d
        BY <2>4, <3>1, SeqEqual
      <3> QED
        BY <3>2 DEF q
    <2> QED
      BY <2>1, <2>6
  <1>10. ASSUME n = 14 PROVE p[14] # Filler /\ p = d
    <2>1. p[14] # Filler
      BY <1>2, <1>10
    <2>2. p = d
      BY <1>2, <1>10 DEF p, Padded, n
    <2> QED
      BY <2>1, <2>2
  <1>11. Len(text) \in {14, 15} <=> n = 13 \/ n = 14
    BY <1>1
  <1> QED
    BY <1>7, <1>8, <1>9, <1>10, <1>11 DEF u, d

\* The same for the whole number: its first character is dropped unread.
LEMMA NumberRead ==
  ASSUME NEW text \in Seq(0 .. Plus) \ {<<>>}
  PROVE  PduDigits(smsc_to_pdu(text)) = Number(text)
           <=> text[1] = Plus /\ Len(text) \in {14, 15}
  <1>1. /\ Tail(text) \in Seq(0 .. Plus) /\ Len(Tail(text)) = Len(text) - 1
        /\ Len(text) \in Nat
    BY HeadTailProperties, LenProperties
  <1>2. Tail(text) # text
    <2> SUFFICES ASSUME Tail(text) = text PROVE FALSE
      OBVIOUS
    <2>1. Len(text) = Len(text) - 1
      BY <1>1, Zenon
    <2> QED
      BY <1>1, <2>1
  <1>3. NoText \notin Seq(0 .. Plus)
    <2> SUFFICES ASSUME NoText \in Seq(0 .. Plus) PROVE FALSE
      OBVIOUS
    <2>1. NoText \in Seq(Nat)
      BY SeqMonotonic DEF Plus
    <2> QED
      BY <2>1, TextsTyped DEF Buffers
  <1>4. PduDigits(smsc_to_pdu(text))
          = IF Len(text) \in {14, 15} THEN Tail(text) ELSE NoText
    BY DigitsRead
  <1>5. Number(text) = (IF text[1] = Plus THEN Tail(text) ELSE text)
    BY DEF Number
  <1>6. Tail(text) # NoText /\ text # NoText
    BY <1>1, <1>3
  <1> QED
    BY <1>2, <1>4, <1>5, <1>6, Zenon

\* For service centre numbers of any length the PDU carries the number exactly
\* if that is international and of 13 or 14 digits.
THEOREM ServiceCentres == CodecSpec => []SmscDecodes
  <1> DEFINE SmscInv == smsc # <<>> => smsc \in SMSCs /\ pdu = smsc_to_pdu(smsc)
  <1>1. CodecInit => SmscInv
    BY DEF CodecInit
  <1>2. SmscInv /\ [Answer]_codecVars => SmscInv'
    <2>1. ASSUME SmscAddress PROVE SmscInv'
      BY <2>1 DEF SmscAddress
    <2>2. ASSUME SmscInv, SimStatus \/ CurrentCalls \/ UNCHANGED codecVars
          PROVE  SmscInv'
      BY <2>2 DEF SimStatus, CurrentCalls, codecVars, smscVars
    <2> QED
      BY <2>1, <2>2 DEF Answer
  <1>3. SmscInv => SmscDecodes
    BY SmscAssumption, NumberRead DEF SmscDecodes
  <1> HIDE DEF SmscInv
  <1> QED
    BY <1>1, <1>2, <1>3, PTL DEF CodecSpec
=============================================================================
