------------------------------ MODULE TelClient ------------------------------
(***************************************************************************)
(* The telephony client: AppClient of src/tel_test/AppClient.cpp, the      *)
(* functions of src/tel_test/ls_telephony_util.cpp above it and the tests  *)
(* of src/tel_test/zib_dial_test.cpp.                                      *)
(*                                                                         *)
(* A test registers, which makes the AppClient, sends its requests and     *)
(* either listens for ever (zb_dial_test1) or deletes the AppClient again  *)
(* (zib_dial_test).  The phone service may die and be started again: each  *)
(* death that AppClient is linked to makes a binder thread start a thread  *)
(* in reconnectPhoneService.  The service calls back over the binder; the  *)
(* callback goes through ProcessThread's queue to onNewCall, which sends a *)
(* request of its own.  Nothing is locked.                                 *)
(*                                                                         *)
(* An incarnation of the service is a number.  Dereferencing a null or a   *)
(* deleted pointer is a fault, after which no behaviour is defined and the *)
(* model stops.  An assignment to an sp<> is one step.  Left out: failing  *)
(* calls of pthread_create, and the two notifications that only print.     *)
(***************************************************************************)
EXTENDS Integers

CONSTANTS MAX_RETRY,        \* the 10 in both connection loops
          MaxServices,      \* bound: incarnations of the service
          MaxObjects,       \* bound: AppClients that are made
          MaxReconnects,    \* bound: reconnection threads
          MaxCalls,         \* bound: incoming calls
          MaxTests,         \* bound: tests
          MaxEvents         \* bound: incarnations, calls and tests together

ASSUME BoundAssumption ==
  /\ MAX_RETRY \in Nat /\ MaxServices \in Nat
  /\ MaxObjects \in Nat \ {0} /\ MaxReconnects \in Nat
  /\ MaxCalls \in Nat /\ MaxTests \in Nat /\ MaxEvents \in Nat

NULL == 0
Services      == 1 .. MaxServices
Objects       == 1 .. MaxObjects
Reconnectors  == 1 .. MaxReconnects
\* The test thread, ProcessThread, and the threads of binderDied.
Test          == -1
Process       == 0
Threads       == {Test, Process} \cup Reconnectors
\* Threads that may run the constructor.
Makers        == {Test} \cup Reconnectors

VARIABLES
  service, born,            \* the living incarnation, and how many there were
  clients,                  \* incarnations that know the callback
  orphaned,                 \* history: was a death reported with no mInstance?
  calls, messages,          \* incoming calls so far, those queued
  life,                     \* of an AppClient: "none", "made", "deleted"
  pservice, is_serviceready,\* members of each AppClient
  links,                    \* how often an AppClient is linked to a death
  mInstance,                \* AppClient::mInstance
  mClientInstance,          \* of ls_telephony_util.cpp
  s_registerClient,
  s_ClientCallbacks,        \* have the callbacks been stored?
  p_thread, pool,           \* do ProcessThread and the thread pool exist?
  pc, this, retry_count,    \* of each thread
  mode, request,            \* the test and the request it is making
  tests, result,            \* tests so far, and what zib_dial_test returned
  dialled,                  \* has the service taken this test's DIAL?
  fault                     \* what has been dereferenced

serviceVars == <<service, born, clients, orphaned>>
callVars    == <<calls, messages>>
objectVars  == <<life, pservice, is_serviceready, links>>
globalVars  == <<mInstance, mClientInstance, s_registerClient,
                 s_ClientCallbacks, p_thread, pool>>
testVars    == <<mode, request, tests, result, dialled>>
threadVars  == <<pc, this, retry_count>>
vars == <<serviceVars, callVars, objectVars, globalVars, testVars, threadVars,
          fault>>

Init ==
  /\ service \in {NULL, 1} \cap (Services \cup {NULL}) /\ born = service
  /\ clients = {} /\ orphaned = FALSE
  /\ calls = 0 /\ messages = 0
  /\ life = [o \in Objects |-> "none"]
  /\ pservice = [o \in Objects |-> NULL]
  /\ is_serviceready = [o \in Objects |-> FALSE]
  /\ links = [o \in Objects |-> [s \in Services |-> 0]]
  /\ mInstance = NULL /\ mClientInstance = NULL
  /\ s_registerClient = FALSE /\ s_ClientCallbacks = FALSE
  /\ p_thread = FALSE /\ pool = FALSE
  /\ pc = [t \in Threads |-> "idle"]
  /\ this = [t \in Threads |-> NULL]
  /\ retry_count = [t \in Threads |-> 0]
  /\ mode = "none" /\ request = "none"
  /\ tests = 0 /\ result = "none" /\ dialled = FALSE
  /\ fault = "none"

Goto(t, place) == pc' = [pc EXCEPT ![t] = place]

\* The thread's step reads a pointer that leads nowhere.
Faults(kind) ==
  /\ fault' = kind
  /\ UNCHANGED <<serviceVars, callVars, objectVars, globalVars, testVars,
                 threadVars>>

Deleted(t) == life[this[t]] = "deleted"

-----------------------------------------------------------------------------
(* The phone service and the binder.                                       *)

\* The environment may still do something.
EventLeft == born + calls + tests < MaxEvents

ServiceStarts ==
  /\ service = NULL /\ born < MaxServices /\ EventLeft
  /\ born' = born + 1 /\ service' = born'
  /\ UNCHANGED <<clients, orphaned, callVars, objectVars, globalVars, testVars,
                 threadVars, fault>>

ServiceDies ==
  /\ service # NULL
  /\ service' = NULL
  /\ UNCHANGED <<born, clients, orphaned, callVars, objectVars, globalVars,
                 testVars, threadVars, fault>>

\* The service announces an incoming call: onTransact.
IncomingCall ==
  /\ service \in clients /\ pool
  /\ calls < MaxCalls /\ EventLeft
  /\ IF p_thread
       THEN /\ calls' = calls + 1 /\ messages' = messages + 1
            /\ UNCHANGED <<serviceVars, objectVars, globalVars, testVars,
                           threadVars, fault>>
       ELSE Faults("p_thread")

\* The death of s, to which o is linked, reaches o's PhoneServiceDeathRecipient:
\* binderDied.  It is remembered that one came before mInstance was set.
BinderDied(o, s) ==
  /\ pool /\ s # service /\ links[o][s] > 0
  /\ links' = [links EXCEPT ![o][s] = @ - 1]
  /\ \E t \in Reconnectors :
       /\ pc[t] = "idle"
       /\ \A u \in Reconnectors : u < t => pc[u] # "idle"
       /\ Goto(t, "getInstance")
  /\ orphaned' = (orphaned \/ mInstance = NULL)
  /\ UNCHANGED <<service, born, clients, callVars, life, pservice,
                 is_serviceready, globalVars, testVars, this, retry_count,
                 fault>>

-----------------------------------------------------------------------------
(* AppClient::getInstance and the constructor.                             *)

\* Changed code: getInstance does not look for an instance.
GetInstanceNew(t) ==
  /\ pc[t] = "getInstance"
  /\ \E o \in Objects :
       /\ life[o] = "none" /\ \A other \in 1 .. o - 1 : life[other] # "none"
       /\ life' = [life EXCEPT ![o] = "made"]
       /\ this' = [this EXCEPT ![t] = o]
  /\ retry_count' = [retry_count EXCEPT ![t] = 0]
  /\ Goto(t, "connect")
  /\ UNCHANGED <<serviceVars, callVars, pservice, is_serviceready, links,
                 globalVars, testVars, fault>>

\* Nothing resets mInstance, so a thread that found it set may as well look when
\* it returns it.
GetInstance(t) ==
  /\ pc[t] = "getInstance"
  /\ \/ /\ mInstance # NULL
        /\ this' = [this EXCEPT ![t] = mInstance]
        /\ Goto(t, "gotInstance")
        /\ UNCHANGED <<objectVars, retry_count>>
     \/ /\ mInstance = NULL
        /\ \E o \in Objects :
             /\ life[o] = "none" /\ \A other \in 1 .. o - 1 : life[other] # "none"
             /\ life' = [life EXCEPT ![o] = "made"]
             /\ this' = [this EXCEPT ![t] = o]
        /\ retry_count' = [retry_count EXCEPT ![t] = 0]
        /\ Goto(t, "connect")
        /\ UNCHANGED <<pservice, is_serviceready, links>>
  /\ UNCHANGED <<serviceVars, callVars, globalVars, testVars, fault>>

\* Changed code: the tries are counted but not limited.
NoServiceForever(t, again, giveUp) ==
  /\ service = NULL
  /\ retry_count' = [retry_count EXCEPT ![t] = @ + 1]
  /\ Goto(t, again)

\* getService finds no service: one try less.  The count is forgotten with the
\* loop, here and when a service is found.
NoService(t, again, giveUp) ==
  /\ service = NULL
  /\ \/ /\ retry_count[t] < MAX_RETRY
        /\ retry_count' = [retry_count EXCEPT ![t] = @ + 1] /\ Goto(t, again)
     \/ /\ retry_count[t] >= MAX_RETRY
        /\ retry_count' = [retry_count EXCEPT ![t] = 0] /\ Goto(t, giveUp)

\* A new proxy replaces the old one, and with it its links.
ReplaceService(o, s) ==
  /\ pservice' = [pservice EXCEPT ![o] = s]
  /\ links' = [links EXCEPT ![o] = [q \in Services |-> IF q = s THEN @[q] ELSE 0]]

Linked(o, s) == [links EXCEPT ![o][s] = @ + 1]

\* Nobody else knows the object yet.
Connect(t) ==
  /\ pc[t] = "connect"
  /\ \/ /\ NoService(t, "connect", "made")
        /\ UNCHANGED objectVars
     \/ /\ service # NULL
        /\ pservice' = [pservice EXCEPT ![this[t]] = service]
        /\ is_serviceready' = [is_serviceready EXCEPT ![this[t]] = TRUE]
        /\ links' = Linked(this[t], service)
        /\ retry_count' = [retry_count EXCEPT ![t] = 0]
        /\ Goto(t, "callback")
        /\ UNCHANGED life
  /\ UNCHANGED <<serviceVars, callVars, globalVars, testVars, this, fault>>

\* new ClientCallback starts the thread pool.
MakeCallback(t) ==
  /\ pc[t] = "callback"
  /\ pool' = TRUE
  /\ Goto(t, "firstClient")
  /\ UNCHANGED <<serviceVars, callVars, objectVars, mInstance, mClientInstance,
                 s_registerClient, s_ClientCallbacks, p_thread, testVars, this,
                 retry_count, fault>>

\* A living service gets to know the callback.
Registers(s) == clients' = IF s = service THEN clients \cup {s} ELSE clients

\* Changed code: ProcessThread is not started.
FirstClientNoThread(t) ==
  /\ pc[t] = "firstClient"
  /\ Registers(pservice[this[t]])
  /\ Goto(t, "made")
  /\ UNCHANGED <<service, born, orphaned, callVars, objectVars, globalVars,
                 testVars, this, retry_count, fault>>

FirstClient(t) ==
  /\ pc[t] = "firstClient"
  /\ Registers(pservice[this[t]])
  /\ Goto(t, "processThread")
  /\ UNCHANGED <<service, born, orphaned, callVars, objectVars, globalVars,
                 testVars, this, retry_count, fault>>

CreateProcessThread(t) ==
  /\ pc[t] = "processThread"
  /\ p_thread' = TRUE
  /\ Goto(t, "made")
  /\ UNCHANGED <<serviceVars, callVars, objectVars, mInstance, mClientInstance,
                 s_registerClient, s_ClientCallbacks, pool, testVars, this,
                 retry_count, fault>>

\* mInstance = new AppClient().
Made(t) ==
  /\ pc[t] = "made"
  /\ mInstance' = this[t]
  /\ Goto(t, "return")
  /\ UNCHANGED <<serviceVars, callVars, objectVars, mClientInstance,
                 s_registerClient, s_ClientCallbacks, p_thread, pool, testVars,
                 this, retry_count, fault>>

\* return mInstance: another thread may have put its own AppClient there.
Return(t) ==
  /\ pc[t] = "return"
  /\ this' = [this EXCEPT ![t] = mInstance]
  /\ Goto(t, "gotInstance")
  /\ UNCHANGED <<serviceVars, callVars, objectVars, globalVars, testVars,
                 retry_count, fault>>

Make(t) == \/ GetInstance(t) \/ Connect(t) \/ MakeCallback(t)
           \/ FirstClient(t) \/ CreateProcessThread(t) \/ Made(t) \/ Return(t)

-----------------------------------------------------------------------------
(* reconnectPhoneService, on a thread of its own.                          *)

\* A step of t in reconnectPhoneService; it reads pservice if "derefs".
Reconnecting(t, place, derefs) ==
  /\ t \in Reconnectors
  /\ pc[t] = place
  /\ ~Deleted(t)
  /\ derefs => pservice[this[t]] # NULL

ReconnectFaults(t) ==
  /\ t \in Reconnectors
  /\ \/ /\ pc[t] \in {"gotInstance", "notReady", "getService", "ready", "link",
                      "addClient"}
        /\ Deleted(t) /\ Faults("deleted")
     \/ /\ pc[t] \in {"gotInstance", "link", "addClient"}
        /\ ~Deleted(t) /\ pservice[this[t]] = NULL /\ Faults("pservice")

Unlink(t) ==
  /\ Reconnecting(t, "gotInstance", TRUE)
  /\ LET o == this[t]
     IN  links' = [links EXCEPT ![o][pservice[o]] = IF @ > 0 THEN @ - 1 ELSE 0]
  /\ Goto(t, "notReady")
  /\ UNCHANGED <<serviceVars, callVars, life, pservice, is_serviceready,
                 globalVars, testVars, this, retry_count, fault>>

\* Changed code: the flag stays set during the reconnection.
NotReadyKept(t) ==
  /\ Reconnecting(t, "notReady", FALSE)
  /\ retry_count' = [retry_count EXCEPT ![t] = 0]
  /\ Goto(t, "getService")
  /\ UNCHANGED <<serviceVars, callVars, objectVars, globalVars, testVars, this,
                 fault>>

NotReady(t) ==
  /\ Reconnecting(t, "notReady", FALSE)
  /\ is_serviceready' = [is_serviceready EXCEPT ![this[t]] = FALSE]
  /\ retry_count' = [retry_count EXCEPT ![t] = 0]
  /\ Goto(t, "getService")
  /\ UNCHANGED <<serviceVars, callVars, life, pservice, links, globalVars,
                 testVars, this, fault>>

GetService(t) ==
  /\ Reconnecting(t, "getService", FALSE)
  /\ ReplaceService(this[t], service)
  /\ \/ NoService(t, "getService", "ended")
     \/ /\ service # NULL
        /\ retry_count' = [retry_count EXCEPT ![t] = 0] /\ Goto(t, "ready")
  /\ UNCHANGED <<serviceVars, callVars, life, is_serviceready, globalVars,
                 testVars, this, fault>>

Ready(t) ==
  /\ Reconnecting(t, "ready", FALSE)
  /\ is_serviceready' = [is_serviceready EXCEPT ![this[t]] = TRUE]
  /\ Goto(t, "link")
  /\ UNCHANGED <<serviceVars, callVars, life, pservice, links, globalVars,
                 testVars, this, retry_count, fault>>

\* Changed code: only the first connection is linked to the service's death.
LinkToDeathForgotten(t) ==
  /\ Reconnecting(t, "link", TRUE)
  /\ Goto(t, "addClient")
  /\ UNCHANGED <<serviceVars, callVars, objectVars, globalVars, testVars, this,
                 retry_count, fault>>

LinkToDeath(t) ==
  /\ Reconnecting(t, "link", TRUE)
  /\ links' = Linked(this[t], pservice[this[t]])
  /\ Goto(t, "addClient")
  /\ UNCHANGED <<serviceVars, callVars, life, pservice, is_serviceready,
                 globalVars, testVars, this, retry_count, fault>>

AddClient(t) ==
  /\ Reconnecting(t, "addClient", TRUE)
  /\ Registers(pservice[this[t]])
  /\ Goto(t, "ended")
  /\ UNCHANGED <<service, born, orphaned, callVars, objectVars, globalVars,
                 testVars, this, retry_count, fault>>

Reconnect(t) == \/ Unlink(t) \/ NotReady(t) \/ GetService(t) \/ Ready(t)
                \/ LinkToDeath(t) \/ AddClient(t) \/ ReconnectFaults(t)

-----------------------------------------------------------------------------
(* sendRequest and sendTransact, of the test and of ProcessThread.         *)

\* Without an AppClient nothing is sent, and that is no error.  A request too
\* large to send is refused with -1, which none of those modelled is: they
\* carry nothing, or a telephone number and two integers.
SendRequest(t) ==
  /\ pc[t] = "send"
  /\ this' = [this EXCEPT ![t] = mClientInstance]
  /\ Goto(t, IF mClientInstance = NULL THEN "answered" ELSE "check")
  /\ UNCHANGED <<serviceVars, callVars, objectVars, globalVars, testVars,
                 retry_count, fault>>

\* Changed code: the flag is not looked at.
CheckReadyAlways(t) ==
  /\ pc[t] = "check"
  /\ ~Deleted(t)
  /\ Goto(t, "transact")
  /\ UNCHANGED <<serviceVars, callVars, objectVars, globalVars, testVars, this,
                 retry_count, fault>>

CheckReady(t) ==
  /\ pc[t] = "check"
  /\ \/ /\ Deleted(t) /\ Faults("deleted")
     \/ /\ ~Deleted(t)
        /\ Goto(t, IF is_serviceready[this[t]] THEN "transact" ELSE "answered")
        /\ UNCHANGED <<serviceVars, callVars, objectVars, globalVars, testVars,
                       this, retry_count, fault>>

\* The transaction fails, unnoticed, when that incarnation is dead.
Transact(t) ==
  /\ pc[t] = "transact"
  /\ \/ /\ Deleted(t) /\ Faults("deleted")
     \/ /\ ~Deleted(t) /\ pservice[this[t]] = NULL /\ Faults("pservice")
     \/ /\ ~Deleted(t) /\ pservice[this[t]] # NULL
        /\ dialled' = (dialled \/ (t = Test /\ request = "dial"
                                     /\ pservice[this[t]] = service))
        /\ Goto(t, "answered")
        /\ UNCHANGED <<serviceVars, callVars, objectVars, globalVars, mode,
                       request, tests, result, this, retry_count, fault>>

Send(t) == SendRequest(t) \/ CheckReady(t) \/ Transact(t)

-----------------------------------------------------------------------------
(* ProcessThread: handleEvent, onNewCall, ls_api_acceptCall.               *)

HandleCall ==
  /\ p_thread /\ messages > 0 /\ pc[Process] = "idle"
  /\ \/ /\ ~s_ClientCallbacks /\ Faults("callback")
     \/ /\ s_ClientCallbacks
        /\ messages' = messages - 1
        /\ Goto(Process, "send")
        /\ UNCHANGED <<serviceVars, calls, objectVars, globalVars, testVars,
                       this, retry_count, fault>>

CallHandled ==
  /\ pc[Process] = "answered"
  /\ Goto(Process, "idle")
  /\ UNCHANGED <<serviceVars, callVars, objectVars, globalVars, testVars, this,
                 retry_count, fault>>

ProcessStep == HandleCall \/ Send(Process) \/ CallHandled

-----------------------------------------------------------------------------
(* The tests.                                                              *)

\* zb_dial_test1 ("listen") or zib_dial_test ("dial"): register_Client.
StartTest ==
  /\ pc[Test] = "idle" /\ tests < MaxTests /\ EventLeft
  /\ tests' = tests + 1
  /\ mode' \in {"listen", "dial"}
  /\ dialled' = FALSE /\ result' = "none"
  /\ Goto(Test, "getInstance")
  /\ UNCHANGED <<serviceVars, callVars, objectVars, globalVars, request, this,
                 retry_count, fault>>

KeepInstance ==
  /\ pc[Test] = "gotInstance"
  /\ mClientInstance' = this[Test]
  /\ Goto(Test, "register")
  /\ UNCHANGED <<serviceVars, callVars, objectVars, mInstance, s_registerClient,
                 s_ClientCallbacks, p_thread, pool, testVars, this, retry_count,
                 fault>>

\* register_ClientCallback keeps the first callbacks it is given.
StoreCallbacks ==
  /\ pc[Test] = "register"
  /\ s_registerClient' = TRUE
  /\ s_ClientCallbacks' = TRUE
  /\ request' = "imsi"
  /\ Goto(Test, "send")
  /\ UNCHANGED <<serviceVars, callVars, objectVars, mInstance, mClientInstance,
                 p_thread, pool, mode, tests, result, dialled, this,
                 retry_count, fault>>

\* A request always succeeds.  One test sleeps for ever after its requests.
Answered ==
  /\ pc[Test] = "answered"
  /\ \/ /\ request = "imsi"
        /\ request' = "simStatus" /\ Goto(Test, "send")
        /\ UNCHANGED result
     \/ /\ request = "simStatus" /\ mode = "dial"
        /\ request' = "dial" /\ Goto(Test, "send")
        /\ UNCHANGED result
     \/ /\ request = "simStatus" /\ mode = "listen"
        /\ Goto(Test, "sleep")
        /\ UNCHANGED <<request, result>>
     \/ /\ request = "dial"
        /\ result' = "0" /\ Goto(Test, "deregister")
        /\ UNCHANGED request
  /\ UNCHANGED <<serviceVars, callVars, objectVars, globalVars, mode, tests,
                 dialled, this, retry_count, fault>>

\* deRegister_Client: both pointers to the AppClient stay as they are.
DeregisterClient ==
  /\ pc[Test] = "deregister"
  /\ \/ /\ life[mClientInstance] = "deleted" /\ Faults("deleted")
     \/ /\ life[mClientInstance] # "deleted"
        /\ life' = [life EXCEPT ![mClientInstance] = "deleted"]
        /\ links' = [links EXCEPT ![mClientInstance] = [s \in Services |-> 0]]
        /\ s_registerClient' = FALSE
        /\ Goto(Test, "idle")
        /\ UNCHANGED <<serviceVars, callVars, pservice, is_serviceready,
                       mInstance, mClientInstance, s_ClientCallbacks, p_thread,
                       pool, testVars, this, retry_count, fault>>

TestStep == \/ KeepInstance \/ StoreCallbacks \/ Send(Test) \/ Answered
            \/ DeregisterClient

-----------------------------------------------------------------------------

ThreadStep(t) ==
  /\ fault = "none"
  /\ \/ t \in Makers /\ Make(t)
     \/ Reconnect(t)
     \/ t = Test /\ TestStep
     \/ t = Process /\ ProcessStep

Binder ==
  /\ fault = "none"
  /\ \E o \in Objects, s \in Services : BinderDied(o, s)

Environment ==
  /\ fault = "none"
  /\ StartTest \/ ServiceStarts \/ ServiceDies \/ IncomingCall

Next == (\E t \in Threads : ThreadStep(t)) \/ Binder \/ Environment

Spec == Init /\ [][Next]_vars

\* The threads run and a death that is linked to is reported.  The service need
\* not start, die or call.
FairSpec == /\ Spec
            /\ \A t \in Threads : WF_vars(ThreadStep(t))
            /\ WF_vars(Binder)

-----------------------------------------------------------------------------
(* Properties.                                                             *)

\* The variables keep their types; a fault is one of the four kinds.
TypeOK ==
  /\ service \in Services \cup {NULL} /\ born \in 0 .. MaxServices
  /\ clients \subseteq Services /\ orphaned \in BOOLEAN
  /\ calls \in 0 .. MaxCalls /\ messages \in 0 .. calls
  /\ life \in [Objects -> {"none", "made", "deleted"}]
  /\ pservice \in [Objects -> Services \cup {NULL}]
  /\ is_serviceready \in [Objects -> BOOLEAN]
  /\ links \in [Objects -> [Services -> Nat]]
  /\ {mInstance, mClientInstance} \subseteq Objects \cup {NULL}
  /\ {s_registerClient, s_ClientCallbacks, p_thread, pool} \subseteq BOOLEAN
  /\ this \in [Threads -> Objects \cup {NULL}]
  /\ retry_count \in [Threads -> 0 .. MAX_RETRY]
  /\ mode \in {"none", "listen", "dial"}
  /\ request \in {"none", "imsi", "simStatus", "dial"}
  /\ tests \in 0 .. MaxTests /\ result \in {"none", "0"} /\ dialled \in BOOLEAN
  /\ fault \in {"none", "p_thread", "callback", "pservice", "deleted"}

Deaths == IF service = NULL THEN born ELSE born - 1

\* Where the faults come from.  A null pservice needs a service that died; a
\* deleted AppClient is used only by a later test, by a call that is being
\* answered or by a reconnection.  Undisturbed, one test is free of both.
FaultNeedsCause ==
  /\ fault = "pservice" => Deaths > 0
  /\ fault = "deleted" => tests > 1 \/ calls > 0 \/ Deaths > 0

\* Once a test has registered its callbacks the service may call back whenever
\* it likes, in this test or a later one: before, onTransact may find no
\* ProcessThread and handleEvent no callbacks (AppClient.cpp 75-77, 20-34).
CallbacksSafe == s_ClientCallbacks => fault \notin {"p_thread", "callback"}

\* A second AppClient is made only if the first one, which was linked to the
\* service and had started the thread pool, heard of the service's death before
\* getInstance had put it into mInstance (AppClient.cpp 40-79).  Neither a death
\* that is heard of later nor another test makes one.
SecondNeedsDeath ==
  (\E o \in Objects : o > 1 /\ life[o] # "none") => orphaned

Alone == \A o \in Objects : o > 1 => life[o] = "none"

\* An AppClient that is ready has a service to send to: reconnectPhoneService
\* clears the flag before it replaces the pointer, and the link that can start
\* a second reconnection is made after the flag is set.  A second AppClient
\* breaks this: a death it is linked to starts a reconnection of the AppClient
\* mInstance names, which another one may be reconnecting.
ReadyHasService ==
  Alone => \A o \in Objects :
    life[o] = "made" /\ is_serviceready[o] => pservice[o] # NULL

\* As long as there is one AppClient, it is connected in the end to the service
\* that lives, unless it gave up, was deleted or faulted: no death of the
\* service, between whichever steps of a connection it comes, goes unnoticed.
\* With a second one, a death the first is linked to may start a reconnection
\* of the second, and the first, which the tests keep, stays as it is.
Reconnected ==
  []<>( \/ fault # "none" \/ service = NULL
        \/ ~Alone
        \/ mClientInstance = NULL
        \/ life[mClientInstance] = "deleted"
        \/ pservice[mClientInstance] = NULL
        \/ /\ is_serviceready[mClientInstance]
           /\ pservice[mClientInstance] = service
           /\ service \in clients )

\* What ls_api_dial logs when it returns 0, "send RIL_REQUEST_DIAL Succ!".
DialSent == result = "0" => dialled
=============================================================================
