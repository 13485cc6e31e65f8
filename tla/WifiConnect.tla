---------------------------- MODULE WifiConnect ----------------------------
(***************************************************************************)
(* The connecting half of the WiFi factory test, src/ls_wifi_test.c.       *)
(*                                                                         *)
(* After a passed scan the test thread adds a network to wpa_supplicant    *)
(* (wifiAddNetwork) and joins it (wifi_Connect_Network): it waits on       *)
(* sCondDhcp under sMutxDhcp for the event loop (wifiEventLoop) to report  *)
(* the outcome in sConnectStatus, and then asks for a lease.  The event    *)
(* loop writes sConnectStatus without the mutex, asks for a lease itself   *)
(* when a connection appears that nobody is waiting for, and takes the     *)
(* mutex only to signal.  Two of the returns of wifi_Connect_Network       *)
(* leave the mutex locked.                                                 *)
(*                                                                         *)
(* The module starts where WifiScan's test thread enters "connect".  A     *)
(* process joins a network once: a second test never gets that far         *)
(* (WifiScan's RetestBlocked).                                             *)
(***************************************************************************)
EXTENDS Integers, FiniteSets

CONSTANTS NetIds,           \* network ids wpa_supplicant hands out
          DHCP_RETRY,       \* retryNum in wifi_Connect_Network
          MaxEvents         \* bound: events the event loop receives

ASSUME NetAssumption == NetIds \subseteq Nat /\ 0 \in NetIds

ASSUME BoundAssumption == DHCP_RETRY \in Nat \ {0} /\ MaxEvents \in Nat

\* The values of sConnectStatus; 0 also is DISABLED_UNKNOWN_REASON.
UNKNOWN_REASON == 0
DHCP_FAILURE == 2
AUTH_FAILURE == 3
ASSOCIATION_REJECT == 4
CONNECTED == 5
CONNECTING == 6

\* The events that matter here, and the status each reports.
Outcomes == {CONNECTED, AUTH_FAILURE, ASSOCIATION_REJECT}

VARIABLES
  cpc,              \* where the test thread is
  netId,            \* netId of wifiAddNetwork, then what it returned
  nets,             \* the networks wpa_supplicant has
  added,            \* the network ADD_NETWORK created, or -1
  retryNum,         \* retryNum in wifi_Connect_Network
  lease,            \* outcome of the test thread's last wifi_Dhcp
  ret,              \* what wifi_Connect_Network returned
  sConnectStatus,
  sMutxDhcp,        \* who holds the mutex: "free", "conn" or "loop"
  epc,              \* where the event loop is
  evt,              \* the outcome it is reporting
  events, connects  \* events received, CONNECTED events received

connVars == <<cpc, netId, nets, added, retryNum, lease, ret>>
loopVars == <<epc, evt, events, connects>>
vars == <<connVars, sConnectStatus, sMutxDhcp, loopVars>>

\* The networks saved by earlier runs (SAVE_CONFIG) are there from the start,
\* and the event loop may have seen connections to them already.
Init ==
  /\ cpc = "add" /\ netId = -1 /\ nets \in SUBSET NetIds /\ added = -1
  /\ retryNum = DHCP_RETRY /\ lease = "none" /\ ret = UNKNOWN_REASON
  /\ sConnectStatus = 0
  /\ sMutxDhcp = "free"
  /\ epc \in {"event", "ended"} /\ evt = CONNECTED
  /\ events = 0 /\ connects = 0

-----------------------------------------------------------------------------
(* wifiAddNetwork.                                                         *)

\* ADD_NETWORK creates a network.
AddNetwork ==
  /\ cpc = "add"
  /\ \E id \in NetIds \ nets : /\ netId' = id
                               /\ added' = id
                               /\ nets' = nets \cup {id}
  /\ cpc' = "ssid"
  /\ UNCHANGED <<retryNum, lease, ret, sConnectStatus, sMutxDhcp, loopVars>>

\* A reply that is no number ("FAIL") has a length, and atoi reads 0 from it:
\* the code goes on as if network 0 had been created.
AddRefused ==
  /\ cpc = "add"
  /\ netId' = 0
  /\ cpc' = "ssid"
  /\ UNCHANGED <<nets, added, retryNum, lease, ret, sConnectStatus,
                 sMutxDhcp, loopVars>>

\* Mutant of AddFails: the length is not looked at, and what the reply buffer
\* happened to hold is taken for the id.
AddFailsUnchecked ==
  /\ cpc = "add"
  /\ netId' \in NetIds
  /\ cpc' = "ssid"
  /\ UNCHANGED <<nets, added, retryNum, lease, ret, sConnectStatus,
                 sMutxDhcp, loopVars>>

\* wifi_command fails every time: wifiAddNetwork returns -1, and
\* eng_wifi_start hands that to wifi_Connect_Network unseen.
AddFails ==
  /\ cpc = "add"
  /\ netId' = -1
  /\ cpc' = "connect"
  /\ UNCHANGED <<nets, added, retryNum, lease, ret, sConnectStatus,
                 sMutxDhcp, loopVars>>

\* The commands that follow, the place after each, and the value returned
\* when it fails.
Configure == {[at |-> "ssid", next |-> "psk", fail |-> -2],
              [at |-> "psk", next |-> "enable", fail |-> -3],
              [at |-> "enable", next |-> "save", fail |-> -4],
              [at |-> "save", next |-> "connect", fail |-> -5]}

\* SET_NETWORK ssid, SET_NETWORK psk, ENABLE_NETWORK and SAVE_CONFIG: OK only
\* for a network that exists; any of them may fail.
ConfigureNetwork ==
  /\ \E c \in Configure :
       /\ cpc = c.at
       /\ \/ /\ netId \in nets
             /\ cpc' = c.next
             /\ UNCHANGED netId
          \/ /\ cpc' = "connect"
             /\ netId' = c.fail
  /\ UNCHANGED <<nets, added, retryNum, lease, ret, sConnectStatus, sMutxDhcp,
                 loopVars>>

-----------------------------------------------------------------------------
(* wifi_Connect_Network.                                                   *)

\* The function is entered.
ConnectNetwork ==
  /\ cpc = "connect"
  /\ sConnectStatus' = CONNECTING
  /\ cpc' = "select"
  /\ UNCHANGED <<netId, nets, added, retryNum, lease, ret, sMutxDhcp,
                 loopVars>>

\* SELECT_NETWORK succeeds, for a network that exists.
SelectNetwork ==
  /\ cpc = "select"
  /\ netId \in nets
  /\ cpc' = "reconnect"
  /\ UNCHANGED <<netId, nets, added, retryNum, lease, ret, sConnectStatus,
                 sMutxDhcp, loopVars>>

\* RECONNECT succeeds.
Reconnect ==
  /\ cpc = "reconnect"
  /\ cpc' = "lock"
  /\ UNCHANGED <<netId, nets, added, retryNum, lease, ret, sConnectStatus,
                 sMutxDhcp, loopVars>>

\* wifi_Connect_Network returns v.
Return(v) == ret' = v /\ cpc' = "done"

\* Either command fails: the early returns -1 and -2.
CommandFails ==
  /\ \/ cpc = "select" /\ Return(-1)
     \/ cpc = "reconnect" /\ Return(-2)
  /\ UNCHANGED <<netId, nets, added, retryNum, lease, sConnectStatus,
                 sMutxDhcp, loopVars>>

\* The mutex is taken and given up again by the wait.
WaitOutcome ==
  /\ cpc = "lock"
  /\ sMutxDhcp = "free"
  /\ cpc' = "wait"
  /\ UNCHANGED <<netId, nets, added, retryNum, lease, ret, sConnectStatus,
                 sMutxDhcp, loopVars>>

\* The wait ends without a signal: the 10 seconds are over, or it is woken
\* spuriously.
WaitEnds ==
  /\ cpc = "wait"
  /\ cpc' \in {"timeout", "woken"}
  /\ UNCHANGED <<netId, nets, added, retryNum, lease, ret, sConnectStatus,
                 sMutxDhcp, loopVars>>

\* A wait that timed out takes the mutex again and returns with it locked.
TimedOut ==
  /\ cpc = "timeout"
  /\ sMutxDhcp = "free"
  /\ sMutxDhcp' = "conn"
  /\ Return(UNKNOWN_REASON)
  /\ UNCHANGED <<netId, nets, added, retryNum, lease, sConnectStatus,
                 loopVars>>

\* A wait that was woken takes the mutex again and looks at sConnectStatus,
\* which the event loop writes without the mutex.
Woken ==
  /\ cpc = "woken"
  /\ sMutxDhcp = "free"
  /\ sMutxDhcp' = "conn"
  /\ cpc' = IF sConnectStatus = CONNECTED THEN "unlock" ELSE "refused"
  /\ UNCHANGED <<netId, nets, added, retryNum, lease, ret, sConnectStatus,
                 loopVars>>

\* Not connected: sConnectStatus is read a second time and returned, the
\* mutex still locked.
Refused ==
  /\ cpc = "refused"
  /\ Return(sConnectStatus)
  /\ UNCHANGED <<netId, nets, added, retryNum, lease, sConnectStatus,
                 sMutxDhcp, loopVars>>

\* Mutant of Unlock: the mutex stays locked here too.
UnlockForgotten ==
  /\ cpc = "unlock"
  /\ cpc' = "retry"
  /\ UNCHANGED <<netId, nets, added, retryNum, lease, ret, sConnectStatus,
                 sMutxDhcp, loopVars>>

\* Connected: the mutex is released and the lease asked for.
Unlock ==
  /\ cpc = "unlock"
  /\ sMutxDhcp' = "free"
  /\ cpc' = "retry"
  /\ UNCHANGED <<netId, nets, added, retryNum, lease, ret, sConnectStatus,
                 loopVars>>

\* while( retryNum-- ): a test that fails decrements too.
TryDhcp ==
  /\ cpc = "retry"
  /\ retryNum' = retryNum - 1
  /\ cpc' = IF retryNum = 0 THEN "report" ELSE "dhcp"
  /\ UNCHANGED <<netId, nets, added, lease, ret, sConnectStatus, sMutxDhcp,
                 loopVars>>

\* wifi_Dhcp returns; a lease breaks the loop.
DhcpReturns ==
  /\ cpc = "dhcp"
  /\ \/ lease' = "granted" /\ cpc' = "report"
     \/ lease' = "denied" /\ cpc' = "retry"
  /\ UNCHANGED <<netId, nets, added, retryNum, ret, sConnectStatus, sMutxDhcp,
                 loopVars>>

\* Mutant of ReportLease: a retry counts as a failure.
ReportRetryAsFailure ==
  /\ cpc = "report"
  /\ Return(IF retryNum < DHCP_RETRY - 1 THEN DHCP_FAILURE ELSE CONNECTED)
  /\ UNCHANGED <<netId, nets, added, retryNum, lease, sConnectStatus,
                 sMutxDhcp, loopVars>>

\* The verdict on the lease goes by retryNum, not by the outcome.
ReportLease ==
  /\ cpc = "report"
  /\ Return(IF retryNum = 0 THEN DHCP_FAILURE ELSE CONNECTED)
  /\ UNCHANGED <<netId, nets, added, retryNum, lease, sConnectStatus,
                 sMutxDhcp, loopVars>>

-----------------------------------------------------------------------------
(* wifiEventLoop.                                                          *)

\* Mutant of ReceiveEvent: the status is stored first and tested afterwards.
ReceiveStoresFirst ==
  /\ epc = "event"
  /\ events < MaxEvents
  /\ events' = events + 1
  /\ evt' \in Outcomes
  /\ connects' = IF evt' = CONNECTED THEN connects + 1 ELSE connects
  /\ sConnectStatus' = evt'
  /\ epc' = IF evt' = CONNECTED THEN "dhcp" ELSE "status"
  /\ UNCHANGED <<connVars, sMutxDhcp>>

\* An event arrives; a connection nobody waits for is given a lease here.
\* Saved networks may connect, fail or be rejected at any time.
ReceiveEvent ==
  /\ epc = "event"
  /\ events < MaxEvents
  /\ events' = events + 1
  /\ evt' \in Outcomes
  /\ connects' = IF evt' = CONNECTED THEN connects + 1 ELSE connects
  /\ epc' = IF evt' = CONNECTED /\ sConnectStatus # CONNECTING
            THEN "dhcp" ELSE "status"
  /\ UNCHANGED <<connVars, sConnectStatus, sMutxDhcp>>

\* The event loop's own wifi_Dhcp returns; its result is not looked at.
LoopDhcpReturns ==
  /\ epc = "dhcp"
  /\ epc' = "status"
  /\ UNCHANGED <<connVars, sConnectStatus, sMutxDhcp, evt, events, connects>>

\* The outcome is stored, before and without the mutex.
StoreStatus ==
  /\ epc = "status"
  /\ sConnectStatus' = evt
  /\ epc' = "lock"
  /\ UNCHANGED <<connVars, sMutxDhcp, evt, events, connects>>

\* The mutex is taken, and a waiting test thread signalled; the signal is
\* lost if it does not wait yet or any more.
Signal ==
  /\ epc = "lock"
  /\ sMutxDhcp = "free"
  /\ sMutxDhcp' = "loop"
  /\ cpc' = IF cpc = "wait" THEN "woken" ELSE cpc
  /\ epc' = "unlock"
  /\ UNCHANGED <<netId, nets, added, retryNum, lease, ret, sConnectStatus,
                 evt, events, connects>>

\* Mutant of LoopUnlock: the event loop keeps the mutex.
LoopUnlockForgotten ==
  /\ epc = "unlock"
  /\ epc' = "event"
  /\ UNCHANGED <<connVars, sConnectStatus, sMutxDhcp, evt, events, connects>>

\* The mutex is released and the next event waited for.
LoopUnlock ==
  /\ epc = "unlock"
  /\ sMutxDhcp' = "free"
  /\ epc' = "event"
  /\ UNCHANGED <<connVars, sConnectStatus, evt, events, connects>>

\* A TERMINATING event ends the event loop.
Terminating ==
  /\ epc = "event"
  /\ epc' = "ended"
  /\ UNCHANGED <<connVars, sConnectStatus, sMutxDhcp, evt, events, connects>>

-----------------------------------------------------------------------------
ConnStep == \/ AddNetwork \/ AddRefused \/ AddFails \/ ConfigureNetwork
            \/ ConnectNetwork \/ SelectNetwork \/ Reconnect \/ CommandFails
            \/ WaitOutcome \/ WaitEnds \/ TimedOut \/ Woken \/ Refused
            \/ Unlock \/ TryDhcp \/ DhcpReturns \/ ReportLease

LoopStep == LoopDhcpReturns \/ StoreStatus \/ Signal \/ LoopUnlock

Next == ConnStep \/ LoopStep \/ ReceiveEvent \/ Terminating

Spec == Init /\ [][Next]_vars

\* Both threads run, waits time out and external calls return.  Events are not
\* fair, and nothing is assumed of who gets a mutex both contend for.
Fairness == WF_vars(LoopStep) /\ WF_vars(ConnStep)

FairSpec == Spec /\ Fairness

-----------------------------------------------------------------------------
(* What makes the component correct, and how far it is.                    *)

\* Every variable has its type; in particular retryNum only ever reaches -1.
TypeOK ==
  /\ cpc \in {"add", "ssid", "psk", "enable", "save", "connect", "select",
              "reconnect", "lock", "wait", "timeout", "woken", "refused",
              "unlock", "retry", "dhcp", "report", "done"}
  /\ netId \in NetIds \cup -5 .. -1
  /\ nets \subseteq NetIds
  /\ added \in NetIds \cup {-1}
  /\ retryNum \in -1 .. DHCP_RETRY
  /\ lease \in {"none", "granted", "denied"}
  /\ ret \in {-2, -1, UNKNOWN_REASON, DHCP_FAILURE, AUTH_FAILURE,
              ASSOCIATION_REJECT, CONNECTED, CONNECTING}
  /\ sConnectStatus \in Outcomes \cup {0, CONNECTING}
  /\ sMutxDhcp \in {"free", "conn", "loop"}
  /\ epc \in {"event", "dhcp", "status", "lock", "unlock", "ended"}
  /\ evt \in Outcomes
  /\ events \in 0 .. MaxEvents /\ connects \in 0 .. events

\* sMutxDhcp is locked for good: wifi_Connect_Network returned without
\* unlocking it.
Leaked == cpc = "done" /\ sMutxDhcp = "conn"

\* Which returns leak the mutex: exactly those after the wait that never
\* went on to ask for a lease.  Failing commands and every return of the
\* lease loop leave it free.
LeakExact ==
  cpc = "done" =>
    (Leaked <=> /\ ret \notin {-1, -2}
                /\ lease = "none")

\* No lease is asked for, and CONNECTED is not returned, unless the event
\* loop has handled a CONNECTED event.
ConnectedHasEvent ==
  cpc \in {"retry", "dhcp", "report"} \/ (cpc = "done" /\ ret = CONNECTED)
    => connects > 0

\* The verdict on the lease is off by one: DHCP_FAILURE says that the last
\* attempt succeeded, and CONNECTED without a lease that every one failed.
LeaseVerdict ==
  cpc = "done" =>
    /\ ret = DHCP_FAILURE => lease = "granted"
    /\ ret = CONNECTED /\ lease = "denied" => retryNum = -1
    /\ retryNum > 0 /\ lease # "none" => ret = CONNECTED /\ lease = "granted"

\* Both threads are inside wifi_Dhcp on wlan0 at once only if a second
\* connection was reported while the test thread was waiting or joining: one
\* CONNECTED event never leads to two requests under way.
DhcpExclusive ==
  cpc = "dhcp" /\ epc = "dhcp" => connects >= 2

\* The network that is joined is the one this run added, except that a
\* refused ADD_NETWORK may make it take a network 0 saved by an earlier run.
JoinsOwnNetwork ==
  cpc \in {"reconnect", "lock", "wait", "timeout", "woken", "refused",
           "unlock", "retry", "dhcp", "report"} =>
    netId \in nets /\ (netId = added \/ (added = -1 /\ netId = 0))

\* The event loop gets past the mutex unless wifi_Connect_Network has
\* returned without unlocking it; then it never handles another event.
LoopFreed == epc = "lock" ~> epc # "lock" \/ Leaked
=============================================================================
