------------------------- MODULE WifiConnectProofs -------------------------
(***************************************************************************)
(* Proofs about WifiConnect for every set of network ids, every number of  *)
(* DHCP attempts and every number of events.                               *)
(***************************************************************************)
EXTENDS WifiConnect, TLAPS

-----------------------------------------------------------------------------
(* The inductive invariant.                                                *)

\* A CONNECTED event the event loop has received and not stored yet.
Pending == epc \in {"dhcp", "status"} /\ evt = CONNECTED

\* A connection that has been stored in sConnectStatus or acted on by the
\* test thread comes from an event other than the pending one.
Accounted ==
  /\ Pending => connects >= 1
  /\ sConnectStatus = CONNECTED \/ cpc \in {"unlock", "retry", "dhcp", "report"}
       => IF Pending THEN connects >= 2 ELSE connects >= 1
  /\ cpc = "done" /\ ret = CONNECTED => connects >= 1

\* Whoever the mutex says holds it is in its critical section or has leaked
\* it, and the two critical sections never overlap.
MutexHeld ==
  /\ sMutxDhcp = "loop" <=> epc = "unlock"
  /\ sMutxDhcp = "conn" => cpc \in {"refused", "unlock", "done"}
  /\ cpc \in {"refused", "unlock"} => sMutxDhcp = "conn"

\* The event loop asks for a lease only for a connection.
LoopDhcp == epc = "dhcp" => evt = CONNECTED

\* The lease is untouched until the test thread is past the mutex.
BeforeLease ==
  /\ cpc \notin {"retry", "dhcp", "report", "done"} =>
       lease = "none" /\ retryNum = DHCP_RETRY
  /\ cpc = "retry" =>
       /\ retryNum >= 0
       /\ lease # "granted"
       /\ lease = "none" => retryNum = DHCP_RETRY
  /\ cpc = "dhcp" => retryNum >= 0
  /\ cpc = "report" =>
       /\ lease # "none"
       /\ lease = "granted" => retryNum >= 0
       /\ lease = "denied" => retryNum = -1

\* What a return of wifi_Connect_Network leaves behind.
Returned ==
  cpc = "done" =>
    \/ lease = "none" /\ sMutxDhcp = "conn"
         /\ ret \notin {-1, -2, DHCP_FAILURE}
    \/ lease = "none" /\ sMutxDhcp # "conn" /\ ret \in {-1, -2}
    \/ lease = "granted" /\ sMutxDhcp # "conn" /\ retryNum = 0
         /\ ret = DHCP_FAILURE
    \/ lease = "granted" /\ sMutxDhcp # "conn" /\ retryNum > 0
         /\ ret = CONNECTED
    \/ lease = "denied" /\ sMutxDhcp # "conn" /\ retryNum = -1
         /\ ret = CONNECTED

\* netId names the added network, or network 0 after a refused ADD_NETWORK,
\* until a command fails; the network exists once a command has succeeded.
OwnId ==
  /\ cpc = "add" => added = -1
  /\ cpc \notin {"add", "done"} /\ netId >= 0 =>
       netId = added \/ (added = -1 /\ netId = 0)
  /\ cpc \in {"reconnect", "lock", "wait", "timeout", "woken", "refused",
              "unlock", "retry", "dhcp", "report"} => netId \in nets

IInv == /\ TypeOK /\ MutexHeld /\ Accounted /\ LoopDhcp
        /\ BeforeLease /\ Returned /\ OwnId

-----------------------------------------------------------------------------
(* The invariant is inductive.                                             *)

LEMMA InitIInv == Init => IInv
  <1> SUFFICES ASSUME Init PROVE IInv
    OBVIOUS
  <1> USE BoundAssumption DEF Init
  <1>1. TypeOK
    BY DEF TypeOK, Outcomes, UNKNOWN_REASON, CONNECTED
  <1>2. MutexHeld /\ LoopDhcp /\ BeforeLease /\ Returned /\ OwnId
    BY DEF MutexHeld, LoopDhcp, BeforeLease, Returned, OwnId
  <1>3. Accounted
    BY DEF Accounted, Pending, CONNECTED
  <1> QED
    BY <1>1, <1>2, <1>3 DEF IInv

LEMMA NextIInv == IInv /\ [Next]_vars => IInv'
<1> SUFFICES ASSUME IInv, [Next]_vars PROVE IInv'
  OBVIOUS
<1> USE NetAssumption, BoundAssumption
    DEF Outcomes, UNKNOWN_REASON, DHCP_FAILURE, AUTH_FAILURE,
        ASSOCIATION_REJECT, CONNECTED, CONNECTING
<1>0. /\ TypeOK /\ MutexHeld /\ Accounted /\ LoopDhcp
      /\ BeforeLease /\ Returned /\ OwnId
  BY DEF IInv
<1> USE <1>0
<1>1. CASE AddNetwork
  <2> USE <1>1 DEF AddNetwork, connVars, loopVars
  <2>1. TypeOK'
    BY DEF TypeOK
  <2>2. MutexHeld'
    BY DEF TypeOK, MutexHeld
  <2>3. Accounted'
    BY DEF TypeOK, Accounted, Pending, LoopDhcp
  <2>4. LoopDhcp'
    BY DEF TypeOK, LoopDhcp
  <2>5. BeforeLease'
    BY DEF TypeOK, BeforeLease
  <2>6. Returned'
    BY DEF TypeOK, Returned, BeforeLease, MutexHeld
  <2>7. OwnId'
    BY DEF TypeOK, OwnId
  <2> QED
    BY <2>1, <2>2, <2>3, <2>4, <2>5, <2>6, <2>7 DEF IInv
<1>2. CASE AddRefused
  <2> USE <1>2 DEF AddRefused, connVars, loopVars
  <2>1. TypeOK'
    BY DEF TypeOK
  <2>2. MutexHeld'
    BY DEF TypeOK, MutexHeld
  <2>3. Accounted'
    BY DEF TypeOK, Accounted, Pending, LoopDhcp
  <2>4. LoopDhcp'
    BY DEF TypeOK, LoopDhcp
  <2>5. BeforeLease'
    BY DEF TypeOK, BeforeLease
  <2>6. Returned'
    BY DEF TypeOK, Returned, BeforeLease, MutexHeld
  <2>7. OwnId'
    BY DEF TypeOK, OwnId
  <2> QED
    BY <2>1, <2>2, <2>3, <2>4, <2>5, <2>6, <2>7 DEF IInv
<1>3. CASE AddFails
  <2> USE <1>3 DEF AddFails, connVars, loopVars
  <2>1. TypeOK'
    BY DEF TypeOK
  <2>2. MutexHeld'
    BY DEF TypeOK, MutexHeld
  <2>3. Accounted'
    BY DEF TypeOK, Accounted, Pending, LoopDhcp
  <2>4. LoopDhcp'
    BY DEF TypeOK, LoopDhcp
  <2>5. BeforeLease'
    BY DEF TypeOK, BeforeLease
  <2>6. Returned'
    BY DEF TypeOK, Returned, BeforeLease, MutexHeld
  <2>7. OwnId'
    BY DEF TypeOK, OwnId
  <2> QED
    BY <2>1, <2>2, <2>3, <2>4, <2>5, <2>6, <2>7 DEF IInv
<1>4. CASE ConfigureNetwork
  <2> USE <1>4 DEF ConfigureNetwork, Configure, connVars, loopVars
  <2>1. TypeOK'
    BY DEF TypeOK
  <2>2. MutexHeld'
    BY DEF TypeOK, MutexHeld
  <2>3. Accounted'
    BY DEF TypeOK, Accounted, Pending, LoopDhcp
  <2>4. LoopDhcp'
    BY DEF TypeOK, LoopDhcp
  <2>5. BeforeLease'
    BY DEF TypeOK, BeforeLease
  <2>6. Returned'
    BY DEF TypeOK, Returned, BeforeLease, MutexHeld
  <2>7. OwnId'
    BY DEF TypeOK, OwnId
  <2> QED
    BY <2>1, <2>2, <2>3, <2>4, <2>5, <2>6, <2>7 DEF IInv
<1>5. CASE ConnectNetwork
  <2> USE <1>5 DEF ConnectNetwork, connVars, loopVars
  <2>1. TypeOK'
    BY DEF TypeOK
  <2>2. MutexHeld'
    BY DEF TypeOK, MutexHeld
  <2>3. Accounted'
    BY DEF TypeOK, Accounted, Pending, LoopDhcp
  <2>4. LoopDhcp'
    BY DEF TypeOK, LoopDhcp
  <2>5. BeforeLease'
    BY DEF TypeOK, BeforeLease
  <2>6. Returned'
    BY DEF TypeOK, Returned, BeforeLease, MutexHeld
  <2>7. OwnId'
    BY DEF TypeOK, OwnId
  <2> QED
    BY <2>1, <2>2, <2>3, <2>4, <2>5, <2>6, <2>7 DEF IInv
<1>6. CASE SelectNetwork
  <2> USE <1>6 DEF SelectNetwork, connVars, loopVars
  <2>1. TypeOK'
    BY DEF TypeOK
  <2>2. MutexHeld'
    BY DEF TypeOK, MutexHeld
  <2>3. Accounted'
    BY DEF TypeOK, Accounted, Pending, LoopDhcp
  <2>4. LoopDhcp'
    BY DEF TypeOK, LoopDhcp
  <2>5. BeforeLease'
    BY DEF TypeOK, BeforeLease
  <2>6. Returned'
    BY DEF TypeOK, Returned, BeforeLease, MutexHeld
  <2>7. OwnId'
    BY DEF TypeOK, OwnId
  <2> QED
    BY <2>1, <2>2, <2>3, <2>4, <2>5, <2>6, <2>7 DEF IInv
<1>7. CASE Reconnect
  <2> USE <1>7 DEF Reconnect, connVars, loopVars
  <2>1. TypeOK'
    BY DEF TypeOK
  <2>2. MutexHeld'
    BY DEF TypeOK, MutexHeld
  <2>3. Accounted'
    BY DEF TypeOK, Accounted, Pending, LoopDhcp
  <2>4. LoopDhcp'
    BY DEF TypeOK, LoopDhcp
  <2>5. BeforeLease'
    BY DEF TypeOK, BeforeLease
  <2>6. Returned'
    BY DEF TypeOK, Returned, BeforeLease, MutexHeld
  <2>7. OwnId'
    BY DEF TypeOK, OwnId
  <2> QED
    BY <2>1, <2>2, <2>3, <2>4, <2>5, <2>6, <2>7 DEF IInv
<1>8. CASE CommandFails
  <2> USE <1>8 DEF CommandFails, Return, connVars, loopVars
  <2>1. TypeOK'
    BY DEF TypeOK
  <2>2. MutexHeld'
    BY DEF TypeOK, MutexHeld
  <2>3. Accounted'
    BY DEF TypeOK, Accounted, Pending, LoopDhcp
  <2>4. LoopDhcp'
    BY DEF TypeOK, LoopDhcp
  <2>5. BeforeLease'
    BY DEF TypeOK, BeforeLease
  <2>6. Returned'
    BY DEF TypeOK, Returned, BeforeLease, MutexHeld
  <2>7. OwnId'
    BY DEF TypeOK, OwnId
  <2> QED
    BY <2>1, <2>2, <2>3, <2>4, <2>5, <2>6, <2>7 DEF IInv
<1>9. CASE WaitOutcome
  <2> USE <1>9 DEF WaitOutcome, connVars, loopVars
  <2>1. TypeOK'
    BY DEF TypeOK
  <2>2. MutexHeld'
    BY DEF TypeOK, MutexHeld
  <2>3. Accounted'
    BY DEF TypeOK, Accounted, Pending, LoopDhcp
  <2>4. LoopDhcp'
    BY DEF TypeOK, LoopDhcp
  <2>5. BeforeLease'
    BY DEF TypeOK, BeforeLease
  <2>6. Returned'
    BY DEF TypeOK, Returned, BeforeLease, MutexHeld
  <2>7. OwnId'
    BY DEF TypeOK, OwnId
  <2> QED
    BY <2>1, <2>2, <2>3, <2>4, <2>5, <2>6, <2>7 DEF IInv
<1>10. CASE WaitEnds
  <2> USE <1>10 DEF WaitEnds, connVars, loopVars
  <2>1. TypeOK'
    BY DEF TypeOK
  <2>2. MutexHeld'
    BY DEF TypeOK, MutexHeld
  <2>3. Accounted'
    BY DEF TypeOK, Accounted, Pending, LoopDhcp
  <2>4. LoopDhcp'
    BY DEF TypeOK, LoopDhcp
  <2>5. BeforeLease'
    BY DEF TypeOK, BeforeLease
  <2>6. Returned'
    BY DEF TypeOK, Returned, BeforeLease, MutexHeld
  <2>7. OwnId'
    BY DEF TypeOK, OwnId
  <2> QED
    BY <2>1, <2>2, <2>3, <2>4, <2>5, <2>6, <2>7 DEF IInv
<1>11. CASE TimedOut
  <2> USE <1>11 DEF TimedOut, Return, connVars, loopVars
  <2>1. TypeOK'
    BY DEF TypeOK
  <2>2. MutexHeld'
    BY DEF TypeOK, MutexHeld
  <2>3. Accounted'
    BY DEF TypeOK, Accounted, Pending, LoopDhcp
  <2>4. LoopDhcp'
    BY DEF TypeOK, LoopDhcp
  <2>5. BeforeLease'
    BY DEF TypeOK, BeforeLease
  <2>6. Returned'
    BY DEF TypeOK, Returned, BeforeLease, MutexHeld
  <2>7. OwnId'
    BY DEF TypeOK, OwnId
  <2> QED
    BY <2>1, <2>2, <2>3, <2>4, <2>5, <2>6, <2>7 DEF IInv
<1>12. CASE Woken
  <2> USE <1>12 DEF Woken, connVars, loopVars
  <2>1. TypeOK'
    BY DEF TypeOK
  <2>2. MutexHeld'
    BY DEF TypeOK, MutexHeld
  <2>3. Accounted'
    BY DEF TypeOK, Accounted, Pending, LoopDhcp
  <2>4. LoopDhcp'
    BY DEF TypeOK, LoopDhcp
  <2>5. BeforeLease'
    BY DEF TypeOK, BeforeLease
  <2>6. Returned'
    BY DEF TypeOK, Returned, BeforeLease, MutexHeld
  <2>7. OwnId'
    BY DEF TypeOK, OwnId
  <2> QED
    BY <2>1, <2>2, <2>3, <2>4, <2>5, <2>6, <2>7 DEF IInv
<1>13. CASE Refused
  <2> USE <1>13 DEF Refused, Return, connVars, loopVars
  <2>1. TypeOK'
    BY DEF TypeOK
  <2>2. MutexHeld'
    BY DEF TypeOK, MutexHeld
  <2>3. Accounted'
    BY DEF TypeOK, Accounted, Pending, LoopDhcp
  <2>4. LoopDhcp'
    BY DEF TypeOK, LoopDhcp
  <2>5. BeforeLease'
    BY DEF TypeOK, BeforeLease
  <2>6. Returned'
    BY DEF TypeOK, Returned, BeforeLease, MutexHeld
  <2>7. OwnId'
    BY DEF TypeOK, OwnId
  <2> QED
    BY <2>1, <2>2, <2>3, <2>4, <2>5, <2>6, <2>7 DEF IInv
<1>14. CASE Unlock
  <2> USE <1>14 DEF Unlock, connVars, loopVars
  <2>1. TypeOK'
    BY DEF TypeOK
  <2>2. MutexHeld'
    BY DEF TypeOK, MutexHeld
  <2>3. Accounted'
    BY DEF TypeOK, Accounted, Pending, LoopDhcp
  <2>4. LoopDhcp'
    BY DEF TypeOK, LoopDhcp
  <2>5. BeforeLease'
    BY DEF TypeOK, BeforeLease
  <2>6. Returned'
    BY DEF TypeOK, Returned, BeforeLease, MutexHeld
  <2>7. OwnId'
    BY DEF TypeOK, OwnId
  <2> QED
    BY <2>1, <2>2, <2>3, <2>4, <2>5, <2>6, <2>7 DEF IInv
<1>15. CASE TryDhcp
  <2> USE <1>15 DEF TryDhcp, connVars, loopVars
  <2>1. TypeOK'
    BY DEF TypeOK, BeforeLease
  <2>2. MutexHeld'
    BY DEF TypeOK, MutexHeld
  <2>3. Accounted'
    BY DEF TypeOK, Accounted, Pending, LoopDhcp
  <2>4. LoopDhcp'
    BY DEF TypeOK, LoopDhcp
  <2>5. BeforeLease'
    BY DEF TypeOK, BeforeLease
  <2>6. Returned'
    BY DEF TypeOK, Returned, BeforeLease, MutexHeld
  <2>7. OwnId'
    BY DEF TypeOK, OwnId
  <2> QED
    BY <2>1, <2>2, <2>3, <2>4, <2>5, <2>6, <2>7 DEF IInv
<1>16. CASE DhcpReturns
  <2> USE <1>16 DEF DhcpReturns, connVars, loopVars
  <2>1. TypeOK'
    BY DEF TypeOK
  <2>2. MutexHeld'
    BY DEF TypeOK, MutexHeld
  <2>3. Accounted'
    BY DEF TypeOK, Accounted, Pending, LoopDhcp
  <2>4. LoopDhcp'
    BY DEF TypeOK, LoopDhcp
  <2>5. BeforeLease'
    BY DEF TypeOK, BeforeLease
  <2>6. Returned'
    BY DEF TypeOK, Returned, BeforeLease, MutexHeld
  <2>7. OwnId'
    BY DEF TypeOK, OwnId
  <2> QED
    BY <2>1, <2>2, <2>3, <2>4, <2>5, <2>6, <2>7 DEF IInv
<1>17. CASE ReportLease
  <2> USE <1>17 DEF ReportLease, Return, connVars, loopVars
  <2>1. TypeOK'
    BY DEF TypeOK
  <2>2. MutexHeld'
    BY DEF TypeOK, MutexHeld
  <2>3. Accounted'
    BY DEF TypeOK, Accounted, Pending, LoopDhcp
  <2>4. LoopDhcp'
    BY DEF TypeOK, LoopDhcp
  <2>5. BeforeLease'
    BY DEF TypeOK, BeforeLease
  <2>6. Returned'
    BY DEF TypeOK, Returned, BeforeLease, MutexHeld
  <2>7. OwnId'
    BY DEF TypeOK, OwnId
  <2> QED
    BY <2>1, <2>2, <2>3, <2>4, <2>5, <2>6, <2>7 DEF IInv
<1>18. CASE ReceiveEvent
  <2> USE <1>18 DEF ReceiveEvent, connVars, loopVars
  <2>1. TypeOK'
    BY DEF TypeOK
  <2>2. MutexHeld'
    BY DEF TypeOK, MutexHeld
  <2>3. Accounted'
    BY DEF TypeOK, Accounted, Pending, LoopDhcp
  <2>4. LoopDhcp'
    BY DEF TypeOK, LoopDhcp
  <2>5. BeforeLease'
    BY DEF TypeOK, BeforeLease
  <2>6. Returned'
    BY DEF TypeOK, Returned, BeforeLease, MutexHeld
  <2>7. OwnId'
    BY DEF TypeOK, OwnId
  <2> QED
    BY <2>1, <2>2, <2>3, <2>4, <2>5, <2>6, <2>7 DEF IInv
<1>19. CASE LoopDhcpReturns
  <2> USE <1>19 DEF LoopDhcpReturns, connVars, loopVars
  <2>1. TypeOK'
    BY DEF TypeOK
  <2>2. MutexHeld'
    BY DEF TypeOK, MutexHeld
  <2>3. Accounted'
    BY DEF TypeOK, Accounted, Pending, LoopDhcp
  <2>4. LoopDhcp'
    BY DEF TypeOK, LoopDhcp
  <2>5. BeforeLease'
    BY DEF TypeOK, BeforeLease
  <2>6. Returned'
    BY DEF TypeOK, Returned, BeforeLease, MutexHeld
  <2>7. OwnId'
    BY DEF TypeOK, OwnId
  <2> QED
    BY <2>1, <2>2, <2>3, <2>4, <2>5, <2>6, <2>7 DEF IInv
<1>20. CASE StoreStatus
  <2> USE <1>20 DEF StoreStatus, connVars, loopVars
  <2>1. TypeOK'
    BY DEF TypeOK
  <2>2. MutexHeld'
    BY DEF TypeOK, MutexHeld
  <2>3. Accounted'
    BY DEF TypeOK, Accounted, Pending, LoopDhcp
  <2>4. LoopDhcp'
    BY DEF TypeOK, LoopDhcp
  <2>5. BeforeLease'
    BY DEF TypeOK, BeforeLease
  <2>6. Returned'
    BY DEF TypeOK, Returned, BeforeLease, MutexHeld
  <2>7. OwnId'
    BY DEF TypeOK, OwnId
  <2> QED
    BY <2>1, <2>2, <2>3, <2>4, <2>5, <2>6, <2>7 DEF IInv
<1>21. CASE Signal
  <2> USE <1>21 DEF Signal, connVars, loopVars
  <2>1. TypeOK'
    BY DEF TypeOK
  <2>2. MutexHeld'
    BY DEF TypeOK, MutexHeld
  <2>3. Accounted'
    BY DEF TypeOK, Accounted, Pending, LoopDhcp
  <2>4. LoopDhcp'
    BY DEF TypeOK, LoopDhcp
  <2>5. BeforeLease'
    BY DEF TypeOK, BeforeLease
  <2>6. Returned'
    BY DEF TypeOK, Returned, BeforeLease, MutexHeld
  <2>7. OwnId'
    BY DEF TypeOK, OwnId
  <2> QED
    BY <2>1, <2>2, <2>3, <2>4, <2>5, <2>6, <2>7 DEF IInv
<1>22. CASE LoopUnlock
  <2> USE <1>22 DEF LoopUnlock, connVars, loopVars
  <2>1. TypeOK'
    BY DEF TypeOK
  <2>2. MutexHeld'
    BY DEF TypeOK, MutexHeld
  <2>3. Accounted'
    BY DEF TypeOK, Accounted, Pending, LoopDhcp
  <2>4. LoopDhcp'
    BY DEF TypeOK, LoopDhcp
  <2>5. BeforeLease'
    BY DEF TypeOK, BeforeLease
  <2>6. Returned'
    BY DEF TypeOK, Returned, BeforeLease, MutexHeld
  <2>7. OwnId'
    BY DEF TypeOK, OwnId
  <2> QED
    BY <2>1, <2>2, <2>3, <2>4, <2>5, <2>6, <2>7 DEF IInv
<1>23. CASE Terminating
  <2> USE <1>23 DEF Terminating, connVars, loopVars
  <2>1. TypeOK'
    BY DEF TypeOK
  <2>2. MutexHeld'
    BY DEF TypeOK, MutexHeld
  <2>3. Accounted'
    BY DEF TypeOK, Accounted, Pending, LoopDhcp
  <2>4. LoopDhcp'
    BY DEF TypeOK, LoopDhcp
  <2>5. BeforeLease'
    BY DEF TypeOK, BeforeLease
  <2>6. Returned'
    BY DEF TypeOK, Returned, BeforeLease, MutexHeld
  <2>7. OwnId'
    BY DEF TypeOK, OwnId
  <2> QED
    BY <2>1, <2>2, <2>3, <2>4, <2>5, <2>6, <2>7 DEF IInv
<1>24. CASE UNCHANGED vars
  BY <1>24 DEF vars, connVars, loopVars, IInv, TypeOK, MutexHeld, Accounted,
     Pending, LoopDhcp, BeforeLease, Returned, OwnId
<1> QED
  BY <1>1, <1>2, <1>3, <1>4, <1>5, <1>6, <1>7, <1>8, <1>9, <1>10, <1>11,
     <1>12, <1>13, <1>14, <1>15, <1>16, <1>17, <1>18, <1>19, <1>20, <1>21,
     <1>22, <1>23, <1>24
  DEF Next, ConnStep, LoopStep

-----------------------------------------------------------------------------
(* The theorems.                                                           *)

\* The strengthened invariant holds in every reachable state.
THEOREM Invariance == Spec => []IInv
  <1> QED
    BY InitIInv, NextIInv, PTL DEF Spec

\* Type correctness of both threads' state.
THEOREM TypeCorrect == Spec => []TypeOK
  <1>1. IInv => TypeOK
    BY DEF IInv
  <1> QED
    BY <1>1, Invariance, PTL

\* sMutxDhcp is held by at most one thread, and only inside its critical
\* section or after wifi_Connect_Network returned without unlocking it.
THEOREM Mutual == Spec => []MutexHeld
  <1>1. IInv => MutexHeld
    BY DEF IInv
  <1> QED
    BY <1>1, Invariance, PTL

\* wifi_Connect_Network leaks sMutxDhcp exactly on the returns after its wait
\* that never ask for a lease.
THEOREM Leaks == Spec => []LeakExact
  <1>1. IInv => LeakExact
    BY DEF IInv, TypeOK, MutexHeld, Returned, LeakExact, Leaked,
       UNKNOWN_REASON, DHCP_FAILURE, CONNECTED
  <1> QED
    BY <1>1, Invariance, PTL

\* Neither a lease nor the answer CONNECTED comes before a CONNECTED event.
THEOREM EventFirst == Spec => []ConnectedHasEvent
  <1>1. IInv => ConnectedHasEvent
    BY DEF IInv, TypeOK, Accounted, Pending, ConnectedHasEvent
  <1> QED
    BY <1>1, Invariance, PTL

\* What wifi_Connect_Network says about the lease, for every number of
\* attempts: the last attempt's success is reported as DHCP_FAILURE.
THEOREM Lease == Spec => []LeaseVerdict
  <1>1. IInv => LeaseVerdict
    BY BoundAssumption DEF IInv, TypeOK, Returned, LeaseVerdict, UNKNOWN_REASON,
       DHCP_FAILURE, CONNECTED
  <1> QED
    BY <1>1, Invariance, PTL

\* A single CONNECTED event never makes both threads run wifi_Dhcp at once.
THEOREM Exclusive == Spec => []DhcpExclusive
  <1>1. IInv => DhcpExclusive
    BY DEF IInv, TypeOK, Accounted, Pending, LoopDhcp, DhcpExclusive
  <1> QED
    BY <1>1, Invariance, PTL

\* Whatever wifiAddNetwork returned, the network joined is the one it added
\* or, after a refused ADD_NETWORK, a saved network 0.
THEOREM OwnNetwork == Spec => []JoinsOwnNetwork
  <1>1. IInv => JoinsOwnNetwork
    BY NetAssumption DEF IInv, TypeOK, OwnId, JoinsOwnNetwork
  <1> QED
    BY <1>1, Invariance, PTL

-----------------------------------------------------------------------------
(* Why wifi_Connect_Network returns, and what the event loop waits for.    *)

\* The threads wait for the mutex only while the other one is on its way to
\* releasing it, never both at once; but the event loop also does after a
\* return that has left it locked.
WaitsForHolder ==
  /\ cpc \in {"lock", "timeout", "woken"} /\ sMutxDhcp # "free" =>
       epc = "unlock"
  /\ epc = "lock" /\ sMutxDhcp # "free" =>
       cpc \in {"refused", "unlock"} \/ Leaked

\* The steps the test thread has left until wifi_Connect_Network returns: at
\* most two for each attempt to get a lease.
StepsLeft ==
  CASE cpc = "done" -> 0
    [] cpc \in {"report", "refused", "timeout"} -> 1
    [] cpc = "retry" -> 2 * retryNum + 2
    [] cpc = "dhcp" -> 2 * retryNum + 3
    [] cpc = "unlock" -> 2 * DHCP_RETRY + 3
    [] cpc = "woken" -> 2 * DHCP_RETRY + 4
    [] cpc = "wait" -> 2 * DHCP_RETRY + 5
    [] cpc = "lock" -> 2 * DHCP_RETRY + 6
    [] cpc = "reconnect" -> 2 * DHCP_RETRY + 7
    [] cpc = "select" -> 2 * DHCP_RETRY + 8
    [] cpc = "connect" -> 2 * DHCP_RETRY + 9
    [] cpc = "save" -> 2 * DHCP_RETRY + 10
    [] cpc = "enable" -> 2 * DHCP_RETRY + 11
    [] cpc = "psk" -> 2 * DHCP_RETRY + 12
    [] cpc = "ssid" -> 2 * DHCP_RETRY + 13
    [] cpc = "add" -> 2 * DHCP_RETRY + 14

\* Joining takes at most 2 * DHCP_RETRY + 14 steps of the test thread, and no
\* event gives it more to do.
StepsUsedUp ==
  [][/\ StepsLeft \in 0 .. 2 * DHCP_RETRY + 14
     /\ ConnStep => StepsLeft' < StepsLeft
     /\ LoopStep \/ ReceiveEvent \/ Terminating => StepsLeft' <= StepsLeft]_vars

LEMMA StepsCounted == IInv => StepsLeft \in 0 .. 2 * DHCP_RETRY + 14
  <1> SUFFICES ASSUME IInv PROVE StepsLeft \in 0 .. 2 * DHCP_RETRY + 14
    OBVIOUS
  <1>1. DHCP_RETRY \in Nat /\ retryNum \in -1 .. DHCP_RETRY
    BY BoundAssumption DEF IInv, TypeOK
  <1>2. CASE cpc \in {"done", "report", "refused", "timeout"}
    <2>1. StepsLeft \in 0 .. 1
      BY <1>2 DEF StepsLeft
    <2>2. 0 .. 1 \subseteq 0 .. 2 * DHCP_RETRY + 14
      BY <1>1
    <2> QED
      BY <2>1, <2>2
  <1>3. CASE cpc = "retry"
    BY <1>1, <1>3 DEF StepsLeft, IInv, BeforeLease
  <1>4. CASE cpc = "dhcp"
    BY <1>1, <1>4 DEF StepsLeft, IInv, BeforeLease
  <1>5. CASE cpc \in {"unlock", "woken", "wait", "lock", "reconnect", "select",
                      "connect", "save", "enable", "psk", "ssid", "add"}
    <2>1. \E n \in 3 .. 14 : StepsLeft = 2 * DHCP_RETRY + n
      BY <1>5 DEF StepsLeft
    <2> QED
      BY <1>1, <2>1
  <1> QED
    BY <1>2, <1>3, <1>4, <1>5 DEF IInv, TypeOK

\* wifi_Connect_Network always returns: the test thread has a bounded number
\* of steps left, and a mutex it waits for is one that the event loop is about
\* to release.  The event loop itself has no such promise (LoopFreed).
THEOREM ConnectReturns == Spec => []WaitsForHolder /\ StepsUsedUp
  <1>1. IInv => WaitsForHolder
    BY DEF IInv, TypeOK, MutexHeld, WaitsForHolder, Leaked
  <1>2. IInv /\ [Next]_vars =>
          [/\ StepsLeft \in 0 .. 2 * DHCP_RETRY + 14
           /\ ConnStep => StepsLeft' < StepsLeft
           /\ LoopStep \/ ReceiveEvent \/ Terminating =>
                StepsLeft' <= StepsLeft]_vars
    <2> SUFFICES ASSUME IInv
                 PROVE  /\ StepsLeft \in 0 .. 2 * DHCP_RETRY + 14
                        /\ ConnStep => StepsLeft' < StepsLeft
                        /\ LoopStep \/ ReceiveEvent \/ Terminating =>
                             StepsLeft' <= StepsLeft
      OBVIOUS
    <2>0. /\ DHCP_RETRY \in Nat /\ DHCP_RETRY > 0 /\ retryNum \in Int
          /\ StepsLeft \in 0 .. 2 * DHCP_RETRY + 14
          /\ cpc = "retry" => retryNum >= 0 /\ retryNum <= DHCP_RETRY
          /\ cpc = "dhcp" => retryNum >= 0
          /\ cpc = "unlock" => retryNum = DHCP_RETRY
      BY BoundAssumption, StepsCounted DEF IInv, TypeOK, BeforeLease
    <2>1. ASSUME AddNetwork \/ AddRefused \/ AddFails
          PROVE  StepsLeft' < StepsLeft
      <3>1. cpc = "add" /\ (cpc' = "ssid" \/ cpc' = "connect")
        BY <2>1 DEF AddNetwork, AddRefused, AddFails
      <3>2. CASE cpc' = "ssid"
        BY <2>0, <3>1, <3>2 DEF StepsLeft
      <3>3. CASE cpc' = "connect"
        BY <2>0, <3>1, <3>3 DEF StepsLeft
      <3> QED
        BY <3>1, <3>2, <3>3
    <2>2. ASSUME ConfigureNetwork PROVE StepsLeft' < StepsLeft
      <3>1. PICK c \in Configure : cpc = c.at /\ cpc' \in {c.next, "connect"}
        BY <2>2 DEF ConfigureNetwork
      <3>2. CASE cpc = "ssid" /\ cpc' \in {"psk", "connect"}
        BY <2>0, <3>2 DEF StepsLeft
      <3>3. CASE cpc = "psk" /\ cpc' \in {"enable", "connect"}
        BY <2>0, <3>3 DEF StepsLeft
      <3>4. CASE cpc = "enable" /\ cpc' \in {"save", "connect"}
        BY <2>0, <3>4 DEF StepsLeft
      <3>5. CASE cpc = "save" /\ cpc' = "connect"
        BY <2>0, <3>5 DEF StepsLeft
      <3> QED
        BY <3>1, <3>2, <3>3, <3>4, <3>5 DEF Configure
    <2>3. ASSUME ConnectNetwork \/ SelectNetwork \/ Reconnect \/ WaitOutcome
          PROVE  StepsLeft' < StepsLeft
      <3>1. CASE ConnectNetwork
        BY <2>0, <3>1 DEF ConnectNetwork, StepsLeft
      <3>2. CASE SelectNetwork
        BY <2>0, <3>2 DEF SelectNetwork, StepsLeft
      <3>3. CASE Reconnect
        BY <2>0, <3>3 DEF Reconnect, StepsLeft
      <3>4. CASE WaitOutcome
        BY <2>0, <3>4 DEF WaitOutcome, StepsLeft
      <3> QED
        BY <2>3, <3>1, <3>2, <3>3, <3>4
    <2>4. ASSUME CommandFails \/ TimedOut \/ Refused \/ ReportLease
          PROVE  StepsLeft' < StepsLeft
      <3>1. /\ cpc \in {"select", "reconnect", "timeout", "refused", "report"}
            /\ cpc' = "done"
        BY <2>4 DEF CommandFails, TimedOut, Refused, ReportLease, Return
      <3>2. CASE cpc = "select"
        BY <2>0, <3>1, <3>2 DEF StepsLeft
      <3>3. CASE cpc = "reconnect"
        BY <2>0, <3>1, <3>3 DEF StepsLeft
      <3>4. CASE cpc \in {"timeout", "refused", "report"}
        BY <3>1, <3>4 DEF StepsLeft
      <3> QED
        BY <3>1, <3>2, <3>3, <3>4
    <2>5. ASSUME WaitEnds \/ Woken PROVE StepsLeft' < StepsLeft
      <3>1. CASE cpc = "wait" /\ cpc' = "timeout"
        BY <2>0, <3>1 DEF StepsLeft
      <3>2. CASE cpc = "wait" /\ cpc' = "woken"
        BY <2>0, <3>2 DEF StepsLeft
      <3>3. CASE cpc = "woken" /\ cpc' = "unlock"
        BY <2>0, <3>3 DEF StepsLeft
      <3>4. CASE cpc = "woken" /\ cpc' = "refused"
        BY <2>0, <3>4 DEF StepsLeft
      <3> QED
        BY <2>5, <3>1, <3>2, <3>3, <3>4 DEF WaitEnds, Woken
    <2>6. ASSUME Unlock PROVE StepsLeft' < StepsLeft
      BY <2>0, <2>6 DEF Unlock, StepsLeft
    <2>7. ASSUME TryDhcp PROVE StepsLeft' < StepsLeft
      BY <2>0, <2>7 DEF TryDhcp, StepsLeft
    <2>8. ASSUME DhcpReturns PROVE StepsLeft' < StepsLeft
      BY <2>0, <2>8 DEF DhcpReturns, StepsLeft
    <2>9. ASSUME Signal PROVE StepsLeft' <= StepsLeft
      <3>1. CASE cpc = "wait"
        BY <2>0, <2>9, <3>1 DEF Signal, StepsLeft
      <3>2. CASE cpc # "wait"
        <4>1. cpc' = cpc /\ retryNum' = retryNum
          BY <2>9, <3>2 DEF Signal
        <4>2. StepsLeft' = StepsLeft
          BY <4>1 DEF StepsLeft
        <4> QED
          BY <2>0, <4>2
      <3> QED
        BY <3>1, <3>2
    <2>10. ASSUME LoopDhcpReturns \/ StoreStatus \/ LoopUnlock
                    \/ ReceiveEvent \/ Terminating
           PROVE  StepsLeft' <= StepsLeft
      <3>1. UNCHANGED connVars
        BY <2>10 DEF LoopDhcpReturns, StoreStatus, LoopUnlock, ReceiveEvent,
                     Terminating
      <3>2. StepsLeft' = StepsLeft
        BY <3>1 DEF connVars, StepsLeft
      <3> QED
        BY <2>0, <3>2
    <2> QED
      BY <2>0, <2>1, <2>2, <2>3, <2>4, <2>5, <2>6, <2>7, <2>8, <2>9, <2>10
      DEF ConnStep, LoopStep
  <1> QED
    BY <1>1, <1>2, Invariance, PTL DEF Spec, StepsUsedUp
=============================================================================
