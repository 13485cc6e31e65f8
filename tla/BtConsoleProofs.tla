--------------------------- MODULE BtConsoleProofs ---------------------------
(***************************************************************************)
(* Proofs about BtConsole for every set of peers and any number of         *)
(* consoles, commands and connections.                                     *)
(*                                                                         *)
(* The invariant has a part per group of variables; each part is kept by   *)
(* the steps that write the group, and trivially by the others.            *)
(***************************************************************************)
EXTENDS BtConsole, SequenceTheorems, TLAPS

-----------------------------------------------------------------------------
(* The console and its pointers.                                           *)

\* After HAL_unload main_done is set, and it stays set.
ConsoleInv ==
  /\ pc \in {"idle", "init", "gatt", "gattinit", "prompt", "spinning",
             "exited"}
  /\ calls \in 0 .. MaxCalls /\ typed \in 0 .. MaxCommands
  /\ main_done \in {0, 1}
  /\ calls = 0 => pc = "idle"
  /\ calls > 1 => main_done = 1
  /\ calls > 0 /\ pc = "idle" => main_done = 1

\* The pointers a running console has, and when the stack has the callbacks.
PointerInv ==
  /\ pc \notin {"idle", "exited"} => sBtInterface
  /\ gattCallbacks => calls > 0
  /\ calls = 1 /\ pc \in {"init", "gatt", "gattinit"} => ~gattCallbacks
  /\ calls = 1 /\ gattCallbacks => sGattIf
  /\ links # {} => gattCallbacks
  /\ adapter # "off" => calls > 0

Safe == ConsoleInv /\ PointerInv /\ CrashHasCause

\* Loading, initialising and unloading.
LEMMA LoadSafe ==
  ASSUME Safe, Load \/ ConsoleStep \/ EndOfInput
  PROVE  Safe'
  <1> USE BoundAssumption DEF Safe, consoleVars, pointerVars, adapterVars,
          linkVars, Running
  <1>1. CASE Load
    BY <1>1 DEF Load, ConsoleInv, PointerInv, CrashHasCause
  <1>2. CASE InitStack
    BY <1>2 DEF InitStack, ConsoleInv, PointerInv, CrashHasCause
  <1>3. CASE GetGatt
    BY <1>3 DEF GetGatt, ConsoleInv, PointerInv, CrashHasCause
  <1>4. CASE InitGatt
    <2>1. ASSUME gattCallbacks', ~gattCallbacks PROVE sGattIf'
      BY <1>4, <2>1, Zenon DEF InitGatt
    <2>2. /\ pc = "gattinit" /\ pc' = "prompt" /\ crashed = "none"
          /\ UNCHANGED <<calls, typed, main_done, sBtInterface, adapter, links,
                         crashed>>
          /\ gattCallbacks => gattCallbacks'
      BY <1>4, Zenon DEF InitGatt
    <2> QED
      BY <2>1, <2>2 DEF ConsoleInv, PointerInv, CrashHasCause
  <1>5. CASE Unload
    BY <1>5 DEF Unload, ConsoleInv, PointerInv, CrashHasCause
  <1>6. CASE EndOfInput
    BY <1>6 DEF EndOfInput, ConsoleInv, PointerInv, CrashHasCause
  <1> QED
    BY <1>1, <1>2, <1>3, <1>4, <1>5, <1>6 DEF ConsoleStep

\* A command is typed at a prompt; one that finds no GATT crashes, and only in
\* the first console, since a later one is not prompted.
LEMMA CommandSafe ==
  ASSUME Safe, Command
  PROVE  Safe'
  <1>1. Typed
    BY DEF Command, OtherCommand, Quit, EnableCommand, DisableCommand,
       RegisterClientCommand, AdvertiseCommand, NoGatt, InitServerCommand,
       NotifyCommand, Ask
  <1>2. calls = 1 /\ main_done = 0
    BY <1>1, BoundAssumption DEF Typed, Safe, ConsoleInv
  <1>3. /\ UNCHANGED <<links, sBtInterface, sGattIf, callbacks, gattCallbacks>>
        /\ main_done' \in {main_done, 1}
    BY DEF Command, OtherCommand, Quit, EnableCommand, DisableCommand,
       RegisterClientCommand, AdvertiseCommand, NoGatt, InitServerCommand,
       NotifyCommand, Ask, linkVars, pointerVars
  <1>4. crashed' \in {crashed, "command"}
        /\ (crashed' = "command" => main_done' = main_done \/ crashed = "command")
    BY DEF Command, OtherCommand, Quit, EnableCommand, DisableCommand,
       RegisterClientCommand, AdvertiseCommand, NoGatt, InitServerCommand,
       NotifyCommand, Ask
  <1>5. ConsoleInv'
    BY <1>1, <1>3, BoundAssumption DEF Safe, ConsoleInv, Typed
  <1>6. PointerInv'
    BY <1>1, <1>2, <1>3 DEF Safe, PointerInv, Typed
  <1>7. CrashHasCause'
    BY <1>1, <1>2, <1>3, <1>4 DEF Safe, CrashHasCause, Typed, Running
  <1> QED
    BY <1>5, <1>6, <1>7 DEF Safe

\* The callbacks of the adapter and of a pairing.
LEMMA AdapterSafe ==
  ASSUME Safe, AdapterOn \/ AdapterOff \/ PairingRequest
  PROVE  Safe'
  <1> USE DEF Safe, consoleVars, pointerVars, adapterVars, linkVars, Running
  <1>1. CASE AdapterOn
    BY <1>1, BoundAssumption DEF AdapterOn, ConsoleInv, PointerInv, CrashHasCause
  <1>2. CASE AdapterOff
    BY <1>2 DEF AdapterOff, ConsoleInv, PointerInv, CrashHasCause
  <1>3. CASE PairingRequest
    BY <1>3, BoundAssumption DEF PairingRequest, ConsoleInv, PointerInv,
       CrashHasCause
  <1> QED
    BY <1>1, <1>2, <1>3

\* The GATT callbacks and the peers.
LEMMA GattSafe ==
  ASSUME Safe, GattCallback \/ \E p \in Peers : Connect(p) \/ Disconnect(p)
  PROVE  Safe'
  <1> USE DEF consoleVars, pointerVars, adapterVars, linkVars
  <1>1. CASE GattCallback
    <2>1. /\ UNCHANGED <<consoleVars, pointerVars, adapterVars, linkVars>>
          /\ crashed = "none" /\ gattCallbacks
          /\ crashed' = crashed \/ CalledBack
      BY <1>1 DEF GattCallback, ClientRegistered, ServerRegistered, Listens,
         ServiceAdded, CharacteristicAdded, CharacteristicRefused,
         ServiceStarted, ConnectionReported, WriteRequest, Answer, Running,
         Safe, PointerInv
    <2>2. CASE crashed' = crashed
      BY <2>1, <2>2 DEF Safe, ConsoleInv, PointerInv, CrashHasCause
    <2>3. CASE CalledBack
      BY <2>1, <2>3, BoundAssumption DEF CalledBack, Safe, ConsoleInv,
         PointerInv, CrashHasCause
    <2> QED
      BY <2>1, <2>2, <2>3
  <1>2. ASSUME NEW p \in Peers, Connect(p) \/ Disconnect(p)
        PROVE  Safe'
    BY <1>2 DEF Connect, Disconnect, Running, Safe, ConsoleInv, PointerInv,
       CrashHasCause
  <1> QED
    BY <1>1, <1>2

LEMMA InitSafe == Init => Safe
  BY BoundAssumption DEF Init, Safe, ConsoleInv, PointerInv, CrashHasCause

LEMMA NextSafe == Safe /\ [Next]_vars => Safe'
  <1>1. CASE UNCHANGED vars
    BY <1>1 DEF vars, consoleVars, pointerVars, adapterVars, linkVars, Safe,
       ConsoleInv, PointerInv, CrashHasCause
  <1> QED
    BY <1>1, LoadSafe, CommandSafe, AdapterSafe, GattSafe DEF Next

\* A console uses a null pointer only for the causes named: command 8 or 9 of
\* the first console, a callback after HAL_unload, a GATT callback when a later
\* gatt_init failed.
THEOREM CrashCauses == Spec => []CrashHasCause
  <1>1. Safe => CrashHasCause
    BY DEF Safe
  <1> QED
    BY <1>1, InitSafe, NextSafe, PTL DEF Spec

-----------------------------------------------------------------------------
(* The adapter.                                                            *)

\* bt_enabled says what the last callback said, and without an excuse the
\* adapter is, or is on its way to, where it was wanted.
AdapterInv ==
  /\ adapter \in {"off", "turning on", "on", "turning off"}
  /\ wish \in {"off", "on"} /\ excuse \in {"none", "raced", "refused"}
  /\ bt_enabled \in {0, 1}
  /\ bt_enabled = 1 => adapter \in {"on", "turning off"}
  /\ bt_enabled = 0 => adapter \in {"off", "turning on"}
  /\ excuse = "none" /\ wish = "on" => adapter \in {"on", "turning on"}
  /\ excuse = "none" /\ wish = "off" => adapter \in {"off", "turning off"}

LEMMA InitAdapter == Init => AdapterInv
  BY DEF Init, AdapterInv

LEMMA NextAdapter == AdapterInv /\ [Next]_vars => AdapterInv'
  <1> SUFFICES ASSUME AdapterInv, [Next]_vars PROVE AdapterInv'
    OBVIOUS
  <1>1. CASE EnableCommand
    <2>1. CASE bt_enabled = 1
      <3>1. /\ wish' = "on" /\ adapter' = adapter /\ bt_enabled' = bt_enabled
            /\ adapter = "turning off" => excuse' = "raced"
            /\ adapter # "turning off" => excuse' = "none"
        BY <1>1, <2>1 DEF EnableCommand, Already
      <3> QED
        BY <2>1, <3>1 DEF AdapterInv
    <2>2. CASE bt_enabled = 0
      <3>1. /\ wish' = "on" /\ bt_enabled' = bt_enabled
            /\ \/ /\ adapter = "off" /\ adapter' = "turning on"
                  /\ excuse' = "none"
               \/ /\ adapter' = adapter
                  /\ adapter = "turning on" => excuse' = "none"
                  /\ adapter # "turning on" => excuse' = "refused"
        <4>1. bt_enabled # 1
          BY <2>2
        <4>2. Turn("off", "turning on", "on") /\ bt_enabled' = bt_enabled
          BY <1>1, <4>1, Zenon DEF EnableCommand
        <4> QED
          BY <4>2, Zenon DEF Turn
      <3> QED
        BY <2>2, <3>1 DEF AdapterInv
    <2> QED
      BY <2>1, <2>2 DEF AdapterInv
  <1>2. CASE DisableCommand
    <2>1. CASE bt_enabled = 0
      <3>1. /\ wish' = "off" /\ adapter' = adapter /\ bt_enabled' = bt_enabled
            /\ adapter = "turning on" => excuse' = "raced"
            /\ adapter # "turning on" => excuse' = "none"
        BY <1>2, <2>1 DEF DisableCommand, Already
      <3>2. adapter \in {"off", "turning on"}
        BY <2>1 DEF AdapterInv
      <3> QED
        BY <2>1, <3>1, <3>2 DEF AdapterInv
    <2>2. CASE bt_enabled = 1
      <3>1. /\ wish' = "off" /\ bt_enabled' = bt_enabled
            /\ \/ /\ adapter = "on" /\ adapter' = "turning off"
                  /\ excuse' = "none"
               \/ /\ adapter' = adapter
                  /\ adapter = "turning off" => excuse' = "none"
                  /\ adapter # "turning off" => excuse' = "refused"
        <4>1. bt_enabled # 0
          BY <2>2
        <4>2. Turn("on", "turning off", "off") /\ bt_enabled' = bt_enabled
          BY <1>2, <4>1, Zenon DEF DisableCommand
        <4> QED
          BY <4>2, Zenon DEF Turn
      <3> QED
        BY <2>2, <3>1 DEF AdapterInv
    <2> QED
      BY <2>1, <2>2 DEF AdapterInv
  <1>3. CASE AdapterOn
    BY <1>3 DEF AdapterOn, AdapterInv
  <1>4. CASE AdapterOff
    <2>1. /\ adapter' = "off" /\ bt_enabled' = 0 /\ wish' = wish
          /\ adapter = "turning on" /\ wish = "on" => excuse' = "refused"
          /\ ~(adapter = "turning on" /\ wish = "on") => excuse' = excuse
          /\ adapter \in {"turning on", "turning off"}
      BY <1>4 DEF AdapterOff
    <2>2. CASE excuse' = "refused"
      BY <2>1, <2>2 DEF AdapterInv
    <2>3. CASE excuse' = excuse
      BY <2>1, <2>3 DEF AdapterInv
    <2> QED
      BY <2>1, <2>2, <2>3
  <1>5. CASE ~(EnableCommand \/ DisableCommand \/ AdapterOn \/ AdapterOff)
    <2>1. UNCHANGED adapterVars
      BY <1>5 DEF Next, Load, ConsoleStep, InitStack, GetGatt, InitGatt, Unload,
         EndOfInput, Command, OtherCommand, Quit, RegisterClientCommand,
         AdvertiseCommand, NoGatt, InitServerCommand, NotifyCommand, Ask,
         PairingRequest, GattCallback, ClientRegistered, ServerRegistered,
         Listens, ServiceAdded, CharacteristicAdded, CharacteristicRefused,
         ServiceStarted, ConnectionReported, WriteRequest, Answer, Connect,
         Disconnect, vars
    <2> QED
      BY <2>1 DEF adapterVars, AdapterInv
  <1> QED
    BY <1>1, <1>2, <1>3, <1>4, <1>5

\* Commands 1 and 2 bring the adapter where the last of them wanted it, unless
\* the stack refused or the command overtook adapter_state_changed.
THEOREM LastWish == Spec => []LastWishHolds
  <1>1. AdapterInv => LastWishHolds
    BY DEF AdapterInv, LastWishHolds
  <1> QED
    BY <1>1, InitAdapter, NextAdapter, PTL DEF Spec

-----------------------------------------------------------------------------
(* The queue of requests, and how a step moves it.                         *)

Requests == [kind : {"client", "server"}]
       \cup [kind : {"listen", "service"}, app : Int]
       \cup [kind : {"char", "start"}, app : Int, service : Nat]
       \cup [kind : {"up", "down"}, conn : Peers]

\* requests' is what is left of requests after the first n, and then new.
Moved(n, new) ==
  /\ requests' \in Seq(Requests)
  /\ Len(requests') = Len(requests) - n + Len(new)
  /\ \A i \in 1 .. Len(requests) - n : requests'[i] = requests[i + n]
  /\ \A i \in 1 .. Len(new) : requests'[Len(requests) - n + i] = new[i]

LEMMA AppendMoves ==
  ASSUME requests \in Seq(Requests), NEW new \in Seq(Requests),
         requests' = requests \o new
  PROVE  Moved(0, new)
  BY ConcatProperties DEF Moved

LEMMA AnswerMoves ==
  ASSUME requests \in Seq(Requests), NEW new \in Seq(Requests), NEW kind,
         Answer(kind, new)
  PROVE  /\ Moved(1, new) /\ Len(requests) \in Nat \ {0}
         /\ requests[1] \in Requests /\ requests[1].kind = kind
         /\ UNCHANGED <<consoleVars, pointerVars, adapterVars, hasty>>
  <1>1. requests # <<>> /\ requests' = Tail(requests) \o new
        /\ requests[1].kind = kind
    BY DEF Answer, Request
  <1>2. /\ Len(requests) \in Nat \ {0} /\ requests[1] \in Requests
        /\ Tail(requests) \in Seq(Requests)
        /\ Len(Tail(requests)) = Len(requests) - 1
        /\ \A i \in 1 .. Len(Tail(requests)) : Tail(requests)[i] = requests[i + 1]
    BY <1>1, EmptySeq, LenProperties, HeadTailProperties, ElementOfSeq
  <1>3. Moved(1, new)
    BY <1>1, <1>2, ConcatProperties DEF Moved
  <1> QED
    BY <1>1, <1>2, <1>3 DEF Answer

Roles == {"client", "server"}

QueueTyped ==
  /\ requests \in Seq(Requests)
  /\ CLIENT_IF \in Int /\ SERVER_IF \in Int
  /\ apps \in Seq(Roles) /\ services \in Seq(Int) /\ chars \in Seq(Int)

\* The steps that leave the queue and the stack's tables alone.
Quiet == UNCHANGED <<requests, CLIENT_IF, SERVER_IF, CHAR_HANDLE,
                     GATTS_CONN_ID, apps, services, chars, started, linkVars>>

\* What a command hands the stack.
Asks == \/ RegisterClientCommand \/ AdvertiseCommand
        \/ InitServerCommand \/ NotifyCommand

\* The callbacks that take a request.
Answers == \/ ClientRegistered \/ ServerRegistered \/ Listens
           \/ ServiceAdded \/ CharacteristicAdded
           \/ CharacteristicRefused \/ ServiceStarted
           \/ ConnectionReported

LEMMA StepKinds ==
  ASSUME [Next]_vars
  PROVE  \/ Quiet /\ (UNCHANGED hasty)
         \/ Asks \/ Answers
         \/ \E p \in Peers : Connect(p) \/ Disconnect(p)
  <1> USE DEF Quiet, consoleVars, pointerVars, adapterVars, idVars, tableVars,
          linkVars
  <1>1. CASE UNCHANGED vars
    BY <1>1 DEF vars
  <1>2. CASE Load \/ ConsoleStep \/ EndOfInput
    BY <1>2 DEF Load, ConsoleStep, InitStack, GetGatt, InitGatt, Unload,
       EndOfInput
  <1>3. CASE Command
    BY <1>3 DEF Command, OtherCommand, Quit, EnableCommand, DisableCommand,
       NoGatt, Asks
  <1>4. CASE AdapterOn \/ AdapterOff \/ PairingRequest
    BY <1>4 DEF AdapterOn, AdapterOff, PairingRequest
  <1>5. CASE GattCallback
    BY <1>5 DEF GattCallback, WriteRequest, Answers
  <1> QED
    BY <1>1, <1>2, <1>3, <1>4, <1>5 DEF Next

\* What each command adds to the queue, and each callback.
LEMMA AskMoves ==
  ASSUME QueueTyped, Asks
  PROVE  /\ \/ Moved(0, <<>>)
            \/ Moved(0, <<[kind |-> "client"]>>)
            \/ Moved(0, <<[kind |-> "listen", app |-> CLIENT_IF],
                          [kind |-> "server"]>>)
            \/ /\ InitServerCommand
               /\ Moved(0, <<[kind |-> "service", app |-> SERVER_IF]>>)
         /\ UNCHANGED <<idVars, tableVars, linkVars>>
  <1> DEFINE client == [kind |-> "client"]
             listen == [kind |-> "listen", app |-> CLIENT_IF]
             server == [kind |-> "server"]
             service == [kind |-> "service", app |-> SERVER_IF]
  <1>1. client \in Requests /\ listen \in Requests /\ server \in Requests
        /\ service \in Requests
    BY DEF QueueTyped, Requests
  <1>2. /\ <<>> \in Seq(Requests) /\ <<client>> \in Seq(Requests)
        /\ <<listen, server>> \in Seq(Requests) /\ <<service>> \in Seq(Requests)
    BY <1>1
  <1>3. \/ requests' = requests \o <<>>
        \/ requests' = requests \o <<client>>
        \/ requests' = requests \o <<listen, server>>
        \/ InitServerCommand /\ requests' = requests \o <<service>>
    BY DEF Asks, RegisterClientCommand, AdvertiseCommand, InitServerCommand,
       NotifyCommand, Ask
  <1>4. UNCHANGED <<idVars, tableVars, linkVars>>
    BY DEF Asks, RegisterClientCommand, AdvertiseCommand, InitServerCommand,
       NotifyCommand, Ask
  <1> HIDE DEF client, listen, server, service
  <1>5. requests \in Seq(Requests)
    BY DEF QueueTyped
  <1>6. \/ Moved(0, <<>>) \/ Moved(0, <<client>>) \/ Moved(0, <<listen, server>>)
        \/ InitServerCommand /\ Moved(0, <<service>>)
    BY <1>2, <1>3, <1>5, AppendMoves
  <1> QED
    BY <1>4, <1>6 DEF client, listen, server, service

\* A request that ends in none or in one more.
Took(kind, new) ==
  /\ Moved(1, new) /\ Len(requests) \in Nat \ {0}
  /\ requests[1] \in Requests /\ requests[1].kind = kind
  /\ UNCHANGED <<consoleVars, pointerVars, adapterVars, hasty>>

LEMMA TookOne ==
  ASSUME QueueTyped, NEW kind, NEW new \in Seq(Requests), Answer(kind, new)
  PROVE  Took(kind, new)
  BY AnswerMoves DEF Took, QueueTyped

LEMMA ServiceAddedTook ==
  ASSUME QueueTyped, ServiceAdded
  PROVE  \E added \in BOOLEAN :
           /\ Took("service",
                <<[kind |-> "char", app |-> SERVER_IF,
                   service |-> IF added THEN Len(services) + 1 ELSE NoHandle]>>)
           /\ added => IsApp(requests[1].app, "server")
           /\ services' = IF added THEN Append(services, requests[1].app)
                                   ELSE services
  <1>1. PICK added \in BOOLEAN :
          /\ Answer("service",
               <<[kind |-> "char", app |-> SERVER_IF,
                  service |-> IF added THEN Len(services) + 1 ELSE NoHandle]>>)
          /\ added => IsApp(requests[1].app, "server")
          /\ services' = IF added THEN Append(services, requests[1].app)
                                  ELSE services
    BY DEF ServiceAdded, Request
  <1> DEFINE handle == IF added THEN Len(services) + 1 ELSE NoHandle
             char == [kind |-> "char", app |-> SERVER_IF, service |-> handle]
  <1>2. handle \in Nat
    BY LenProperties DEF QueueTyped, NoHandle
  <1>3. char \in Requests
    BY <1>2 DEF QueueTyped, Requests
  <1> HIDE DEF handle, char
  <1>4. <<char>> \in Seq(Requests)
    BY <1>3
  <1>5. Took("service", <<char>>)
    BY <1>1, <1>4, TookOne DEF handle, char
  <1> QED
    BY <1>1, <1>5 DEF handle, char

LEMMA CharacteristicAddedTook ==
  ASSUME QueueTyped, CharacteristicAdded
  PROVE  /\ Took("char", <<[kind |-> "start", app |-> requests[1].app,
                            service |-> requests[1].service]>>)
         /\ requests[1].app \in Int
         /\ requests[1].service \in DOMAIN services
         /\ requests[1].service \in Nat
  <1> DEFINE r == requests[1]
             start == [kind |-> "start", app |-> r.app, service |-> r.service]
  <1>1. Answer("char", <<start>>) /\ r.service \in DOMAIN services
    BY DEF CharacteristicAdded, StartOf, Request
  <1>2. r.kind = "char" /\ requests # <<>>
    BY <1>1 DEF Answer, Request
  <1>3. r \in Requests
    BY <1>2, EmptySeq, ElementOfSeq DEF QueueTyped
  <1>4. r.app \in Int /\ r.service \in Nat
    BY <1>2, <1>3 DEF Requests
  <1>5. start \in Requests
    BY <1>4 DEF Requests
  <1> HIDE DEF start
  <1>6. <<start>> \in Seq(Requests)
    BY <1>5
  <1>7. Took("char", <<start>>)
    BY <1>1, <1>6, TookOne
  <1> QED
    BY <1>1, <1>4, <1>7 DEF start

\* The callbacks that ask for nothing.
LEMMA NothingAsked ==
  ASSUME QueueTyped
  PROVE  /\ ClientRegistered => Took("client", <<>>)
         /\ ServerRegistered => Took("server", <<>>)
         /\ Listens => Took("listen", <<>>)
         /\ CharacteristicRefused => Took("char", <<>>)
         /\ ServiceStarted => Took("start", <<>>)
         /\ ConnectionReported =>
              \/ Took("up", <<>>) /\ GATTS_CONN_ID' = requests[1].conn
              \/ Took("down", <<>>) /\ GATTS_CONN_ID' = NoId
  <1>1. <<>> \in Seq(Requests)
    BY EmptySeq
  <1> QED
    BY <1>1, TookOne DEF ClientRegistered, ServerRegistered, Listens,
       CharacteristicRefused, ServiceStarted, ConnectionReported, Request

\* A peer that comes or goes is reported.
LEMMA PeerMoves ==
  ASSUME QueueTyped, NEW p \in Peers, Connect(p) \/ Disconnect(p)
  PROVE  /\ \/ Connect(p) /\ Moved(0, <<[kind |-> "up", conn |-> p]>>)
            \/ Disconnect(p) /\ Moved(0, <<[kind |-> "down", conn |-> p]>>)
         /\ UNCHANGED <<idVars, tableVars, hasty>>
  <1> DEFINE up == [kind |-> "up", conn |-> p]
             down == [kind |-> "down", conn |-> p]
  <1>1. up \in Requests /\ down \in Requests
    BY DEF Requests
  <1>2. /\ \/ Connect(p) /\ requests' = Append(requests, up)
           \/ Disconnect(p) /\ requests' = Append(requests, down)
        /\ UNCHANGED <<idVars, tableVars, hasty>>
    BY DEF Connect, Disconnect
  <1> HIDE DEF up, down
  <1>3. <<up>> \in Seq(Requests) /\ <<down>> \in Seq(Requests)
    BY <1>1
  <1>4. requests \in Seq(Requests)
    BY DEF QueueTyped
  <1>5. /\ Append(requests, up) = requests \o <<up>>
        /\ Append(requests, down) = requests \o <<down>>
    BY <1>1, <1>4, AppendIsConcat
  <1>6. \/ Connect(p) /\ Moved(0, <<up>>)
        \/ Disconnect(p) /\ Moved(0, <<down>>)
    BY <1>2, <1>3, <1>4, <1>5, AppendMoves
  <1> QED
    BY <1>2, <1>6 DEF up, down

LEMMA InitQueue == Init => QueueTyped
  BY EmptySeq DEF Init, QueueTyped, NoId

LEMMA NextQueue == QueueTyped /\ [Next]_vars => QueueTyped'
  <1> SUFFICES ASSUME QueueTyped, [Next]_vars PROVE QueueTyped'
    OBVIOUS
  <1>1. CASE Quiet
    BY <1>1 DEF Quiet, QueueTyped
  <1>2. CASE Asks
    BY <1>2, AskMoves DEF Moved, QueueTyped, idVars, tableVars
  <1>3. ASSUME NEW p \in Peers, Connect(p) \/ Disconnect(p)
        PROVE  QueueTyped'
    BY <1>3, PeerMoves DEF Moved, QueueTyped, idVars, tableVars
  <1>4. CASE Answers
    <2>1. CASE ClientRegistered \/ ServerRegistered
      <3>1. requests' \in Seq(Requests)
        BY <2>1, NothingAsked DEF Took, Moved
      <3>2. Append(apps, "client") \in Seq(Roles)
            /\ Append(apps, "server") \in Seq(Roles)
        BY AppendProperties DEF QueueTyped, Roles
      <3>3. apps' \in Seq(Roles)
        BY <2>1, <3>2 DEF ClientRegistered, ServerRegistered, QueueTyped
      <3>4. Len(apps') \in Int
        BY <3>3, LenProperties
      <3> QED
        BY <2>1, <3>1, <3>3, <3>4 DEF ClientRegistered, ServerRegistered,
           QueueTyped
    <2>2. CASE Listens \/ CharacteristicRefused \/ ServiceStarted
                 \/ ConnectionReported
      <3>1. requests' \in Seq(Requests)
        BY <2>2, NothingAsked DEF Took, Moved
      <3> QED
        BY <2>2, <3>1 DEF Listens, CharacteristicRefused, ServiceStarted,
           ConnectionReported, QueueTyped, idVars, tableVars
    <2>3. CASE ServiceAdded
      <3>1. /\ requests' \in Seq(Requests) /\ requests[1] \in Requests
            /\ requests[1].kind = "service"
        BY <2>3, ServiceAddedTook DEF Took, Moved
      <3>2. requests[1].app \in Int
        BY <3>1 DEF Requests
      <3>4. services' = services \/ services' = Append(services, requests[1].app)
        BY <2>3, ServiceAddedTook
      <3>3. Append(services, requests[1].app) \in Seq(Int)
        BY <3>2, AppendProperties DEF QueueTyped
      <3> QED
        BY <2>3, <3>1, <3>3, <3>4 DEF ServiceAdded, QueueTyped, idVars
    <2>4. CASE CharacteristicAdded
      <3>1. requests' \in Seq(Requests) /\ requests[1].service \in Int
        BY <2>4, CharacteristicAddedTook DEF Took, Moved
      <3>2. chars' \in Seq(Int)
        BY <2>4, <3>1, AppendProperties DEF CharacteristicAdded, Request,
           QueueTyped
      <3> QED
        BY <2>4, <3>1, <3>2 DEF CharacteristicAdded, QueueTyped
    <2> QED
      BY <1>4, <2>1, <2>2, <2>3, <2>4 DEF Answers
  <1> QED
    BY <1>1, <1>2, <1>3, <1>4, StepKinds

-----------------------------------------------------------------------------
(* The peers.                                                              *)

UpAt(i) == requests[i].kind = "up"
DownAt(i) == requests[i].kind = "down"

\* Whoever was reported is connected or will be reported gone; the last report
\* tells who is there, as long as there was never more than one.
PeerInv ==
  /\ links \subseteq Peers /\ GATTS_CONN_ID \in Peers \cup {NoId}
  /\ GATTS_CONN_ID \in links \cup {NoId}
       \/ \E i \in 1 .. Len(requests) :
            DownAt(i) /\ requests[i].conn = GATTS_CONN_ID
  /\ \A i \in 1 .. Len(requests) : UpAt(i) =>
       \/ requests[i].conn \in links
       \/ \E j \in 1 .. Len(requests) :
            j > i /\ DownAt(j) /\ requests[j].conn = requests[i].conn
  /\ ~met =>
       /\ \A i \in 1 .. Len(requests) :
            (\A j \in 1 .. Len(requests) : j > i => ~UpAt(j) /\ ~DownAt(j)) =>
              /\ UpAt(i) => links = {requests[i].conn}
              /\ DownAt(i) => links = {}
       /\ (\A i \in 1 .. Len(requests) : ~UpAt(i) /\ ~DownAt(i)) =>
            links \subseteq {GATTS_CONN_ID}
  /\ ~met => \E p \in Peers \cup {NoId} : links \subseteq {p}

LEMMA InitPeer == Init => PeerInv
  BY DEF Init, PeerInv

\* Requests that report nobody.
Silent(new) ==
  /\ new \in Seq(Requests)
  /\ \A i \in 1 .. Len(new) : new[i].kind \notin {"up", "down"}

LEMMA SilentOne ==
  ASSUME NEW r \in Requests, r.kind \notin {"up", "down"}
  PROVE  Silent(<<r>>)
  BY DEF Silent

LEMMA SilentTwo ==
  ASSUME NEW r \in Requests, r.kind \notin {"up", "down"},
         NEW q \in Requests, q.kind \notin {"up", "down"}
  PROVE  Silent(<<r, q>>)
  BY DEF Silent

LEMMA SilentNone == Silent(<<>>)
  BY EmptySeq DEF Silent

\* They may be taken and added.
LEMMA OthersKeep ==
  ASSUME QueueTyped, PeerInv, NEW n \in {0, 1}, NEW new \in Seq(Requests),
         n <= Len(requests), Moved(n, new), Silent(new),
         n = 1 => ~UpAt(1) /\ ~DownAt(1),
         UNCHANGED <<GATTS_CONN_ID, links, met>>
  PROVE  PeerInv'
  <1> DEFINE kept == Len(requests) - n
  <1>1. /\ Len(requests) \in Nat /\ Len(new) \in Nat /\ kept \in Nat
        /\ Len(requests') = kept + Len(new)
        /\ \A i \in 1 .. kept : requests'[i] = requests[i + n]
        /\ \A i \in 1 .. Len(new) : requests'[kept + i] = new[i]
    BY LenProperties DEF Moved, QueueTyped
  <1>2. ASSUME NEW i \in 1 .. Len(requests'), UpAt(i)' \/ DownAt(i)'
        PROVE  /\ i \in 1 .. kept /\ i + n \in 1 .. Len(requests)
               /\ requests'[i] = requests[i + n]
    <2>1. CASE i \in 1 .. kept
      BY <1>1, <2>1
    <2>2. CASE i > kept
      <3>1. i - kept \in 1 .. Len(new) /\ kept + (i - kept) = i
        BY <1>1, <2>2
      <3>2. requests'[i] = new[i - kept]
        BY <1>1, <3>1
      <3> QED
        BY <1>2, <3>1, <3>2 DEF UpAt, DownAt, Silent
    <2> QED
      BY <1>1, <2>1, <2>2
  <1>3. ASSUME NEW i \in 1 .. Len(requests), UpAt(i) \/ DownAt(i)
        PROVE  /\ i - n \in 1 .. kept /\ i - n \in 1 .. Len(requests')
               /\ requests'[i - n] = requests[i]
    <2>1. i > n
      BY <1>1, <1>3
    <2>2. i - n \in 1 .. kept /\ (i - n) + n = i
      BY <1>1, <2>1
    <2> QED
      BY <1>1, <2>2
  <1> HIDE DEF kept
  <1>4. (GATTS_CONN_ID \in links \cup {NoId}
           \/ \E i \in 1 .. Len(requests) :
                DownAt(i) /\ requests[i].conn = GATTS_CONN_ID)'
    <2>1. CASE GATTS_CONN_ID \in links \cup {NoId}
      BY <2>1
    <2>2. ASSUME NEW i \in 1 .. Len(requests), DownAt(i),
                 requests[i].conn = GATTS_CONN_ID
          PROVE  \E j \in 1 .. Len(requests') :
                   DownAt(j)' /\ requests'[j].conn = GATTS_CONN_ID'
      <3>1. i - n \in 1 .. Len(requests') /\ requests'[i - n] = requests[i]
        BY <1>3, <2>2
      <3>2. DownAt(i - n)' /\ requests'[i - n].conn = GATTS_CONN_ID'
        BY <2>2, <3>1 DEF DownAt
      <3> QED
        BY <3>1, <3>2
    <2> QED
      BY <2>1, <2>2 DEF PeerInv
  <1>5. ASSUME NEW i \in 1 .. Len(requests'), UpAt(i)'
        PROVE  \/ requests'[i].conn \in links'
               \/ \E j \in 1 .. Len(requests') :
                    j > i /\ DownAt(j)' /\ requests'[j].conn = requests'[i].conn
    <2>1. /\ i + n \in 1 .. Len(requests) /\ requests'[i] = requests[i + n]
          /\ UpAt(i + n)
      BY <1>2, <1>5 DEF UpAt
    <2>2. CASE requests[i + n].conn \in links
      BY <2>1, <2>2
    <2>3. ASSUME NEW j \in 1 .. Len(requests), j > i + n, DownAt(j),
                 requests[j].conn = requests[i + n].conn
          PROVE  j - n \in 1 .. Len(requests') /\ j - n > i /\ DownAt(j - n)'
                 /\ requests'[j - n].conn = requests'[i].conn
      BY <1>1, <1>3, <2>1, <2>3 DEF DownAt
    <2> QED
      BY <2>1, <2>2, <2>3 DEF PeerInv
  <1>6. ASSUME ~met', NEW i \in 1 .. Len(requests'),
               \A j \in 1 .. Len(requests') : j > i => ~UpAt(j)' /\ ~DownAt(j)',
               UpAt(i)' \/ DownAt(i)'
        PROVE  /\ UpAt(i)' => links' = {requests'[i].conn}
               /\ DownAt(i)' => links' = {}
    <2>1. i + n \in 1 .. Len(requests) /\ requests'[i] = requests[i + n]
      BY <1>2, <1>6
    <2>2. ASSUME NEW j \in 1 .. Len(requests), j > i + n
          PROVE  ~UpAt(j) /\ ~DownAt(j)
      <3>1. SUFFICES ASSUME UpAt(j) \/ DownAt(j) PROVE FALSE
        OBVIOUS
      <3>2. /\ j - n \in 1 .. Len(requests') /\ j - n > i
            /\ requests'[j - n] = requests[j]
        BY <1>1, <1>3, <2>1, <2>2, <3>1
      <3> QED
        BY <1>6, <3>1, <3>2 DEF UpAt, DownAt
    <2> QED
      BY <1>6, <2>1, <2>2 DEF PeerInv, UpAt, DownAt
  <1>7. ASSUME ~met', \A i \in 1 .. Len(requests') : ~UpAt(i)' /\ ~DownAt(i)'
        PROVE  links' \subseteq {GATTS_CONN_ID'}
    <2>1. ASSUME NEW i \in 1 .. Len(requests) PROVE ~UpAt(i) /\ ~DownAt(i)
      BY <1>3, <1>7 DEF UpAt, DownAt
    <2> QED
      BY <1>7, <2>1 DEF PeerInv
  <1> QED
    BY <1>4, <1>5, <1>6, <1>7 DEF PeerInv

\* A peer comes or goes; it is told in the last report.
LEMMA PeerMoveKeeps ==
  ASSUME QueueTyped, PeerInv, NEW p \in Peers, Connect(p) \/ Disconnect(p)
  PROVE  PeerInv'
  <1> DEFINE last == Len(requests) + 1
             up == <<[kind |-> "up", conn |-> p]>>
             down == <<[kind |-> "down", conn |-> p]>>
  <1>a. /\ \/ Connect(p) /\ Moved(0, up)
           \/ Disconnect(p) /\ Moved(0, down)
        /\ UNCHANGED GATTS_CONN_ID
    BY PeerMoves DEF idVars
  <1>b. /\ Len(up) = 1 /\ up[1] = [kind |-> "up", conn |-> p]
        /\ Len(down) = 1 /\ down[1] = [kind |-> "down", conn |-> p]
    OBVIOUS
  <1>c. Len(requests) \in Nat
    BY LenProperties DEF QueueTyped
  <1> HIDE DEF up, down
  <1>1. /\ Len(requests) \in Nat /\ Len(requests') = last
        /\ \A i \in 1 .. Len(requests) : requests'[i] = requests[i]
        /\ UNCHANGED GATTS_CONN_ID
        /\ \/ Connect(p) /\ requests'[last] = [kind |-> "up", conn |-> p]
           \/ Disconnect(p) /\ requests'[last] = [kind |-> "down", conn |-> p]
    <2>1. CASE Connect(p) /\ Moved(0, up)
      BY <1>a, <1>b, <1>c, <2>1 DEF Moved
    <2>2. CASE Disconnect(p) /\ Moved(0, down)
      BY <1>a, <1>b, <1>c, <2>2 DEF Moved
    <2> QED
      BY <1>a, <2>1, <2>2
  <1>2. ASSUME NEW i \in 1 .. Len(requests')
        PROVE  i \in 1 .. Len(requests) \/ i = last
    BY <1>1
  <1>3. CASE Connect(p) /\ requests'[last] = [kind |-> "up", conn |-> p]
    <2>a. links' = links \cup {p} /\ (~met' => ~met /\ links = {})
      BY <1>3, Zenon DEF Connect
    <2>b. requests'[last].kind = "up" /\ requests'[last].conn = p
      BY <1>3
    <2>1. /\ links' = links \cup {p} /\ (~met' => ~met /\ links = {})
          /\ requests'[last].kind = "up" /\ requests'[last].conn = p
      BY <2>a, <2>b
    <2>2. (GATTS_CONN_ID \in links \cup {NoId}
             \/ \E i \in 1 .. Len(requests) :
                  DownAt(i) /\ requests[i].conn = GATTS_CONN_ID)'
      BY <1>1, <2>1 DEF PeerInv, DownAt
    <2>3. ASSUME NEW i \in 1 .. Len(requests'), UpAt(i)'
          PROVE  \/ requests'[i].conn \in links'
                 \/ \E j \in 1 .. Len(requests') :
                      j > i /\ DownAt(j)' /\ requests'[j].conn = requests'[i].conn
      <3>1. CASE i = last
        BY <2>1, <3>1
      <3>2. CASE i \in 1 .. Len(requests)
        <4>1. UpAt(i) /\ requests'[i] = requests[i]
          BY <1>1, <2>3, <3>2 DEF UpAt
        <4>2. CASE requests[i].conn \in links
          BY <2>1, <4>1, <4>2
        <4>3. CASE \E j \in 1 .. Len(requests) :
                     j > i /\ DownAt(j) /\ requests[j].conn = requests[i].conn
          BY <1>1, <4>1, <4>3 DEF DownAt
        <4> QED
          BY <3>2, <4>1, <4>2, <4>3 DEF PeerInv
      <3> QED
        BY <1>2, <3>1, <3>2
    <2>4. ASSUME ~met', NEW i \in 1 .. Len(requests'),
                 \A j \in 1 .. Len(requests') : j > i => ~UpAt(j)' /\ ~DownAt(j)'
          PROVE  i = last
      BY <1>1, <2>1, <2>4 DEF UpAt, DownAt
    <2> QED
      BY <1>1, <2>1, <2>2, <2>3, <2>4 DEF PeerInv, UpAt, DownAt
  <1>4. CASE Disconnect(p) /\ requests'[last] = [kind |-> "down", conn |-> p]
    <2>a. links' = links \ {p} /\ p \in links /\ met' = met
      BY <1>4 DEF Disconnect
    <2>b. requests'[last].kind = "down" /\ requests'[last].conn = p
      BY <1>4
    <2>1. /\ links' = links \ {p} /\ p \in links /\ met' = met
          /\ requests'[last].kind = "down" /\ requests'[last].conn = p
      BY <2>a, <2>b
    <2>2. (GATTS_CONN_ID \in links \cup {NoId}
             \/ \E i \in 1 .. Len(requests) :
                  DownAt(i) /\ requests[i].conn = GATTS_CONN_ID)'
      BY <1>1, <2>1 DEF PeerInv, DownAt
    <2>3. ASSUME NEW i \in 1 .. Len(requests'), UpAt(i)'
          PROVE  \/ requests'[i].conn \in links'
                 \/ \E j \in 1 .. Len(requests') :
                      j > i /\ DownAt(j)' /\ requests'[j].conn = requests'[i].conn
      <3>1. i \in 1 .. Len(requests) /\ UpAt(i) /\ requests'[i] = requests[i]
        BY <1>1, <1>2, <2>1, <2>3 DEF UpAt
      <3>2. CASE requests[i].conn = p
        BY <1>1, <2>1, <3>1, <3>2 DEF DownAt
      <3>3. CASE requests[i].conn \in links /\ requests[i].conn # p
        BY <2>1, <3>1, <3>3
      <3>4. CASE \E j \in 1 .. Len(requests) :
                   j > i /\ DownAt(j) /\ requests[j].conn = requests[i].conn
        BY <1>1, <3>1, <3>4 DEF DownAt
      <3> QED
        BY <3>1, <3>2, <3>3, <3>4 DEF PeerInv
    <2>4. ASSUME ~met', NEW i \in 1 .. Len(requests'),
                 \A j \in 1 .. Len(requests') : j > i => ~UpAt(j)' /\ ~DownAt(j)'
          PROVE  i = last
      BY <1>1, <2>1, <2>4 DEF UpAt, DownAt
    <2>5. ~met' => links' = {}
      BY <2>1 DEF PeerInv
    <2> QED
      BY <1>1, <2>1, <2>2, <2>3, <2>4, <2>5 DEF PeerInv, UpAt, DownAt
  <1> QED
    BY <1>1, <1>3, <1>4

\* The first report reaches btgatts_connection_cb.
LEMMA ReportKeeps ==
  ASSUME QueueTyped, PeerInv, ConnectionReported
  PROVE  PeerInv'
  <1>1. /\ \/ UpAt(1) /\ GATTS_CONN_ID' = requests[1].conn
           \/ DownAt(1) /\ GATTS_CONN_ID' = NoId
        /\ Moved(1, <<>>) /\ Len(requests) \in Nat \ {0}
        /\ requests[1] \in Requests
    BY NothingAsked DEF Took, UpAt, DownAt
  <1>2. UNCHANGED linkVars
    BY DEF ConnectionReported
  <1>3. /\ Len(requests') = Len(requests) - 1
        /\ \A i \in 1 .. Len(requests') : requests'[i] = requests[i + 1]
    BY <1>1 DEF Moved
  <1>4. ASSUME NEW j \in 1 .. Len(requests), j > 1
        PROVE  /\ j - 1 \in 1 .. Len(requests')
               /\ requests'[j - 1] = requests[j]
    BY <1>1, <1>3, <1>4
  <1>5. GATTS_CONN_ID' \in Peers \cup {NoId}
    BY <1>1 DEF Requests, UpAt
  <1>6. ASSUME NEW i \in 1 .. Len(requests), UpAt(i)
        PROVE  \/ requests[i].conn \in links'
               \/ \E j \in 1 .. Len(requests') :
                    /\ j > i - 1 /\ DownAt(j)'
                    /\ requests'[j].conn = requests[i].conn
    <2>1. CASE requests[i].conn \in links
      BY <1>2, <2>1 DEF linkVars
    <2>2. ASSUME NEW j \in 1 .. Len(requests), j > i, DownAt(j),
                 requests[j].conn = requests[i].conn
          PROVE  /\ j - 1 \in 1 .. Len(requests') /\ j - 1 > i - 1
                 /\ DownAt(j - 1)' /\ requests'[j - 1].conn = requests[i].conn
      BY <1>1, <1>4, <2>2 DEF DownAt
    <2> QED
      BY <1>6, <2>1, <2>2 DEF PeerInv
  <1>7. (GATTS_CONN_ID \in links \cup {NoId}
           \/ \E i \in 1 .. Len(requests) :
                DownAt(i) /\ requests[i].conn = GATTS_CONN_ID)'
    BY <1>1, <1>6
  <1>8. ASSUME NEW i \in 1 .. Len(requests'), UpAt(i)'
        PROVE  \/ requests'[i].conn \in links'
               \/ \E j \in 1 .. Len(requests') :
                    j > i /\ DownAt(j)' /\ requests'[j].conn = requests'[i].conn
    <2>1. /\ i + 1 \in 1 .. Len(requests) /\ UpAt(i + 1)
          /\ requests'[i] = requests[i + 1]
      BY <1>1, <1>3, <1>8 DEF UpAt
    <2> QED
      BY <1>6, <2>1
  <1>9. ASSUME ~met', NEW i \in 1 .. Len(requests'),
               \A j \in 1 .. Len(requests') : j > i => ~UpAt(j)' /\ ~DownAt(j)'
        PROVE  /\ UpAt(i)' => links' = {requests'[i].conn}
               /\ DownAt(i)' => links' = {}
    <2>1. i + 1 \in 1 .. Len(requests) /\ requests'[i] = requests[i + 1]
      BY <1>1, <1>3
    <2>2. ASSUME NEW j \in 1 .. Len(requests), j > i + 1
          PROVE  ~UpAt(j) /\ ~DownAt(j)
      <3>1. /\ j - 1 \in 1 .. Len(requests') /\ j - 1 > i
            /\ requests'[j - 1] = requests[j]
        BY <1>1, <1>4, <2>2
      <3> QED
        BY <1>9, <3>1 DEF UpAt, DownAt
    <2> QED
      BY <1>2, <1>9, <2>1, <2>2 DEF PeerInv, UpAt, DownAt, linkVars
  <1>10. ASSUME ~met', \A i \in 1 .. Len(requests') : ~UpAt(i)' /\ ~DownAt(i)'
         PROVE  links' \subseteq {GATTS_CONN_ID'}
    <2>1. ASSUME NEW j \in 1 .. Len(requests), j > 1
          PROVE  ~UpAt(j) /\ ~DownAt(j)
      BY <1>4, <1>10, <2>1 DEF UpAt, DownAt
    <2>2. /\ UpAt(1) => links = {requests[1].conn}
          /\ DownAt(1) => links = {}
      BY <1>1, <1>2, <1>10, <2>1 DEF PeerInv, linkVars
    <2> QED
      BY <1>1, <1>2, <2>2 DEF linkVars
  <1> QED
    BY <1>2, <1>5, <1>7, <1>8, <1>9, <1>10 DEF PeerInv, linkVars

LEMMA NextPeer == QueueTyped /\ PeerInv /\ [Next]_vars => PeerInv'
  <1> SUFFICES ASSUME QueueTyped, PeerInv, [Next]_vars PROVE PeerInv'
    OBVIOUS
  <1>0. requests \in Seq(Requests) /\ Len(requests) \in Nat
    BY LenProperties DEF QueueTyped
  <1>1. CASE Quiet
    BY <1>1 DEF Quiet, PeerInv, UpAt, DownAt, linkVars
  <1>2. CASE Asks
    <2>1. PICK new : Silent(new) /\ Moved(0, new)
      <3> DEFINE client == [kind |-> "client"]
                 listen == [kind |-> "listen", app |-> CLIENT_IF]
                 server == [kind |-> "server"]
                 service == [kind |-> "service", app |-> SERVER_IF]
      <3>1. /\ client \in Requests /\ listen \in Requests
            /\ server \in Requests /\ service \in Requests
        BY DEF QueueTyped, Requests
      <3>2. /\ client.kind = "client" /\ listen.kind = "listen"
            /\ server.kind = "server" /\ service.kind = "service"
        OBVIOUS
      <3>3. \/ Moved(0, <<>>) \/ Moved(0, <<client>>)
            \/ Moved(0, <<listen, server>>) \/ Moved(0, <<service>>)
        BY <1>2, AskMoves
      <3> HIDE DEF client, listen, server, service
      <3>4. /\ Silent(<<>>) /\ Silent(<<client>>)
            /\ Silent(<<listen, server>>) /\ Silent(<<service>>)
        BY <3>1, <3>2, SilentNone, SilentOne, SilentTwo
      <3> QED
        BY <3>3, <3>4, Zenon
    <2>2. UNCHANGED <<GATTS_CONN_ID, links, met>>
      BY <1>2, AskMoves DEF idVars, linkVars
    <2>3. new \in Seq(Requests)
      BY <2>1 DEF Silent
    <2> QED
      BY <1>0, <2>1, <2>2, <2>3, OthersKeep
  <1>3. ASSUME NEW p \in Peers, Connect(p) \/ Disconnect(p)
        PROVE  PeerInv'
    BY <1>3, PeerMoveKeeps
  <1>4. CASE Answers /\ ~ConnectionReported
    <2>1. PICK new, kind :
            Silent(new) /\ Took(kind, new) /\ kind \notin {"up", "down"}
      <3>1. CASE ServiceAdded
        <4>1. PICK added \in BOOLEAN :
                Took("service",
                  <<[kind |-> "char", app |-> SERVER_IF,
                     service |-> IF added THEN Len(services) + 1 ELSE NoHandle]>>)
          BY <3>1, ServiceAddedTook
        <4> DEFINE handle == IF added THEN Len(services) + 1 ELSE NoHandle
                   char == [kind |-> "char", app |-> SERVER_IF,
                            service |-> handle]
        <4>2. handle \in Nat
          BY LenProperties DEF QueueTyped, NoHandle
        <4>3. char \in Requests /\ char.kind = "char"
          BY <4>2 DEF QueueTyped, Requests
        <4> HIDE DEF handle, char
        <4>4. Took("service", <<char>>)
          BY <4>1 DEF handle, char
        <4>5. Silent(<<char>>)
          BY <4>3, SilentOne
        <4> QED
          BY <4>4, <4>5
      <3>2. CASE CharacteristicAdded
        <4> DEFINE start == [kind |-> "start", app |-> requests[1].app,
                             service |-> requests[1].service]
        <4>1. Took("char", <<start>>) /\ requests[1].app \in Int
              /\ requests[1].service \in Nat
          BY <3>2, CharacteristicAddedTook
        <4>2. start \in Requests /\ start.kind = "start"
          BY <4>1 DEF Requests
        <4> HIDE DEF start
        <4>3. Silent(<<start>>)
          BY <4>2, SilentOne
        <4> QED
          BY <4>1, <4>3
      <3>3. CASE ClientRegistered \/ ServerRegistered \/ Listens
                   \/ CharacteristicRefused \/ ServiceStarted
        BY <3>3, NothingAsked, SilentNone
      <3> QED
        BY <1>4, <3>1, <3>2, <3>3 DEF Answers
    <2>2. UNCHANGED <<GATTS_CONN_ID, linkVars>>
      BY <1>4 DEF Answers, ClientRegistered, ServerRegistered, Listens,
         ServiceAdded, CharacteristicAdded, CharacteristicRefused,
         ServiceStarted, idVars
    <2>3. /\ Moved(1, new) /\ 1 <= Len(requests) /\ ~UpAt(1) /\ ~DownAt(1)
          /\ new \in Seq(Requests)
      BY <1>0, <2>1 DEF Took, UpAt, DownAt, Silent
    <2> QED
      BY <2>1, <2>2, <2>3, OthersKeep DEF linkVars
  <1>5. CASE ConnectionReported
    BY <1>5, ReportKeeps
  <1> QED
    BY <1>1, <1>2, <1>3, <1>4, <1>5, StepKinds

\* Command 9 notifies no peer whose disconnection was reported, and knows the
\* one peer there is.
THEOREM PeerIsKnown == Spec => []PeerKnown
  <1>1. QueueTyped /\ PeerInv => PeerKnown
    <2> SUFFICES ASSUME QueueTyped, PeerInv PROVE PeerKnown
      OBVIOUS
    <2>1. DOMAIN requests = 1 .. Len(requests)
      BY LenProperties DEF QueueTyped
    <2>2. GATTS_CONN_ID \in links \cup {NoId}
            \cup {requests[i].conn :
                    i \in {j \in Reports : requests[j].kind = "down"}}
      BY <2>1 DEF PeerInv, Reports, DownAt
    <2>3. ~met /\ Reports = {} => links \subseteq {GATTS_CONN_ID}
      BY <2>1 DEF PeerInv, Reports, UpAt, DownAt
    <2> QED
      BY <2>2, <2>3 DEF PeerKnown
  <1> QED
    BY <1>1, InitQueue, NextQueue, InitPeer, NextPeer, PTL DEF Spec

-----------------------------------------------------------------------------
(* The ids the callbacks store, and the services.                          *)

IdInv ==
  /\ CLIENT_IF = NoId \/ IsApp(CLIENT_IF, "client")
  /\ SERVER_IF = NoId \/ IsApp(SERVER_IF, "server")
  /\ CHAR_HANDLE = NoId \/ CHAR_HANDLE \in DOMAIN chars
  /\ \A id \in DOMAIN apps : apps[id] = "server" => SERVER_IF # NoId
  /\ \A h \in DOMAIN services : IsApp(services[h], "server")
  /\ \A h \in DOMAIN chars : chars[h] \in DOMAIN services

\* The tables only grow.
Grows ==
  /\ \A id, role : IsApp(id, role) => IsApp(id, role)'
  /\ \A h \in DOMAIN services : h \in DOMAIN services' /\ services'[h] = services[h]

LEMMA AppendGrows ==
  ASSUME NEW S, NEW q \in Seq(S), NEW e \in S
  PROVE  /\ Append(q, e) \in Seq(S) /\ Len(Append(q, e)) = Len(q) + 1
         /\ DOMAIN Append(q, e) = DOMAIN q \cup {Len(q) + 1}
         /\ \A i \in DOMAIN q : Append(q, e)[i] = q[i]
         /\ Append(q, e)[Len(q) + 1] = e
         /\ Len(q) + 1 \in DOMAIN Append(q, e)
  BY AppendProperties, LenProperties

LEMMA InitId == Init => IdInv
  BY EmptySeq DEF Init, IdInv

LEMMA RegisteredId ==
  ASSUME QueueTyped, IdInv, ClientRegistered \/ ServerRegistered
  PROVE  IdInv' /\ Grows /\ UNCHANGED <<services, started>>
  <1>1. UNCHANGED <<services, chars, started, CHAR_HANDLE>>
    BY DEF ClientRegistered, ServerRegistered
  <1>2. CASE UNCHANGED <<apps, CLIENT_IF, SERVER_IF>>
    BY <1>1, <1>2 DEF IdInv, Grows, IsApp
  <1>3. ASSUME NEW role \in Roles, apps' = Append(apps, role)
        PROVE  /\ Len(apps') = Len(apps) + 1
               /\ DOMAIN apps' = DOMAIN apps \cup {Len(apps) + 1}
               /\ \A id \in DOMAIN apps : apps'[id] = apps[id]
               /\ IsApp(Len(apps), role)'
               /\ Grows
    <2>1. /\ Len(apps') = Len(apps) + 1
          /\ DOMAIN apps' = DOMAIN apps \cup {Len(apps) + 1}
          /\ \A id \in DOMAIN apps : apps'[id] = apps[id]
          /\ apps'[Len(apps) + 1] = role
      BY <1>3, AppendGrows DEF QueueTyped
    <2>2. IsApp(Len(apps), role)'
      BY <2>1 DEF IsApp
    <2>3. Grows
      BY <1>1, <2>1 DEF Grows, IsApp
    <2> QED
      BY <2>1, <2>2, <2>3
  <1>4. CASE /\ apps' = Append(apps, "client") /\ CLIENT_IF' = Len(apps')
             /\ SERVER_IF' = SERVER_IF
    <2>1. "client" \in Roles
      BY DEF Roles
    <2>2. /\ DOMAIN apps' = DOMAIN apps \cup {Len(apps) + 1}
          /\ \A id \in DOMAIN apps : apps'[id] = apps[id]
          /\ Len(apps') = Len(apps) + 1
          /\ IsApp(Len(apps), "client")'
          /\ Grows
      BY <1>3, <1>4, <2>1
    <2>3. IsApp(CLIENT_IF, "client")'
      BY <1>4, <2>2
    <2>4. \A id \in DOMAIN apps' : apps'[id] = "server" => SERVER_IF' # NoId
      BY <1>4, <2>2 DEF IdInv, IsApp
    <2> QED
      BY <1>1, <1>4, <2>2, <2>3, <2>4 DEF IdInv, Grows
  <1>5. CASE /\ apps' = Append(apps, "server") /\ SERVER_IF' = Len(apps')
             /\ CLIENT_IF' = CLIENT_IF
    <2>1. "server" \in Roles
      BY DEF Roles
    <2>2. /\ DOMAIN apps' = DOMAIN apps \cup {Len(apps) + 1}
          /\ Len(apps') = Len(apps) + 1
          /\ IsApp(Len(apps), "server")'
          /\ Grows
      BY <1>3, <1>5, <2>1
    <2>3. IsApp(SERVER_IF, "server")' /\ SERVER_IF' # NoId
      BY <1>5, <2>2, LenProperties DEF QueueTyped, NoId
    <2> QED
      BY <1>1, <1>5, <2>2, <2>3 DEF IdInv, Grows
  <1> QED
    BY <1>2, <1>4, <1>5 DEF ClientRegistered, ServerRegistered

LEMMA ServiceAddedId ==
  ASSUME QueueTyped, IdInv, ServiceAdded
  PROVE  IdInv' /\ Grows /\ UNCHANGED <<apps, started>>
  <1>1. UNCHANGED <<apps, chars, started, idVars>>
    BY DEF ServiceAdded
  <1>2. /\ requests[1] \in Requests /\ requests[1].kind = "service"
        /\ \/ services' = services
           \/ /\ IsApp(requests[1].app, "server")
              /\ services' = Append(services, requests[1].app)
    BY ServiceAddedTook DEF Took
  <1>3. CASE services' = services
    BY <1>1, <1>3 DEF IdInv, Grows, IsApp, idVars
  <1>4. CASE /\ IsApp(requests[1].app, "server")
             /\ services' = Append(services, requests[1].app)
    <2>1. requests[1].app \in Int
      BY <1>2 DEF Requests
    <2>2. /\ DOMAIN services' = DOMAIN services \cup {Len(services) + 1}
          /\ \A h \in DOMAIN services : services'[h] = services[h]
          /\ services'[Len(services) + 1] = requests[1].app
      BY <1>4, <2>1, AppendGrows DEF QueueTyped
    <2>3. Grows
      BY <1>1, <2>2 DEF Grows, IsApp
    <2>4. \A h \in DOMAIN services' : IsApp(services'[h], "server")
      BY <1>4, <2>2 DEF IdInv
    <2> QED
      BY <1>1, <2>2, <2>3, <2>4 DEF IdInv, IsApp, idVars
  <1> QED
    BY <1>1, <1>2, <1>3, <1>4

LEMMA CharacteristicAddedId ==
  ASSUME QueueTyped, IdInv, CharacteristicAdded
  PROVE  IdInv' /\ Grows /\ UNCHANGED <<apps, services, started>>
  <1>1. /\ UNCHANGED <<apps, services, started, CLIENT_IF, SERVER_IF>>
        /\ chars' = Append(chars, requests[1].service)
        /\ CHAR_HANDLE' = Len(chars')
    BY DEF CharacteristicAdded, Request
  <1>2. requests[1].service \in Int /\ requests[1].service \in DOMAIN services
    BY CharacteristicAddedTook
  <1>3. /\ Len(chars') = Len(chars) + 1
        /\ DOMAIN chars' = DOMAIN chars \cup {Len(chars) + 1}
        /\ \A h \in DOMAIN chars : chars'[h] = chars[h]
        /\ chars'[Len(chars) + 1] = requests[1].service
    BY <1>1, <1>2, AppendGrows DEF QueueTyped
  <1> QED
    BY <1>1, <1>2, <1>3 DEF IdInv, Grows, IsApp

LEMMA NextId ==
  ASSUME QueueTyped, IdInv, [Next]_vars
  PROVE  IdInv' /\ Grows
  <1>1. CASE UNCHANGED <<CLIENT_IF, SERVER_IF, CHAR_HANDLE, apps, services, chars>>
    BY <1>1 DEF IdInv, Grows, IsApp
  <1>2. CASE ClientRegistered \/ ServerRegistered
    BY <1>2, RegisteredId
  <1>3. CASE ServiceAdded
    BY <1>3, ServiceAddedId
  <1>4. CASE CharacteristicAdded
    BY <1>4, CharacteristicAddedId
  <1>5. CASE Quiet \/ Asks
    BY <1>1, <1>5, AskMoves DEF Quiet, idVars, tableVars
  <1>6. ASSUME NEW p \in Peers, Connect(p) \/ Disconnect(p)
        PROVE  IdInv' /\ Grows
    BY <1>1, <1>6, PeerMoves DEF idVars, tableVars
  <1>7. CASE Listens \/ CharacteristicRefused \/ ServiceStarted
               \/ ConnectionReported
    BY <1>1, <1>7 DEF Listens, CharacteristicRefused, ServiceStarted,
       ConnectionReported, idVars, tableVars
  <1> QED
    BY <1>2, <1>3, <1>4, <1>5, <1>6, <1>7, StepKinds DEF Answers

-----------------------------------------------------------------------------
(* Under which server a service is started.                                *)

Owns(r) ==
  /\ r.service \in DOMAIN services /\ IsApp(r.app, "server")
  /\ ~hasty => services[r.service] = r.app

GoodRequest(r) ==
  /\ r.kind = "char" => r.service = NoHandle \/ Owns(r)
  /\ r.kind = "start" => Owns(r)

RequestInv == \A i \in 1 .. Len(requests) : GoodRequest(requests[i])

\* Without haste, a service waits for no registration and is added to the
\* server SERVER_IF names when its answer comes.
OrderInv ==
  ~hasty => \A i \in 1 .. Len(requests) : requests[i].kind = "service" =>
    /\ requests[i].app = SERVER_IF
    /\ \A j \in 1 .. Len(requests) : j < i => requests[j].kind # "server"

StartedInv ==
  /\ started \subseteq (DOMAIN apps) \X (DOMAIN services)
  /\ ~hasty => \A s \in started : services[s[2]] = s[1]

OwnerInv == RequestInv /\ OrderInv /\ StartedInv

LEMMA InitOwner == Init => OwnerInv
  BY DEF Init, OwnerInv, RequestInv, OrderInv, StartedInv

LEMMA OwnsStays ==
  ASSUME NEW r, Owns(r), Grows, ~hasty' => ~hasty
  PROVE  Owns(r)'
  BY DEF Owns, Grows

LEMMA RequestKeeps ==
  ASSUME QueueTyped, RequestInv, Grows, ~hasty' => ~hasty,
         NEW n \in {0, 1}, NEW new \in Seq(Requests), n <= Len(requests),
         Moved(n, new), \A i \in 1 .. Len(new) : GoodRequest(new[i])'
  PROVE  RequestInv'
  <1> SUFFICES ASSUME NEW i \in 1 .. Len(requests') PROVE GoodRequest(requests[i])'
    BY DEF RequestInv
  <1> DEFINE kept == Len(requests) - n
  <1>1. /\ Len(requests) \in Nat /\ Len(new) \in Nat /\ kept \in Nat
        /\ Len(requests') = kept + Len(new)
        /\ \A k \in 1 .. kept : requests'[k] = requests[k + n]
        /\ \A k \in 1 .. Len(new) : requests'[kept + k] = new[k]
    BY LenProperties DEF Moved, QueueTyped
  <1>2. CASE i \in 1 .. kept
    <2>1. PICK r : r = requests[i + n]
      OBVIOUS
    <2>2. requests'[i] = r /\ i + n \in 1 .. Len(requests)
      BY <1>1, <1>2, <2>1
    <2>3. GoodRequest(r)
      BY <2>1, <2>2 DEF RequestInv
    <2>4. GoodRequest(r)'
      BY <2>3, OwnsStays DEF GoodRequest
    <2> QED
      BY <2>2, <2>4 DEF GoodRequest, Owns, IsApp
  <1>3. CASE i > kept
    <2>1. PICK k \in 1 .. Len(new) : kept + k = i
      <3>1. i - kept \in 1 .. Len(new) /\ kept + (i - kept) = i
        BY <1>1, <1>3
      <3> QED
        BY <3>1
    <2>2. requests'[i] = new[k] /\ GoodRequest(new[k])'
      BY <1>1, <2>1
    <2> QED
      BY <2>2 DEF GoodRequest, Owns, IsApp
  <1> QED
    BY <1>1, <1>2, <1>3

LEMMA OrderKeeps ==
  ASSUME QueueTyped, OrderInv, ~hasty' => ~hasty, SERVER_IF' = SERVER_IF,
         NEW n \in {0, 1}, NEW new \in Seq(Requests), n <= Len(requests),
         Moved(n, new), \A i \in 1 .. Len(new) : new[i].kind # "service"
  PROVE  OrderInv'
  <1> SUFFICES ASSUME ~hasty', NEW i \in 1 .. Len(requests'),
                      requests'[i].kind = "service"
               PROVE  /\ requests'[i].app = SERVER_IF'
                      /\ \A j \in 1 .. Len(requests') : j < i =>
                           requests'[j].kind # "server"
    BY DEF OrderInv
  <1> DEFINE kept == Len(requests) - n
  <1>1. /\ Len(requests) \in Nat /\ Len(new) \in Nat /\ kept \in Nat
        /\ Len(requests') = kept + Len(new)
        /\ \A k \in 1 .. kept : requests'[k] = requests[k + n]
        /\ \A k \in 1 .. Len(new) : requests'[kept + k] = new[k]
    BY LenProperties DEF Moved, QueueTyped
  <1>2. i \in 1 .. kept
    <2> SUFFICES ASSUME i > kept PROVE FALSE
      BY <1>1
    <2>1. i - kept \in 1 .. Len(new) /\ kept + (i - kept) = i
      BY <1>1
    <2> QED
      BY <1>1, <2>1
  <1>3. requests'[i] = requests[i + n] /\ i + n \in 1 .. Len(requests)
    BY <1>1, <1>2
  <1>4. /\ requests[i + n].app = SERVER_IF
        /\ \A j \in 1 .. Len(requests) : j < i + n => requests[j].kind # "server"
    BY <1>3 DEF OrderInv
  <1>5. ASSUME NEW j \in 1 .. Len(requests'), j < i
        PROVE  requests'[j].kind # "server"
    <2>1. /\ requests'[j] = requests[j + n] /\ j + n \in 1 .. Len(requests)
          /\ j + n < i + n
      BY <1>1, <1>2, <1>5
    <2> QED
      BY <1>4, <2>1
  <1> QED
    BY <1>3, <1>4, <1>5

LEMMA StartedKeeps ==
  ASSUME StartedInv, Grows, ~hasty' => ~hasty, started' = started
  PROVE  StartedInv'
  <1>1. ASSUME NEW id \in DOMAIN apps PROVE id \in DOMAIN apps'
    BY DEF Grows, IsApp
  <1>2. ASSUME NEW s \in started
        PROVE  /\ s \in (DOMAIN apps) \X (DOMAIN services)
               /\ s[2] \in DOMAIN services /\ services'[s[2]] = services[s[2]]
    BY DEF StartedInv, Grows
  <1>3. started' \subseteq (DOMAIN apps') \X (DOMAIN services')
    BY <1>1 DEF StartedInv, Grows
  <1> QED
    BY <1>2, <1>3 DEF StartedInv

\* What a command asks for neither owns nor starts anything.
Plain(new) ==
  /\ new \in Seq(Requests)
  /\ \A i \in 1 .. Len(new) : new[i].kind \notin {"char", "start"}

LEMMA PlainOne ==
  ASSUME NEW r \in Requests, r.kind \notin {"char", "start"}
  PROVE  Plain(<<r>>)
  BY DEF Plain

LEMMA PlainTwo ==
  ASSUME NEW r \in Requests, r.kind \notin {"char", "start"},
         NEW q \in Requests, q.kind \notin {"char", "start"}
  PROVE  Plain(<<r, q>>)
  BY DEF Plain

LEMMA PlainNone == Plain(<<>>)
  BY EmptySeq DEF Plain

\* The last request is a service for SERVER_IF, or none of the new is one.
LEMMA AsksPlain ==
  ASSUME QueueTyped, Asks
  PROVE  \E new :
           /\ Moved(0, new) /\ Plain(new)
           /\ \/ \A i \in 1 .. Len(new) : new[i].kind # "service"
              \/ /\ InitServerCommand /\ Len(new) = 1
                 /\ new[1].kind = "service" /\ new[1].app = SERVER_IF
  <1> DEFINE client == [kind |-> "client"]
             listen == [kind |-> "listen", app |-> CLIENT_IF]
             server == [kind |-> "server"]
             service == [kind |-> "service", app |-> SERVER_IF]
  <1>1. /\ client \in Requests /\ listen \in Requests
        /\ server \in Requests /\ service \in Requests
    BY DEF QueueTyped, Requests
  <1>2. /\ client.kind = "client" /\ listen.kind = "listen"
        /\ server.kind = "server" /\ service.kind = "service"
        /\ service.app = SERVER_IF
    OBVIOUS
  <1>3. \/ Moved(0, <<>>) \/ Moved(0, <<client>>)
        \/ Moved(0, <<listen, server>>)
        \/ InitServerCommand /\ Moved(0, <<service>>)
    BY AskMoves
  <1> HIDE DEF client, listen, server, service
  <1>4. /\ Plain(<<>>) /\ Plain(<<client>>) /\ Plain(<<listen, server>>)
        /\ Plain(<<service>>)
    BY <1>1, <1>2, PlainNone, PlainOne, PlainTwo
  <1>5. /\ \A i \in 1 .. Len(<<>>) : <<>>[i].kind # "service"
        /\ \A i \in 1 .. Len(<<client>>) : <<client>>[i].kind # "service"
        /\ \A i \in 1 .. Len(<<listen, server>>) :
             <<listen, server>>[i].kind # "service"
    BY <1>2
  <1>6. /\ Len(<<service>>) = 1 /\ <<service>>[1].kind = "service"
        /\ <<service>>[1].app = SERVER_IF
    BY <1>2
  <1> QED
    BY <1>3, <1>4, <1>5, <1>6, Zenon

\* The commands.  Command 8 is in haste exactly when a registration waits.
LEMMA AsksOwner ==
  ASSUME QueueTyped, OwnerInv, Grows, Asks
  PROVE  OwnerInv'
  <1>1. PICK new : /\ Moved(0, new) /\ Plain(new)
                   /\ \/ \A i \in 1 .. Len(new) : new[i].kind # "service"
                      \/ /\ InitServerCommand /\ Len(new) = 1
                         /\ new[1].kind = "service" /\ new[1].app = SERVER_IF
    BY AsksPlain
  <1>2. UNCHANGED <<SERVER_IF, started>>
    BY AskMoves DEF idVars, tableVars
  <1>3. ASSUME InitServerCommand, ~hasty'
        PROVE  ~hasty /\ \A i \in DOMAIN requests : requests[i].kind # "server"
    BY <1>3, Zenon DEF InitServerCommand
  <1>4. ~hasty' => ~hasty
    BY <1>3 DEF Asks, RegisterClientCommand, AdvertiseCommand, NotifyCommand
  <1>5. StartedInv'
    BY <1>2, <1>4, StartedKeeps DEF OwnerInv
  <1>6. /\ Len(requests) \in Nat /\ DOMAIN requests = 1 .. Len(requests)
        /\ new \in Seq(Requests)
    BY <1>1, LenProperties DEF QueueTyped, Plain
  <1>7. RequestInv'
    <2>1. ASSUME NEW i \in 1 .. Len(new) PROVE GoodRequest(new[i])'
      BY <1>1 DEF Plain, GoodRequest
    <2> QED
      BY <1>1, <1>4, <1>6, <2>1, RequestKeeps DEF OwnerInv
  <1>8. OrderInv'
    <2>1. CASE \A i \in 1 .. Len(new) : new[i].kind # "service"
      BY <1>1, <1>2, <1>4, <1>6, <2>1, OrderKeeps DEF OwnerInv
    <2>2. CASE /\ InitServerCommand /\ Len(new) = 1
               /\ new[1].kind = "service" /\ new[1].app = SERVER_IF
      <3> SUFFICES ASSUME ~hasty', NEW i \in 1 .. Len(requests'),
                          requests'[i].kind = "service"
                   PROVE  /\ requests'[i].app = SERVER_IF'
                          /\ \A j \in 1 .. Len(requests') : j < i =>
                               requests'[j].kind # "server"
        BY DEF OrderInv
      <3>1. /\ Len(requests') = Len(requests) + 1
            /\ \A k \in 1 .. Len(requests) : requests'[k] = requests[k]
            /\ requests'[Len(requests) + 1] = new[1]
        BY <1>1, <1>6, <2>2 DEF Moved
      <3>2. ~hasty /\ \A k \in 1 .. Len(requests) : requests[k].kind # "server"
        BY <1>3, <1>6, <2>2
      <3>3. requests'[i].app = SERVER_IF
        <4>1. CASE i = Len(requests) + 1
          BY <2>2, <3>1, <4>1
        <4>2. CASE i \in 1 .. Len(requests)
          BY <3>1, <3>2, <4>2 DEF OwnerInv, OrderInv
        <4> QED
          BY <1>6, <3>1, <4>1, <4>2
      <3>4. ASSUME NEW j \in 1 .. Len(requests'), j < i
            PROVE  requests'[j].kind # "server"
        BY <1>6, <3>1, <3>2, <3>4
      <3> QED
        BY <1>2, <3>3, <3>4
    <2> QED
      BY <1>1, <2>1, <2>2
  <1> QED
    BY <1>5, <1>7, <1>8 DEF OwnerInv

\* The peers.
LEMMA PeersOwner ==
  ASSUME QueueTyped, OwnerInv, Grows, NEW p \in Peers, Connect(p) \/ Disconnect(p)
  PROVE  OwnerInv'
  <1> DEFINE up == [kind |-> "up", conn |-> p]
             down == [kind |-> "down", conn |-> p]
  <1>1. /\ up \in Requests /\ down \in Requests
        /\ up.kind = "up" /\ down.kind = "down"
    BY DEF Requests
  <1>2. /\ Moved(0, <<up>>) \/ Moved(0, <<down>>)
        /\ UNCHANGED <<SERVER_IF, started, hasty>>
    BY PeerMoves DEF idVars, tableVars
  <1> HIDE DEF up, down
  <1>3. PICK new : /\ Moved(0, new) /\ Plain(new)
                   /\ \A i \in 1 .. Len(new) : new[i].kind # "service"
    <2>1. Plain(<<up>>) /\ Plain(<<down>>)
      BY <1>1, PlainOne
    <2>2. /\ \A i \in 1 .. Len(<<up>>) : <<up>>[i].kind # "service"
          /\ \A i \in 1 .. Len(<<down>>) : <<down>>[i].kind # "service"
      BY <1>1
    <2> QED
      BY <1>2, <2>1, <2>2, Zenon
  <1>4. /\ Len(requests) \in Nat /\ new \in Seq(Requests)
        /\ \A i \in 1 .. Len(new) : GoodRequest(new[i])'
    BY <1>3, LenProperties DEF QueueTyped, Plain, GoodRequest
  <1>5. RequestInv'
    BY <1>2, <1>3, <1>4, RequestKeeps DEF OwnerInv
  <1>6. OrderInv'
    BY <1>2, <1>3, <1>4, OrderKeeps DEF OwnerInv
  <1> QED
    BY <1>2, <1>5, <1>6, StartedKeeps DEF OwnerInv

\* The callbacks that ask for nothing.
LEMMA NothingOwner ==
  ASSUME QueueTyped, OwnerInv, Grows,
         \/ ClientRegistered \/ ServerRegistered \/ Listens
         \/ CharacteristicRefused \/ ServiceStarted \/ ConnectionReported
  PROVE  OwnerInv'
  <1>1. /\ Moved(1, <<>>) /\ Len(requests) \in Nat \ {0} /\ UNCHANGED hasty
        /\ ServerRegistered => requests[1].kind = "server"
        /\ ServiceStarted => requests[1].kind = "start"
    BY NothingAsked DEF Took
  <1>2. PICK new : new = <<>>
    OBVIOUS
  <1>a. /\ new \in Seq(Requests) /\ Len(new) = 0 /\ 1 <= Len(requests)
        /\ Moved(1, new) /\ 1 \in {0, 1} /\ (~hasty' => ~hasty)
    BY <1>1, <1>2, EmptySeq
  <1>b. /\ \A i \in 1 .. Len(new) : GoodRequest(new[i])'
        /\ \A i \in 1 .. Len(new) : new[i].kind # "service"
    BY <1>a
  <1>3. RequestInv'
    BY <1>a, <1>b, RequestKeeps DEF OwnerInv
  <1>4. OrderInv'
    <2>1. CASE ServerRegistered
      <3>1. ASSUME ~hasty, NEW i \in 1 .. Len(requests)
            PROVE  requests[i].kind # "service"
        <4>1. CASE i = 1
          BY <1>1, <2>1, <4>1
        <4>2. CASE i > 1
          BY <1>1, <2>1, <3>1, <4>2 DEF OwnerInv, OrderInv
        <4> QED
          BY <1>1, <4>1, <4>2
      <3>2. /\ Len(requests') = Len(requests) - 1
            /\ \A i \in 1 .. Len(requests) - 1 : requests'[i] = requests[i + 1]
        BY <1>1, <1>a DEF Moved
      <3>3. ASSUME ~hasty', NEW i \in 1 .. Len(requests')
            PROVE  requests'[i].kind # "service"
        BY <1>1, <3>1, <3>2, <3>3
      <3> QED
        BY <3>3 DEF OrderInv
    <2>2. CASE ~ServerRegistered
      <3>1. SERVER_IF' = SERVER_IF
        BY <2>2 DEF ClientRegistered, Listens, CharacteristicRefused,
           ServiceStarted, ConnectionReported, idVars
      <3> QED
        BY <1>a, <1>b, <3>1, OrderKeeps DEF OwnerInv
    <2> QED
      BY <2>1, <2>2
  <1>5. StartedInv'
    <2>1. CASE ServiceStarted
      <3>1. /\ started' = started \cup {<<requests[1].app, requests[1].service>>}
            /\ UNCHANGED <<apps, services>>
        BY <2>1 DEF ServiceStarted, Request
      <3>2. Owns(requests[1])
        BY <1>1, <2>1 DEF OwnerInv, RequestInv, GoodRequest
      <3> QED
        BY <1>1, <3>1, <3>2 DEF OwnerInv, StartedInv, Owns, IsApp
    <2>2. CASE ~ServiceStarted
      <3>1. started' = started
        BY <2>2 DEF ClientRegistered, ServerRegistered, Listens,
           CharacteristicRefused, ConnectionReported, tableVars
      <3> QED
        BY <1>1, <3>1, StartedKeeps DEF OwnerInv
    <2> QED
      BY <2>1, <2>2
  <1> QED
    BY <1>3, <1>4, <1>5 DEF OwnerInv

\* btgatts_service_added_cb: without haste SERVER_IF is still the server the
\* service was added to.
LEMMA ServiceAddedOwner ==
  ASSUME QueueTyped, IdInv, IdInv', OwnerInv, Grows, ServiceAdded
  PROVE  OwnerInv'
  <1>1. PICK added \in BOOLEAN :
          /\ Took("service",
               <<[kind |-> "char", app |-> SERVER_IF,
                  service |-> IF added THEN Len(services) + 1 ELSE NoHandle]>>)
          /\ added => IsApp(requests[1].app, "server")
          /\ services' = IF added THEN Append(services, requests[1].app)
                                  ELSE services
    BY ServiceAddedTook
  <1>2. PICK handle : handle = IF added THEN Len(services) + 1 ELSE NoHandle
    OBVIOUS
  <1>3. PICK char : char = [kind |-> "char", app |-> SERVER_IF, service |-> handle]
    OBVIOUS
  <1>4. /\ Took("service", <<char>>) /\ UNCHANGED <<SERVER_IF, apps, started>>
    BY <1>1, <1>2, <1>3 DEF ServiceAdded, idVars
  <1>5. handle \in Nat /\ Len(services) \in Nat
    BY <1>2, LenProperties DEF QueueTyped, NoHandle
  <1>6. /\ char \in Requests /\ char.kind = "char" /\ char.app = SERVER_IF
        /\ char.service = handle
    BY <1>3, <1>5 DEF QueueTyped, Requests
  <1>7. /\ Moved(1, <<char>>) /\ UNCHANGED hasty
        /\ Len(requests) \in Nat \ {0}
        /\ requests[1] \in Requests /\ requests[1].kind = "service"
    BY <1>4 DEF Took
  <1>8. ~hasty => requests[1].app = SERVER_IF
    BY <1>7 DEF OwnerInv, OrderInv
  <1>9. GoodRequest(char)'
    <2>1. CASE ~added
      BY <1>2, <1>6, <2>1 DEF GoodRequest
    <2>2. CASE added
      <3>1. requests[1].app \in Int
        BY <1>7 DEF Requests
      <3>2. services' = Append(services, requests[1].app)
        BY <1>1, <2>2
      <3>3. /\ handle \in DOMAIN services'
            /\ services'[handle] = requests[1].app
        BY <1>2, <2>2, <3>1, <3>2, AppendGrows DEF QueueTyped
      <3>4. IsApp(SERVER_IF, "server")
        BY <1>1, <2>2 DEF IdInv, IsApp
      <3>5. IsApp(char.app, "server")'
        BY <1>4, <1>6, <3>4 DEF IsApp
      <3>6. Owns(char)'
        BY <1>6, <1>7, <1>8, <3>3, <3>5 DEF Owns
      <3> QED
        BY <1>6, <3>6 DEF GoodRequest
    <2> QED
      BY <2>1, <2>2
  <1>10. PICK new : new = <<char>>
    OBVIOUS
  <1>a. /\ new \in Seq(Requests) /\ Moved(1, new) /\ 1 <= Len(requests)
        /\ 1 \in {0, 1} /\ (~hasty' => ~hasty)
    BY <1>6, <1>7, <1>10
  <1>c. \A i \in 1 .. Len(new) : new[i] = char
    BY <1>10
  <1>b. /\ \A i \in 1 .. Len(new) : GoodRequest(new[i])'
        /\ \A i \in 1 .. Len(new) : new[i].kind # "service"
    BY <1>6, <1>9, <1>c
  <1>11. RequestInv'
    BY <1>a, <1>b, RequestKeeps DEF OwnerInv
  <1>12. OrderInv'
    BY <1>4, <1>a, <1>b, OrderKeeps DEF OwnerInv
  <1> QED
    BY <1>4, <1>7, <1>11, <1>12, StartedKeeps DEF OwnerInv

\* btgatts_characteristic_added_cb starts the service of the characteristic.
LEMMA CharacteristicAddedOwner ==
  ASSUME QueueTyped, OwnerInv, Grows, CharacteristicAdded
  PROVE  OwnerInv'
  <1>1. PICK start : start = [kind |-> "start", app |-> requests[1].app,
                              service |-> requests[1].service]
    OBVIOUS
  <1>2. /\ Took("char", <<start>>) /\ requests[1].app \in Int
        /\ requests[1].service \in DOMAIN services
        /\ requests[1].service \in Nat
    BY <1>1, CharacteristicAddedTook
  <1>3. /\ start \in Requests /\ start.kind = "start"
        /\ start.app = requests[1].app /\ start.service = requests[1].service
    BY <1>1, <1>2 DEF Requests
  <1>4. /\ Moved(1, <<start>>) /\ UNCHANGED <<hasty, SERVER_IF, apps, services, started>>
        /\ Len(requests) \in Nat \ {0} /\ requests[1].kind = "char"
    BY <1>2 DEF Took, CharacteristicAdded
  <1>5. requests[1].service # NoHandle
    BY <1>2, LenProperties DEF QueueTyped, NoHandle
  <1>6. Owns(requests[1])
    BY <1>4, <1>5 DEF OwnerInv, RequestInv, GoodRequest
  <1>7. Owns(start)
    BY <1>3, <1>6 DEF Owns
  <1>8. GoodRequest(start)'
    BY <1>3, <1>4, <1>7, OwnsStays DEF GoodRequest
  <1>9. PICK new : new = <<start>>
    OBVIOUS
  <1>a. /\ new \in Seq(Requests) /\ Moved(1, new) /\ 1 <= Len(requests)
        /\ 1 \in {0, 1} /\ (~hasty' => ~hasty)
    BY <1>3, <1>4, <1>9
  <1>c. \A i \in 1 .. Len(new) : new[i] = start
    BY <1>9
  <1>b. /\ \A i \in 1 .. Len(new) : GoodRequest(new[i])'
        /\ \A i \in 1 .. Len(new) : new[i].kind # "service"
    BY <1>3, <1>8, <1>c
  <1>10. RequestInv'
    BY <1>a, <1>b, RequestKeeps DEF OwnerInv
  <1>11. OrderInv'
    BY <1>4, <1>a, <1>b, OrderKeeps DEF OwnerInv
  <1> QED
    BY <1>4, <1>10, <1>11, StartedKeeps DEF OwnerInv

LEMMA NextOwner ==
  QueueTyped /\ IdInv /\ IdInv' /\ OwnerInv /\ [Next]_vars => OwnerInv'
  <1> SUFFICES ASSUME QueueTyped, IdInv, IdInv', OwnerInv, [Next]_vars
               PROVE  OwnerInv'
    OBVIOUS
  <1>1. Grows
    BY NextId
  <1>2. CASE Quiet /\ UNCHANGED hasty
    BY <1>2 DEF Quiet, OwnerInv, RequestInv, OrderInv, StartedInv, GoodRequest,
       Owns, IsApp
  <1> QED
    BY <1>1, <1>2, StepKinds, AsksOwner, PeersOwner, NothingOwner,
       ServiceAddedOwner, CharacteristicAddedOwner DEF Answers

StackInv == QueueTyped /\ IdInv /\ OwnerInv

THEOREM StackInvariance == Spec => []StackInv
  <1>1. Init => StackInv
    BY InitQueue, InitId, InitOwner DEF StackInv
  <1>2. StackInv /\ [Next]_vars => StackInv'
    BY NextQueue, NextId, NextOwner DEF StackInv
  <1> QED
    BY <1>1, <1>2, PTL DEF Spec

\* A service is started under the server it was added to, unless command 8 did
\* not wait for the answer to command 7.
THEOREM ServiceOwner == Spec => []ServiceUnderOwner
  <1>1. StackInv => ServiceUnderOwner
    BY DEF StackInv, OwnerInv, StartedInv, ServiceUnderOwner
  <1> QED
    BY <1>1, StackInvariance, PTL

-----------------------------------------------------------------------------
(* The types.                                                              *)

FlagInv ==
  /\ sBtInterface \in BOOLEAN /\ sGattIf \in BOOLEAN
  /\ callbacks \in BOOLEAN /\ gattCallbacks \in BOOLEAN
  /\ listening \in BOOLEAN /\ hasty \in BOOLEAN /\ met \in BOOLEAN

LEMMA InitFlags == Init => FlagInv
  BY Zenon DEF Init, FlagInv

LEMMA ConsoleFlags ==
  ASSUME FlagInv, Load \/ ConsoleStep \/ EndOfInput
  PROVE  FlagInv'
  <1> USE DEF FlagInv, pointerVars, tableVars, linkVars
  <1>1. CASE Load
    BY <1>1, Zenon DEF Load
  <1>2. CASE InitStack
    BY <1>2, Zenon DEF InitStack
  <1>3. CASE GetGatt
    BY <1>3, Zenon DEF GetGatt
  <1>4. CASE InitGatt
    BY <1>4, Zenon DEF InitGatt
  <1>5. CASE Unload \/ EndOfInput
    BY <1>5, Zenon DEF Unload, EndOfInput
  <1> QED
    BY <1>1, <1>2, <1>3, <1>4, <1>5 DEF ConsoleStep

LEMMA OtherFlags ==
  ASSUME FlagInv, \/ Command \/ AdapterOn \/ AdapterOff \/ PairingRequest
                  \/ GattCallback \/ \E p \in Peers : Connect(p) \/ Disconnect(p)
  PROVE  FlagInv'
  <1> USE DEF FlagInv, pointerVars, tableVars, linkVars
  <1>1. CASE InitServerCommand
    BY <1>1, Zenon DEF InitServerCommand, Ask
  <1>2. CASE Command /\ ~InitServerCommand
    BY <1>2, Zenon DEF Command, OtherCommand, Quit, EnableCommand,
       DisableCommand, RegisterClientCommand, AdvertiseCommand, NoGatt,
       NotifyCommand, Ask
  <1>3. CASE AdapterOn \/ AdapterOff \/ PairingRequest
    BY <1>3, Zenon DEF AdapterOn, AdapterOff, PairingRequest
  <1>4. CASE Listens
    BY <1>4, Zenon DEF Listens, Answer
  <1>5. CASE GattCallback /\ ~Listens
    BY <1>5, Zenon DEF GattCallback, ClientRegistered, ServerRegistered,
       ServiceAdded, CharacteristicAdded, CharacteristicRefused,
       ServiceStarted, ConnectionReported, WriteRequest, Answer
  <1>6. ASSUME NEW p \in Peers, Connect(p) \/ Disconnect(p)
        PROVE  FlagInv'
    BY <1>6, Zenon DEF Connect, Disconnect
  <1> QED
    BY <1>1, <1>2, <1>3, <1>4, <1>5, <1>6

LEMMA NextFlags == FlagInv /\ [Next]_vars => FlagInv'
  <1>1. CASE UNCHANGED vars
    BY <1>1, Zenon DEF vars, FlagInv, pointerVars, tableVars, linkVars
  <1> QED
    BY <1>1, ConsoleFlags, OtherFlags DEF Next

\* The counter of connections, and who is blamed for a crash.
CountInv ==
  /\ linked \in 0 .. MaxLinks
  /\ crashed \in {"none", "command", "adapter", "pairing", "gatt"}

LEMMA NextCount == CountInv /\ [Next]_vars => CountInv'
  <1> SUFFICES ASSUME CountInv, [Next]_vars PROVE CountInv'
    OBVIOUS
  <1>1. crashed' \in {"none", "command", "adapter", "pairing", "gatt"}
    BY DEF CountInv, Next, vars, Load, ConsoleStep, InitStack, GetGatt,
       InitGatt, Unload, EndOfInput, Command, OtherCommand, Quit,
       EnableCommand, DisableCommand, RegisterClientCommand,
       AdvertiseCommand, NoGatt, InitServerCommand, NotifyCommand, Ask,
       AdapterOn, AdapterOff, PairingRequest, GattCallback, CalledBack,
       ClientRegistered, ServerRegistered, Listens, ServiceAdded,
       CharacteristicAdded, CharacteristicRefused, ServiceStarted,
       ConnectionReported, WriteRequest, Connect, Disconnect
  <1>2. linked' \in {linked, linked + 1}
        /\ (linked' = linked \/ linked < MaxLinks)
    <2>1. CASE \E p \in Peers : Connect(p) \/ Disconnect(p)
      BY <2>1 DEF Connect, Disconnect
    <2>2. CASE Answers
      BY <2>2 DEF Answers, ClientRegistered, ServerRegistered, Listens,
         ServiceAdded, CharacteristicAdded, CharacteristicRefused,
         ServiceStarted, ConnectionReported, linkVars
    <2>3. CASE Asks
      BY <2>3 DEF Asks, RegisterClientCommand, AdvertiseCommand,
         InitServerCommand, NotifyCommand, Ask, linkVars
    <2>4. CASE Quiet
      BY <2>4 DEF Quiet, linkVars
    <2> QED
      BY <2>1, <2>2, <2>3, <2>4, StepKinds
  <1> QED
    BY <1>1, <1>2, BoundAssumption DEF CountInv

\* The console, the adapter, the stack's tables and the ids its callbacks
\* store keep their types; an id stored names something the stack has.
THEOREM TypeCorrect == Spec => []TypeOK
  <1> DEFINE Inv == /\ Safe /\ AdapterInv /\ StackInv /\ PeerInv
                    /\ FlagInv /\ CountInv
  <1>1. Init => Inv
    <2>1. Init => CountInv
      BY BoundAssumption DEF Init, CountInv
    <2> QED
      BY <2>1, InitSafe, InitAdapter, InitQueue, InitId, InitOwner, InitPeer,
         InitFlags DEF StackInv
  <1>2. Inv /\ [Next]_vars => Inv'
    BY NextSafe, NextAdapter, NextQueue, NextId, NextOwner, NextPeer,
       NextFlags, NextCount DEF StackInv
  <1>3. Inv => TypeOK
    <2> SUFFICES ASSUME Inv PROVE TypeOK
      OBVIOUS
    <2>1. {sBtInterface, sGattIf, callbacks, gattCallbacks, listening, hasty,
           met} \subseteq BOOLEAN
      BY Zenon DEF FlagInv
    <2>2. \A h \in DOMAIN chars : chars[h] \in DOMAIN services
      BY DEF StackInv, IdInv
    <2>3. started \subseteq (DOMAIN apps) \X (DOMAIN services)
      BY DEF StackInv, OwnerInv, StartedInv
    <2>4. /\ CLIENT_IF = NoId \/ IsApp(CLIENT_IF, "client")
          /\ SERVER_IF = NoId \/ IsApp(SERVER_IF, "server")
          /\ CHAR_HANDLE = NoId \/ CHAR_HANDLE \in DOMAIN chars
          /\ \A h \in DOMAIN services : IsApp(services[h], "server")
      BY DEF StackInv, IdInv
    <2>5. links \subseteq Peers /\ GATTS_CONN_ID \in Peers \cup {NoId}
      BY DEF PeerInv
    <2> QED
      BY <2>1, <2>2, <2>3, <2>4, <2>5 DEF Safe, ConsoleInv, AdapterInv,
         CountInv, TypeOK
  <1> HIDE DEF Inv
  <1> QED
    BY <1>1, <1>2, <1>3, PTL DEF Spec
=============================================================================
