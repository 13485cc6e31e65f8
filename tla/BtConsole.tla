----------------------------- MODULE BtConsole ------------------------------
(***************************************************************************)
(* The Bluetooth console, eng_bt_scan_start of                             *)
(* src/bt_test/zib_bluetooth.c, and the GATT callbacks of that file.       *)
(*                                                                         *)
(* The console thread loads the stack and reads one-letter commands.  A    *)
(* command hands the stack a request and returns at once; the stack        *)
(* answers its requests in the order it got them, on a thread of its own,  *)
(* and its callbacks store the ids later commands use: CLIENT_IF,          *)
(* SERVER_IF, CHAR_HANDLE and GATTS_CONN_ID.  Nothing makes a command wait *)
(* for the answer to the one before it.                                    *)
(*                                                                         *)
(* Commands of up to 63 characters are meant; longer ones do not fit cmd.  *)
(* Commands 3 and 4 and the callbacks of a discovery write only what       *)
(* module BtDiscovery is about.                                            *)
(***************************************************************************)
EXTENDS Integers, Sequences

CONSTANTS Peers,        \* the connection ids of the peers
          MaxCalls,     \* bound: calls of eng_bt_scan_start
          MaxCommands,  \* bound: lines typed
          MaxLinks      \* bound: connections made

ASSUME PeerAssumption == Peers \subseteq Nat

ASSUME BoundAssumption == {MaxCalls, MaxCommands, MaxLinks} \subseteq Nat

\* An id no callback has set yet, and the handle of a service not added.
NoId == -1
NoHandle == 0

VARIABLES
  pc, calls, typed,     \* the console: where it is, calls and lines so far
  main_done,
  sBtInterface, sGattIf,   \* are the pointers set?
  bt_enabled,
  CLIENT_IF, SERVER_IF, CHAR_HANDLE, GATTS_CONN_ID,
  crashed,              \* who has used a null pointer
  callbacks, gattCallbacks, \* has the stack got bt_callbacks, sGattCallbacks?
  adapter,              \* "off", "turning on", "on" or "turning off"
  requests,             \* what the stack has still to answer or to report
  apps,                 \* the applications registered, their ids 1, 2, ...
  services,             \* services[h] is the server service h was added to
  chars,                \* chars[h] is the service of characteristic h
  started,              \* the services started: <<server, service>>
  listening,            \* is the device advertising?
  links, linked,        \* the peers connected now, connections made so far
  wish, excuse,         \* the adapter state last asked for, why it is not met
  hasty,                \* has command 8 overtaken a registration?
  met                   \* have two peers been connected at a time?

consoleVars == <<pc, calls, typed, main_done>>
pointerVars == <<sBtInterface, sGattIf, callbacks, gattCallbacks>>
adapterVars == <<bt_enabled, adapter, wish, excuse>>
idVars == <<CLIENT_IF, SERVER_IF, CHAR_HANDLE, GATTS_CONN_ID>>
tableVars == <<apps, services, chars, started, listening>>
linkVars == <<links, linked, met>>
vars == <<consoleVars, pointerVars, adapterVars, idVars, tableVars, linkVars,
          crashed, requests, hasty>>

Init ==
  /\ pc = "idle" /\ calls = 0 /\ typed = 0 /\ main_done = 0
  /\ sBtInterface = FALSE /\ sGattIf = FALSE
  /\ bt_enabled = 0
  /\ CLIENT_IF = NoId /\ SERVER_IF = NoId
  /\ CHAR_HANDLE = NoId /\ GATTS_CONN_ID = NoId
  /\ crashed = "none"
  /\ callbacks = FALSE /\ gattCallbacks = FALSE
  /\ adapter = "off" /\ wish = "off" /\ excuse = "none"
  /\ requests = <<>> /\ apps = <<>> /\ services = <<>> /\ chars = <<>>
  /\ started = {} /\ listening = FALSE
  /\ links = {} /\ linked = 0 /\ met = FALSE
  /\ hasty = FALSE

Running == crashed = "none" /\ pc # "exited"

-----------------------------------------------------------------------------
(* The console thread outside its loop.                                    *)

\* Mutant of Load: a new console starts its loop afresh.
LoadAfresh ==
  /\ Running /\ pc = "idle" /\ calls < MaxCalls
  /\ calls' = calls + 1
  /\ main_done' = 0
  /\ sBtInterface' \in BOOLEAN
  /\ pc' = IF sBtInterface' THEN "init" ELSE "exited"
  /\ UNCHANGED <<typed, sGattIf, callbacks, gattCallbacks, adapterVars,
                 idVars, tableVars, linkVars, crashed, requests, hasty>>

\* HAL_load; without a stack the process ends.
Load ==
  /\ Running /\ pc = "idle" /\ calls < MaxCalls
  /\ calls' = calls + 1
  /\ sBtInterface' \in BOOLEAN
  /\ pc' = IF sBtInterface' THEN "init" ELSE "exited"
  /\ UNCHANGED <<typed, main_done, sGattIf, callbacks, gattCallbacks,
                 adapterVars, idVars, tableVars, linkVars, crashed, requests,
                 hasty>>

\* bdt_init: the stack may refuse, and the code goes on.
InitStack ==
  /\ Running /\ pc = "init"
  /\ callbacks' \in {TRUE, callbacks}
  /\ pc' = "gatt"
  /\ UNCHANGED <<calls, typed, main_done, sBtInterface, sGattIf,
                 gattCallbacks, adapterVars, idVars, tableVars, linkVars,
                 crashed, requests, hasty>>

\* gatt_init gets the interface, if the stack has one to give.
GetGatt ==
  /\ Running /\ pc = "gatt"
  /\ sGattIf' \in BOOLEAN
  /\ pc' = IF sGattIf' THEN "gattinit" ELSE "prompt"
  /\ UNCHANGED <<calls, typed, main_done, sBtInterface, callbacks,
                 gattCallbacks, adapterVars, idVars, tableVars, linkVars,
                 crashed, requests, hasty>>

\* It registers the callbacks, and gives the interface up if that fails; the
\* callbacks an earlier call registered stay.
InitGatt ==
  /\ Running /\ pc = "gattinit"
  /\ sGattIf' \in BOOLEAN
  /\ gattCallbacks' = (gattCallbacks \/ sGattIf')
  /\ pc' = "prompt"
  /\ UNCHANGED <<calls, typed, main_done, sBtInterface, callbacks,
                 adapterVars, idVars, tableVars, linkVars, crashed, requests,
                 hasty>>

\* The loop ends once main_done is set, then HAL_unload; sGattIf is kept.
Unload ==
  /\ Running /\ pc = "prompt" /\ main_done = 1
  /\ sBtInterface' = FALSE
  /\ pc' = "idle"
  /\ UNCHANGED <<calls, typed, main_done, sGattIf, callbacks, gattCallbacks,
                 adapterVars, idVars, tableVars, linkVars, crashed, requests,
                 hasty>>

\* The end of the input: fgets leaves line cleared, or as the stack frame has
\* it before the first command, which amounts to one more line typed.  From
\* then on the loop spins.
EndOfInput ==
  /\ Running /\ pc = "prompt" /\ main_done = 0
  /\ pc' = "spinning"
  /\ UNCHANGED <<calls, typed, main_done, pointerVars, adapterVars, idVars,
                 tableVars, linkVars, crashed, requests, hasty>>

-----------------------------------------------------------------------------
(* The commands; process_cmd runs the handler on the console thread.       *)

\* A line is read and found in console_cmd_list.
Typed == /\ Running /\ pc = "prompt" /\ main_done = 0 /\ typed < MaxCommands
         /\ typed' = typed + 1
         /\ UNCHANGED <<pc, calls>>

\* h, an unknown word, 3 and 4; and 5, whose pairing is PairingRequest's.
OtherCommand ==
  /\ Typed
  /\ UNCHANGED <<main_done, pointerVars, adapterVars, idVars, tableVars,
                 linkVars, crashed, requests, hasty>>

\* q.
Quit ==
  /\ Typed
  /\ main_done' = 1
  /\ UNCHANGED <<pointerVars, adapterVars, idVars, tableVars, linkVars,
                 crashed, requests, hasty>>

\* The stack begins the change, or refuses; a change can be asked for only
\* when none is under way.
Turn(from, via, to) ==
  /\ wish' = to
  /\ \/ callbacks /\ adapter = from /\ adapter' = via /\ excuse' = "none"
     \/ adapter = via /\ UNCHANGED adapter /\ excuse' = "none"
     \/ adapter # via /\ UNCHANGED adapter /\ excuse' = "refused"

\* The command finds the adapter where it is asked to be and does nothing.
Already(to, back) ==
  /\ wish' = to
  /\ excuse' = IF adapter = back THEN "raced" ELSE "none"
  /\ UNCHANGED adapter

\* 1, bdt_enable.
EnableCommand ==
  /\ Typed
  /\ IF bt_enabled = 1 THEN Already("on", "turning off")
                       ELSE Turn("off", "turning on", "on")
  /\ UNCHANGED <<main_done, pointerVars, bt_enabled, idVars, tableVars,
                 linkVars, crashed, requests, hasty>>

\* 2, bdt_disable.
DisableCommand ==
  /\ Typed
  /\ IF bt_enabled = 0 THEN Already("off", "turning on")
                       ELSE Turn("on", "turning off", "off")
  /\ UNCHANGED <<main_done, pointerVars, bt_enabled, idVars, tableVars,
                 linkVars, crashed, requests, hasty>>

\* A handler that hands the stack these requests.
Ask(new) ==
  /\ Typed
  /\ requests' = requests \o new
  /\ UNCHANGED <<main_done, pointerVars, adapterVars, idVars, tableVars,
                 linkVars, crashed>>

\* 6, do_btgattc_register_app, which checks sGattIf.
RegisterClientCommand ==
  /\ Ask(IF sGattIf THEN <<[kind |-> "client"]>> ELSE <<>>)
  /\ UNCHANGED hasty

\* 7, do_btgatts_start_advertise: advertise as CLIENT_IF, register a server.
AdvertiseCommand ==
  /\ Ask(IF sGattIf THEN <<[kind |-> "listen", app |-> CLIENT_IF],
                           [kind |-> "server"]>>
                    ELSE <<>>)
  /\ UNCHANGED hasty

\* Commands 8 and 9 use sGattIf without a check.
NoGatt ==
  /\ Typed /\ ~sGattIf
  /\ crashed' = "command"
  /\ UNCHANGED <<main_done, pointerVars, adapterVars, idVars, tableVars,
                 linkVars, requests, hasty>>

\* 8, do_btgatts_init_server; hasty when a registration is unanswered.
InitServerCommand ==
  /\ sGattIf
  /\ Ask(<<[kind |-> "service", app |-> SERVER_IF]>>)
  /\ hasty' = (hasty \/ \E i \in DOMAIN requests : requests[i].kind = "server")

\* 9, do_btgatts_send_notification; nothing of the answer comes back.
NotifyCommand ==
  /\ sGattIf
  /\ Ask(<<>>)
  /\ UNCHANGED hasty

Command == \/ OtherCommand \/ Quit \/ EnableCommand \/ DisableCommand
           \/ RegisterClientCommand \/ AdvertiseCommand \/ NoGatt
           \/ InitServerCommand \/ NotifyCommand

-----------------------------------------------------------------------------
(* bt_callbacks; the adapter's and the pairing's use sBtInterface.         *)

\* adapter_state_changed(BT_STATE_ON), with the two properties it sets.
AdapterOn ==
  /\ Running /\ adapter = "turning on"
  /\ adapter' = "on"
  /\ bt_enabled' = 1
  /\ crashed' = IF sBtInterface THEN crashed ELSE "adapter"
  /\ UNCHANGED <<consoleVars, pointerVars, wish, excuse, idVars, tableVars,
                 linkVars, requests, hasty>>

\* Mutant of AdapterOff: the console is not told.
AdapterOffUnseen ==
  /\ Running /\ adapter \in {"turning on", "turning off"} /\ links = {}
  /\ adapter' = "off"
  /\ listening' = FALSE
  /\ excuse' = IF adapter = "turning on" /\ wish = "on" THEN "refused"
                                                        ELSE excuse
  /\ UNCHANGED <<consoleVars, pointerVars, bt_enabled, wish, idVars, apps,
                 services, chars, started, linkVars, crashed, requests, hasty>>

\* adapter_state_changed(BT_STATE_OFF): it was turned off, or could not be
\* turned on.  The stack ends the connections and the advertising first.
AdapterOff ==
  /\ Running /\ adapter \in {"turning on", "turning off"} /\ links = {}
  /\ adapter' = "off"
  /\ bt_enabled' = 0
  /\ listening' = FALSE
  /\ excuse' = IF adapter = "turning on" /\ wish = "on" THEN "refused"
                                                        ELSE excuse
  /\ UNCHANGED <<consoleVars, pointerVars, wish, idVars, apps, services,
                 chars, started, linkVars, crashed, requests, hasty>>

\* ssp_request_cb answers a pairing, asked for by command 5 or by a peer.
PairingRequest ==
  /\ Running /\ adapter = "on"
  /\ crashed' = IF sBtInterface THEN crashed ELSE "pairing"
  /\ UNCHANGED <<consoleVars, pointerVars, adapterVars, idVars, tableVars,
                 linkVars, requests, hasty>>

-----------------------------------------------------------------------------
(* The GATT callbacks: the stack takes its requests one by one.            *)

Request == requests[1]

\* The stack is done with a request of this kind, which ends in new ones.
Answer(kind, new) ==
  /\ Running /\ gattCallbacks
  /\ requests # <<>> /\ Request.kind = kind
  /\ requests' = Tail(requests) \o new
  /\ UNCHANGED <<consoleVars, pointerVars, adapterVars, hasty>>

\* A callback that calls the stack through sGattIf.
CalledBack == crashed' = IF sGattIf THEN crashed ELSE "gatt"

\* btgattc_register_app_cb: the id is stored if the status is 0.
ClientRegistered ==
  /\ Answer("client", <<>>)
  /\ \/ apps' = Append(apps, "client") /\ CLIENT_IF' = Len(apps')
     \/ UNCHANGED <<apps, CLIENT_IF>>
  /\ UNCHANGED <<SERVER_IF, CHAR_HANDLE, GATTS_CONN_ID, services, chars,
                 started, listening, linkVars, crashed>>

\* btgatts_register_app_cb.
ServerRegistered ==
  /\ Answer("server", <<>>)
  /\ \/ apps' = Append(apps, "server") /\ SERVER_IF' = Len(apps')
     \/ UNCHANGED <<apps, SERVER_IF>>
  /\ UNCHANGED <<CLIENT_IF, CHAR_HANDLE, GATTS_CONN_ID, services, chars,
                 started, listening, linkVars, crashed>>

IsApp(id, role) == id \in DOMAIN apps /\ apps[id] = role

\* The device advertises if the stack knows the client and is on.
Listens ==
  /\ Answer("listen", <<>>)
  /\ listening' \in {listening, IsApp(Request.app, "client") /\ adapter = "on"}
  /\ UNCHANGED <<idVars, apps, services, chars, started, linkVars, crashed>>

\* btgatts_service_added_cb: whatever the status, and for the SERVER_IF of
\* now, it adds a characteristic.
ServiceAdded ==
  /\ \E added \in BOOLEAN :
       /\ Answer("service",
            <<[kind |-> "char", app |-> SERVER_IF,
               service |-> IF added THEN Len(services) + 1 ELSE NoHandle]>>)
       /\ added => IsApp(Request.app, "server")
       /\ services' = IF added THEN Append(services, Request.app)
                               ELSE services
  /\ CalledBack
  /\ UNCHANGED <<idVars, apps, chars, started, listening, linkVars>>

\* What characteristic_added_cb asks for; and a mutant that takes the server
\* registered last.
StartOfLatest(r) ==
  <<[kind |-> "start", app |-> SERVER_IF, service |-> r.service]>>
StartOf(r) == <<[kind |-> "start", app |-> r.app, service |-> r.service]>>

\* btgatts_characteristic_added_cb(0): the handle is stored and the service
\* started.  The stack adds to services it knows.
CharacteristicAdded ==
  /\ Answer("char", StartOf(Request))
  /\ Request.service \in DOMAIN services
  /\ chars' = Append(chars, Request.service)
  /\ CHAR_HANDLE' = Len(chars')
  /\ CalledBack
  /\ UNCHANGED <<CLIENT_IF, SERVER_IF, GATTS_CONN_ID, apps, services, started,
                 listening, linkVars>>

\* The same callback with another status only logs.
CharacteristicRefused ==
  /\ Answer("char", <<>>)
  /\ UNCHANGED <<idVars, tableVars, linkVars, crashed>>

\* start_service; its callback only logs.
ServiceStarted ==
  /\ Answer("start", <<>>)
  /\ started' = started \cup {<<Request.app, Request.service>>}
  /\ UNCHANGED <<idVars, apps, services, chars, listening, linkVars, crashed>>

\* Mutant of ConnectionReported: a disconnection is not recorded.
ConnectionReportedOnly ==
  /\ \/ Answer("up", <<>>) /\ GATTS_CONN_ID' = Request.conn
     \/ Answer("down", <<>>) /\ UNCHANGED GATTS_CONN_ID
  /\ UNCHANGED <<CLIENT_IF, SERVER_IF, CHAR_HANDLE, tableVars, linkVars,
                 crashed>>

\* btgatts_connection_cb: whoever has gone, GATTS_CONN_ID is cleared.
ConnectionReported ==
  /\ \/ Answer("up", <<>>) /\ GATTS_CONN_ID' = Request.conn
     \/ Answer("down", <<>>) /\ GATTS_CONN_ID' = NoId
  /\ UNCHANGED <<CLIENT_IF, SERVER_IF, CHAR_HANDLE, tableVars, linkVars,
                 crashed>>

\* A peer connects to the advertising device, and the servers are told.
Connect(p) ==
  /\ Running /\ gattCallbacks /\ listening
  /\ \E id \in DOMAIN apps : apps[id] = "server"
  /\ p \notin links /\ linked < MaxLinks
  /\ links' = links \cup {p}
  /\ linked' = linked + 1
  /\ met' = (met \/ links # {})
  /\ requests' = Append(requests, [kind |-> "up", conn |-> p])
  /\ UNCHANGED <<consoleVars, pointerVars, adapterVars, idVars, tableVars,
                 crashed, hasty>>

\* A peer is gone.
Disconnect(p) ==
  /\ Running /\ p \in links
  /\ links' = links \ {p}
  /\ requests' = Append(requests, [kind |-> "down", conn |-> p])
  /\ UNCHANGED <<consoleVars, pointerVars, adapterVars, idVars, tableVars,
                 linked, met, crashed, hasty>>

\* btgatts_request_write_cb answers a peer through sGattIf.
WriteRequest ==
  /\ Running /\ links # {}
  /\ CalledBack
  /\ UNCHANGED <<consoleVars, pointerVars, adapterVars, idVars, tableVars,
                 linkVars, requests, hasty>>

-----------------------------------------------------------------------------
ConsoleStep == \/ InitStack \/ GetGatt \/ InitGatt \/ Unload

GattCallback == \/ ClientRegistered \/ ServerRegistered \/ Listens
                \/ ServiceAdded \/ CharacteristicAdded
                \/ CharacteristicRefused \/ ServiceStarted
                \/ ConnectionReported \/ WriteRequest

Next == \/ Load \/ ConsoleStep \/ EndOfInput \/ Command
        \/ AdapterOn \/ AdapterOff \/ PairingRequest
        \/ GattCallback
        \/ \E p \in Peers : Connect(p) \/ Disconnect(p)

Spec == Init /\ [][Next]_vars

-----------------------------------------------------------------------------
(* What makes the console correct.                                         *)

\* Every variable has its type; in particular the ids the callbacks store
\* are those of applications and characteristics the stack has.
TypeOK ==
  /\ pc \in {"idle", "init", "gatt", "gattinit", "prompt", "spinning",
             "exited"}
  /\ calls \in 0 .. MaxCalls /\ typed \in 0 .. MaxCommands
  /\ main_done \in {0, 1} /\ bt_enabled \in {0, 1}
  /\ {sBtInterface, sGattIf, callbacks, gattCallbacks, listening, hasty, met}
       \subseteq BOOLEAN
  /\ CLIENT_IF = NoId \/ IsApp(CLIENT_IF, "client")
  /\ SERVER_IF = NoId \/ IsApp(SERVER_IF, "server")
  /\ CHAR_HANDLE = NoId \/ CHAR_HANDLE \in DOMAIN chars
  /\ GATTS_CONN_ID \in Peers \cup {NoId}
  /\ crashed \in {"none", "command", "adapter", "pairing", "gatt"}
  /\ adapter \in {"off", "turning on", "on", "turning off"}
  /\ wish \in {"off", "on"} /\ excuse \in {"none", "raced", "refused"}
  /\ \A h \in DOMAIN services : IsApp(services[h], "server")
  /\ \A h \in DOMAIN chars : chars[h] \in DOMAIN services
  /\ started \subseteq (DOMAIN apps) \X (DOMAIN services)
  /\ links \subseteq Peers /\ linked \in 0 .. MaxLinks

\* Who can use a null pointer.  Only command 8 or 9 of the first console, if
\* the stack had no GATT interface to give; the adapter's or the pairing's
\* callback, if the operator has quit; and a GATT callback, if a second
\* console could not initialise GATT again.  Since main_done is never reset,
\* a second console takes no commands.
CrashHasCause ==
  /\ crashed = "command" => calls = 1 /\ main_done = 0
  /\ crashed \in {"adapter", "pairing"} => pc = "idle" /\ main_done = 1
  /\ crashed = "gatt" => calls > 1 /\ ~sGattIf

\* The reports of connections the console has still to get.
Reports == {i \in DOMAIN requests : requests[i].kind \in {"up", "down"}}

\* GATTS_CONN_ID never names a peer whose disconnection has been reported;
\* and unless two peers have been connected at a time, command 9 knows the
\* one peer there is.  With two, the first to go leaves the other without
\* notifications (btgatts_connection_cb).
PeerKnown ==
  /\ GATTS_CONN_ID \in links \cup {NoId}
       \cup {requests[i].conn : i \in {j \in Reports : requests[j].kind = "down"}}
  /\ ~met /\ Reports = {} => links \subseteq {GATTS_CONN_ID}

\* A service is started under the server it was added to, although
\* btgatts_service_added_cb takes SERVER_IF instead of the server it is told,
\* unless command 8 came while a registration of command 7 was unanswered.
ServiceUnderOwner == ~hasty => \A s \in started : services[s[2]] = s[1]

\* Commands 1 and 2 decide by bt_enabled, which the callback sets later.  The
\* adapter settles where the last of them wanted it, unless the stack refused
\* or the command came while the adapter was on its way to the other state.
LastWishHolds ==
  adapter \in {"off", "on"} /\ excuse = "none" => adapter = wish
=============================================================================
