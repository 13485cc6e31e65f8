# A TLA+ model of the factory tests

`multi_test` is a collection of factory tests for an Android device: WiFi, GPS, Bluetooth, keys, gravity
sensor, microphone and telephony. Each test drives a daemon or a hardware abstraction layer (HAL) through
threads, callbacks and polled variables. The modules here model those tests, TLC checks them on small
instances, and TLAPS proves their safety properties, and the parts of their liveness properties that are safety, for
every value of the constants.

Line numbers are those of the files under `src/`. `PROJECT.json` maps each definition to its lines.

## 1. Inventory

| Component | State | Operations | Interacts with | Modelled |
|---|---|---|---|---|
| WiFi scan test, `ls_wifi_test.c` | `sStatus`, `sAPs`, `sAPNum`, `g_sem`, `wifi_test_result`, `wifi_test_over_flag` | `wifi_test`, `eng_wifi_start`, scan thread, event loop, `get_wifi_test_result` | wpa_supplicant (commands and events), driver, polling callers | `WifiScan` |
| WiFi connection, `ls_wifi_test.c` | `sConnectStatus`, `sMutxDhcp`, `sCondDhcp`, the supplicant's networks | `wifiAddNetwork`, `wifi_Connect_Network`, event loop, `wifi_Dhcp` | follows a passed scan on the same thread; shares the event loop | `WifiConnect` |
| GPS test, `gps_test/` | `sGpsSvStatus`, `gps_result_type`, HAL interface pointers | `test_gps_start`, test thread, `gps_close`, `sv_status_callback` | HAL callbacks, SIGINT | `GpsTest`, without the wrappers nobody calls |
| Bluetooth discovery, `bt_test/` | `sBtInterface`, `bt_enabled`, two status variables | `bluethood_test`, adapter, discovery, device and pairing callbacks | the stack's callback thread | `BtDiscovery` |
| Bluetooth console, `zib_bluetooth.c` | `main_done`, `bt_enabled`, the command table | `eng_bt_scan_start`, `process_cmd`, the eleven commands | standard input, the stack | `BtConsole`, without what the table does not reach |
| Bluetooth GATT, `zib_bluetooth.c` 860-1225 | `sGattIf`, `CLIENT_IF`, `SERVER_IF`, `CHAR_HANDLE`, `GATTS_CONN_ID` | register, advertise, services, notify; their callbacks | commands of the console; the stack's answers | `BtConsole`, without attribute values |
| Key test, `key_app.cpp` | `last_key`, `ev_fds` | `key_test`, `input_thread`, `input_keys_analyse` | input devices | `KeyInput` |
| Telephony client, `tel_test/` | the `AppClient` singleton, `pservice`, `is_serviceready`, `p_thread`, callbacks | register, deregister, requests, reconnection, call-backs | phone service over binder, its death | `TelClient` |
| Telephone test, `zb_dailtest_demo.cpp` | none of its own | `tel_test` | starts `input_thread` and the telephony test | through those two |
| Telephony codec, `ls_telephony_util.cpp` 87-191 | static buffers | SMSC number, call list, card status | answers to requests of the client | `TelCodec` |
| Dispatcher, `main.cpp` | options, the test's return value | one test and one tone per option | the tests, tone player | `MainDispatch` |
| WiFi report parsing, 59-168 | none | `str2mac`, tokenizer, `wifiParseSCAN` | called by the scan | no |
| Gravity sensor, `gsensor_test.c` | axis flags, baseline | a sequential loop; the test that `main` calls returns 1 | sensor HAL, ioctl | no |
| Microphone, `mic_test.cpp` | the recording | play, record, append, play back | audio libraries | no |
| Build files, `README.md` | none | | | no |

The tests share no state with each other; `main` calls one at a time. What is hard is inside each of them:
state shared by threads without a lock, callbacks and signals at inconvenient moments, retries and timeouts
that race with late events, requests that nobody waits for, and pointers that outlive what they point at.
`hazards` in `PROJECT.json` lists each of these at its line with the properties that address it. What makes a
component correct is in the property tables of section 3.

These hazards have no property yet, and why:

| Line | What can go wrong | Why no property |
|---|---|---|
| `gsensor_test.c:112`, `228` | a baseline taken from the first sample; results read before they are set | the function that does it, `test_asensor_start`, has no caller |
| `mic_test.cpp:84` | a recording appended to one whose removal failed | not modelled |
| `AppClient.cpp:67`, `124`, `gps_test.c:483` | thread creation fails and the code goes on | the models take these creations to succeed |
| `gps_test.c:367` | the wall clock is set while the timeout is measured with it | time only goes on in the model |
| `key_app.cpp:84` | a busy first device starves the others | the bound on events keeps every device from staying busy |

## 2. Plan

Done in this order, most important first:

1. `FactoryTest` (abstract) and `WifiScan`, with proofs.
2. `WifiConnect`, with proofs.
3. `GpsTest`, refining `FactoryTest` as well, with proofs.
4. `BtDiscovery`, with proofs.
5. `KeyInput`, with proofs.
6. `TelClient`, with proofs.
7. `BtConsole`: the console and the GATT callbacks, with proofs.
8. `MainDispatch` above `FactoryTest`, with a proof.
9. `TelCodec`: what the static buffers of the codec hold from one answer to the next, with proofs.
10. For each liveness property, the part of its argument that is safety (section 5), proved.

To come:

11. `WifiParse`: the tokenizer and `wifiParseSCAN` as functions, against a reference parser on bounded inputs.
12. `GSensor`, should `test_asensor_start` get a caller, and `Mic`: the recording that survives a failed removal.
13. `Wifi`: scan and connection composed, sharing the event loop.

## 3. The modules

Each property's definition carries a comment that states it and names the code it is about. Properties marked *P*
are theorems, too (section 5).

### FactoryTest: what a test promises

`phase` and `verdict`: a test that is begun gives up without a verdict or reports one, and a verdict on record is
never withdrawn or replaced. `WifiScan` and `GpsTest` instantiate it with a refinement mapping and implement its
`Spec`; `MainDispatch` uses it for the WiFi test that main starts and does not wait for.

### WifiScan: the scan

Threads are program counters: `pc` (the test thread, `eng_wifi_start` and what it calls), `spc`
(`wifiScanThread`), `epc` (`wifiEventLoop`), `qpc` (a poller). `g_sem`, `sStatus`, `sAPNum`, `sAPs`,
`wifi_test_result` and `wifi_test_over_flag` have the code's names. One action is one stretch of code between
two points where another thread can see a difference: `OpenDriver`, `StartSupplicant`, `ConnectFails`,
`FinishOpen`, `BeginScan`, `ScanDone`, `Verdict`, `TestOver` of the test thread, `ScanRefused`, `ScanAccepted`,
`WaitEvent`, `WaitReturns`, `ResultsRefused`, `ResultsRead`, `FinishScan`, `PostScan` of the scan thread. A report
is a sequence of entries with a name and a signal level; parsing a line is the parser's matter. Overlapping tests
are left out: `sem_init` on a semaphore somebody waits for is undefined.

| Property | Says |
|---|---|
| `ScanQuiescent` *P* | past its second wait the test thread has the table to itself, by the semaphore alone |
| `VerdictExact` *P* | a published verdict is the judgement on the table as it stands |
| `PassFromOneReport` *P* | what was judged is a single report, never one with leftovers of a longer one |
| `RetestBlocked` *P* | a second test with the adapter open blocks in its first wait for good |
| `FirstTestEnds` | lost events cost a timeout, not the test |
| `ImplementsFactoryTest` *P* | every behaviour is one of `FactoryTest` |

### WifiConnect: the connection

`cpc` is the test thread in `wifiAddNetwork` and `wifi_Connect_Network`, `epc` the event loop, `sMutxDhcp` the
holder of the mutex. It starts where `WifiScan` enters `"connect"`, which a process does at most once
(`RetestBlocked`). The wait on `sCondDhcp` may be ended by the signal, the timeout, or before it begins. `wifi_Dhcp`
is one step with two outcomes.

| Property | Says |
|---|---|
| `LeakExact` *P* | the mutex is leaked by exactly the returns after the wait that never ask for a lease |
| `LeaseVerdict` *P* | the off-by-one of line 842: `DHCP_FAILURE` means the last attempt succeeded |
| `DhcpExclusive` *P* | two overlapping leases need two events |
| `JoinsOwnNetwork` *P* | the network joined is the one added, or a saved network 0 |
| `LoopFreed` | the event loop passes the mutex unless it was leaked |

That a `CONNECTED` without a lease needs an event that says so (`ConnectedHasEvent`) is proved only.

### GpsTest

`pc` is `test_gps_start`, `wpc` the test thread, `cpc` the activations of `gps_close`: the call, and the SIGINT
handler on the main and on the test thread. `sGpsSvStatus` is written by `CopyField` one entry at a time while the
test thread reads it (`memcpy` without a lock). A satellite report is its count and its strengths; an entry that the table
holds already is not copied, as that changes nothing.

| Property | Says |
|---|---|
| `MisuseNeedsSignal` *P* | the HAL is stopped and cleaned up in turn unless a SIGINT comes |
| `HalReleased` *P* | the process never ends with the HAL running; a return leaves it initialised only after a refused start |
| `PassEvidence` *P* | a success rests on enough satellites and on a strong one, possibly of two reports |
| `TestEnds`, `InterruptEnds` | the timeout, and a SIGINT with the HAL open, end the process |
| `ImplementsFactoryTest` *P* | the thread is a factory test |

### BtDiscovery

`pc` is `bluethood_test` with `HAL_load`, `bdt_init`, `bdt_enable`, `do_start_discovery` and `HAL_unload`; `cb` is the
stack's callback thread, which is inside `adapter_state_changed` or `device_found_cb` for more than one step since
the test thread reads and clears what they use. The stack may refuse requests, be slow, and report devices with
and without an address.

| Property | Says |
|---|---|
| `AdapterCallbackSafe` *P* | `sBtInterface` is set whenever the adapter's callback uses it; only a pairing request after the test can crash |
| `FoundIsReal`, `FailureIsReal` *P* | what a printed outcome rests on, with status variables that are never reset |
| `DiscoveryEndsTest` | a discovery ends the loop however its callbacks fall between the two reads |

That the loop ends only by a discovery (`EndsOnlyIfDiscovered`: one that was refused is polled for ever) is proved only.

### BtConsole: the console and GATT

`pc` is the console thread in `eng_bt_scan_start` and its loop; each command is an action, and each callback of the
stack that changes state is another. Commands put what they ask for into `requests`, a queue of which the stack
answers the first entry: it works in order, and nothing makes a command wait for the answer to the one before.
`CLIENT_IF`, `SERVER_IF`, `CHAR_HANDLE` and `GATTS_CONN_ID` are what the callbacks store and later commands use. The
stack's own view (`apps`, `services`, `chars`, `started`, `links`, `adapter`) is kept beside the ids so that the
properties can compare the two. `wish`, `excuse`, `hasty`, `met` and `linked` record what has happened.

| Property | Says |
|---|---|
| `CrashHasCause` *P* | a null pointer is used by a command only on the first console, when the stack had no GATT interface; by the adapter's and pairing callbacks only after the operator quit; by a GATT callback only when a second console could not initialise GATT again |
| `PeerKnown` *P* | `GATTS_CONN_ID` never names a peer whose disconnection was reported; unless two peers were connected at a time, command 9 knows the one there is |
| `ServiceUnderOwner` *P* | a service is started under the server it was added to, unless command 8 came while a registration of command 7 was unanswered |
| `LastWishHolds` *P* | when the adapter has come to rest it is as the last command wanted, unless the stack refused or the command came during a change to the other state |

### KeyInput

`main` is `key_test`, `pc` is `input_thread`, and `code`, `state`, `stamped`, `age` are `last_key`: the time is kept
as what has passed since `start_time`. `queue` holds what each device has for the reader; `ReadEvent` takes from the
lowest device, `PollTimeout` when there is nothing. `input_keys_analyse` is `Synchronise` (lines 126-138) and
`Switch` (139-283, one operator per case), because `key_test` assigns the state after it has started the thread
and may come between.

The filter on line 297 requires a code to equal three constants at once, so as coded no key event reaches the state
machine: `MCKeyInputFilter` shows it. To examine the machine at all, `FilterAsCoded = FALSE` gives the filter that the comment
above line 297 describes. The theorems hold for both filters. `tel_test` starts the same thread and assigns the state in
the same way.

| Property | Says |
|---|---|
| `ReportJustified` *P* | a report's presses and releases are the last events analysed, all of its key, and long presses lasted long; the first key ever seen is the exception |
| `ReleaseMatches` *P* | a reported press is followed by its release's report and nothing else, unless the late assignment came |
| `GestureEnds` | with all keys up the timeouts bring the machine to rest |

`log`, `quiet`, `report`, `open`, `lateReset` and `read` record what has happened and influence nothing.

### TelClient

Each thread (the test, `ProcessThread`, one per reported death) has a `pc`, a `this` and a `retry_count`. An `AppClient`
is a number with its `life` and members; an incarnation of the phone service is a number, too. `links` counts how
often an `AppClient` is linked to the death of an incarnation. Dereferencing a null or deleted pointer sets `fault` and
ends the behaviour: what would follow is undefined. `getInstance` is three places: the check, the assignment when the
constructor has returned, and the `return`, which reads `mInstance` again and may find the `AppClient` of another thread there.
`orphaned` is a history variable: a death was reported, to the first `AppClient`'s link, before `mInstance` was set.

| Property | Says |
|---|---|
| `FaultNeedsCause` *P* | a null `pservice` needs a death of the service; a deleted `AppClient` a later test, a call or a death |
| `CallbacksSafe` *P* | once callbacks are stored, the service may call at any time |
| `SecondNeedsDeath` *P* | a second `AppClient` needs a death of the service that was reported before `mInstance` named the first |
| `ReadyHasService` *P* | with one `AppClient`, ready implies a service to send to, also when two reconnections overlap |
| `Reconnected` | as long as there is one `AppClient`, no death goes unnoticed between the steps of a connection |

### TelCodec

Each action is the arrival of one answer and what the functions called for it leave behind: `aid_ptr` and `number` are the static buffers,
`written` the array elements that `handleGetCurrentCallList` wrote to, counted from the caller's array, `pdu` what
`smsc_to_pdu` made of a number. Texts are sequences of characters of which only length and difference matter.

| Property | Says |
|---|---|
| `LastAidRead` *P* | the aid read back is the last application's only if no longer one was there before: the text is copied without its end |
| `CallsRead` *P* | the number of the last call is exact; only the first call gets into the caller's array |
| `SmscDecodes` *P* | the PDU decodes to the number exactly for international numbers of 13 or 14 digits |

### MainDispatch

`argv` is what is left of the options. `Take` is a turn of the loop; `strcmp`'s result, not compared with 0, makes
every word but `-g` the sensor test and `-g` the WiFi test. The WiFi test goes on by itself, as `FactoryTest` says,
while `main` plays its tone and takes the next option. A second WiFi test during the first is where the model ends.

| Property | Says |
|---|---|
| `TonesFixed` *P* | the tones are a function of the options: no verdict, whenever it comes, changes what is played |
| `MainEnds` | there is no option for which the loop stands still |

## 4. The runs

Each run's module is the `MC` module of its component, which extends it and names the values of its constants.
Every bound is a constant in its module's `CONSTANTS`, and the larger ones limit only the environment.

| Run | Instance | Why it is enough |
|---|---|---|
| `MCWifiScan` | table of 2, 3 attempts, 5 supplicant tries, 9 reports, 3 tests, threads may fail to start | reports shorter, equal and longer than the table, on both sides of the threshold; a retest of a finished and of an unopened test |
| `MCWifiConnect` | ids 0 and 1, 3 leases, 3 events | an event for each of: before, during and after the wait |
| `MCGpsTest` | 5 entries, timeout 1, clock to 2, 2 SIGINTs, 3 reports that differ in up to three entries, no extensions | boundary values 34/35 and 4/5; copies torn between entries; two signals fill both handler positions |
| `MCBtDiscovery` | 2 tests | the second one finds the first one's values |
| `MCBtConsole` | 2 consoles, 5 commands, 2 peers, 2 connections | two registrations with services between them; one peer goes while the other stays; a second console meets the first one's callbacks |
| `MCKeyInput` | 2 keys on 2 devices, click 1 tick, long press 2, 5 events | a triple press takes 5 (its release is the theorem `Paired`'s); two devices reorder |
| `MCKeyInputFilter` | 3 function keys, coded filter | the first key event shows it |
| `MCTelClient` | 3 incarnations, 2 `AppClient`s, 2 reconnections, 1 call, 2 tests, 1 retry; 4 of these events in all | every kind of fault occurs; two reconnections overlap with a service to find; the second test finds the deleted object |
| `MCTelClientDial` | 1 test | shortest violation |
| `MCTelCodec` | texts of lengths 1 and 3, up to 3 per answer, 2 calls in the caller's array, SMSCs of up to 16 digits | a longer text before and after a shorter one; a list longer than the array; both parities, with and without a plus |
| `MCMainDispatch` | 4 words, up to 4 options | every pair of neighbouring words behind the option that is skipped |
| `MCMainDispatchUsage` | 4 words, up to 2 options | shortest violation |

`MCGpsTest` and `MCTelClient` take over two minutes, `MCKeyInput` about one, the others seconds.

Deadlock is not checked, because the programs do stop: a retest blocks for good and tests run out (WiFi scan), a
leaked mutex or a finished connection stops both threads, the GPS process exits, a Bluetooth test has ended or has
crashed, the commands of the console are used up, `key_test` may not get its thread, a telephony behaviour ends at a
fault, `main` exits, and a codec has had its last answer.

### Fairness

Threads of the process run and calls into drivers, HALs and daemons return: weak fairness of each thread's steps. A
timed wait ends and, for GPS and keys, seconds pass. Nothing is assumed of callers, events, reports, signals, key
presses, calls or the phone service. Of a mutex two threads want, nothing is assumed but that a step that stays
possible is taken. `BtDiscovery` needs one assumption about the stack, `SF_vars(DiscoveryStops)`: an inquiry has a
fixed length, so a discovery ends although device reports keep interrupting. `TelClient` assumes that the binder reports
a death it is linked to (`WF_vars(Binder)`). `MainDispatch` assumes that the two tests `main` can reach return, which
both do: one waits for nothing, the other starts a thread. `BtConsole` and `TelCodec` have no liveness property:
nothing obliges anybody to type, and an answer is one step.

## 5. What is proved

| Module | Theorems | Carried by |
|---|---|---|
| `WifiScanProofs` | `TypeCorrect`, `Quiescence`, `VerdictCorrect`, `OneReport`, `Retries`, `Retest`, `Final`, `Implements`; `NoTokenLost`, `BoundedTest`, `OneJoin` | `TypeOK`, `Handover`, `Attempts`, `TableFromReport`, `VerdictFormed`; the measure `StepsLeft` |
| `WifiConnectProofs` | `TypeCorrect`, `Mutual`, `Leaks`, `EventFirst`, `Lease`, `Exclusive`, `OwnNetwork`; `ConnectReturns` | `TypeOK`, `MutexHeld`, `Accounted`, `LoopDhcp`, `BeforeLease`, `Returned`, `OwnId`; `StepsLeft` |
| `GpsTestProofs` | `TypeCorrect`, `Misuse`, `Released`, `Evidence`, `Implements`; `NobodyWaits`, `TestBounded`, `ClosesToTheEnd` | the types, `FromReports`, `Started`, `Closing`, `InTurn`, `Undecided`; the pair `RoundsLeft`, `PlacesLeft` |
| `BtDiscoveryProofs` | `TypeCorrect`, `AdapterSafe`, `LeavesAfterDiscovery`, `FoundDevices`, `FirstFailure`; `LeavesLoop` | `PointerSet`, `AdapterFirst`, `DiscoveryFirst`, `StatusReal`, `OneDiscovery`; `StateKnown` |
| `BtConsoleProofs` | `TypeCorrect`, `CrashCauses`, `PeerIsKnown`, `ServiceOwner`, `LastWish` | `ConsoleInv`, `PointerInv`, `AdapterInv`, `QueueTyped`, `PeerInv`, `IdInv`, `OwnerInv` |
| `KeyInputProofs` | `TypeCorrect`, `Open`, `Paired`, `ReportsRight`; `GestureReleased` | `IInv`, `Typed`, `Signals`, `GInv`; `HInv` |
| `TelProofs`, of `TelClient` | `TypeCorrect`, `Private`, `SecondClient`, `Causes`, `Callbacks`, `ReadyServes`; `NoDeathLost` | `Typed` with `Owned`, `Starting`, `Bereaved`, `Orphans`, `Undisturbed`, `Alive`, `OneLink`, `ReadyServed`; `Noticed` |
| `TelProofs`, of `TelCodec` | `LastAid`, `CallLists`, `ServiceCentres` | `AidInv`, `AllCopied`; `ListInv`, `TakenCalls`; `SwappedTwice`, `NumberRead` |
| `MainDispatchProofs` | `TonesForAllWords`; `MainReturns` | what was played, what is being played and what is to come make up what the options ask for; `StepsLeft` |

*WifiScan.* `ScanQuiescent` is not inductive: it says nothing of who has the semaphore's token before the second wait.
`Handover` does, place by place: at most one of the token, the scan thread and the test thread's right to read exists.
`TableFromReport` follows the table from the report it was read from to the verdict, `VerdictFormed` the result from
the judgement to the flag; `GivesUpOnlyAfterRetries`, in `Attempts`, says that the scan ends with a hit or with its
attempts used up. From these, `OneReport` and `VerdictCorrect` follow, and `VerdictFinal` because no
action that writes the table or the verdict is enabled once the flag is set. `Implements` maps each action to a step of
`FactoryTest` or a stutter.

*WifiConnect.* `MutexHeld` says that the holder of the mutex is in its critical section or
has leaked it. `Accounted` counts CONNECTED events against those still pending in the event loop, which is what
`DhcpExclusive` and `ConnectedHasEvent` need; `Returned` describes lease, mutex and return value together at the end, from
which `LeakExact` and `LeaseVerdict` follow.

*GpsTest.* `FromReports`: every entry of the table, however torn, was in some report, so a count or a strength the thread has
seen is one of the HAL's. An activation of `gps_close` that is about to exit has turned the HAL off (`Closing`), since the main
thread is then closing itself or is suspended by the handler; without a SIGINT only the call of `test_gps_start` is active, and
`InTurn` follows it. `Undecided` ties the thread's place to the result for the refinement.

*BtDiscovery.* Everything the test waits for comes after the first discovery, and a discovery starts only after the adapter's
callback is done with the pointer; the adapter never leaves "on". So `PointerSet` holds wherever that callback may run.

*BtConsole.* The invariant has a part per group of variables, each kept by the steps that write the group. The queue is the
difficult one: `OrderInv` says that without haste a queued service waits behind no registration of a server, so it is added to the server
that `SERVER_IF` still names when the answer comes; `PeerInv` compares `GATTS_CONN_ID` with the peers connected and with the
reports of connections that are still queued.

*KeyInput.* While a press report is open the state is the one that awaits that key's release. To be inductive this needs
that the key is known (`KeyKnown`: otherwise a key's event would be adopted and the state overwritten), which needs that the
events in queues are keys' (`EventsTyped`). `ReportsRight` needs two things more. The state counts clicks (`Gesture`): in the
`n`th state of a gesture the log ends with `n` presses and releases of its key, and `start_time` is no older than the newest. That
is kept only if the next stroke of the key is of the other kind, so `Signals` follows the keys from the finger to
the log: there is a history for each key, over the events its device holds, in which every stroke differs from the one before,
and what is being analysed, or was last logged, is where it begins.

*TelClient.* An `AppClient` that is being made is known to its maker alone (`Owned`). Before the first one there are neither
callbacks nor links (`Starting`), and a reconnection comes from a death (`Bereaved`), so faults have the causes they are said to
have as long as nothing was disturbed (`Undisturbed`, `Alive`). `Orphans` says that until a death is reported with `mInstance`
still empty no reconnection is making an `AppClient`, nor is one running before `mInstance` is set: a reconnection that starts later finds it set, and
so `SecondClient` holds. `ReadyServes` is an argument about a token: of the single
`AppClient` there is at most one link or one reconnection that will still make it, never both (`OneLink`), so two reconnections
cannot leave it ready without a service.

*TelCodec.* What a loop over the texts of an answer leaves in the static buffer is an induction over the texts, done as an
argument by the least counterexample (`LeastNat`): if the claim failed for some number of texts there would be a least such number,
and one text less refutes it (`AllCopied`). `SmscDecodes` needs no induction: semi-octets are swapped in place by position, so
swapping twice is the identity on rows of even length (`SwappedTwice`), and the parity of the padded number decides (`NumberRead`).

*MainDispatch.* Sequences of tones are compared element by element (`NextTone`).

### What the liveness properties rest on

A liveness property says that something is always possible until it has happened, that it cannot be put off for ever, and that
the scheduler lets it happen. The last part needs fairness and `ENABLED` and stays with TLC. The first two are safety, and these
theorems state them for every value of the constants:

| Property | Theorems | What they say |
|---|---|---|
| `FirstTestEnds` | `NoTokenLost`, `BoundedTest` | before the verdict a waiting test has a token or a scan thread that will post one (unless `pthread_create` failed), and a test is at most `4 * SCAN_RETRY + CNN_NUM + 10` steps, however often its waits return early |
| `LoopFreed` | `ConnectReturns` | the event loop waits for a holder that is on its way to releasing the mutex, unless it was leaked; the test thread takes at most `2 * DHCP_RETRY + 14` steps, and no event gives it more to do |
| `TestEnds`, `InterruptEnds` | `NobodyWaits`, `TestBounded`, `ClosesToTheEnd` | no handler suspends everybody; each round of the test brings the timeout nearer; `gps_close`, once begun with a HAL, is not given up |
| `DiscoveryEndsTest` | `LeavesLoop` | the end of the last discovery is seen by the end of the polling round; and the converse, that an ignored request is polled for for ever |
| `GestureEnds` | `GestureReleased` | the machine never waits for a release that was read or dropped, and when all is read a timeout ends the gesture |
| `Reconnected` | `NoDeathLost` | with one `AppClient`, whichever steps a death comes between: a reconnection is under way, or the client is ready and known to the living service, or it is linked to the death that is still to be reported |
| `MainEnds` | `MainReturns` | every word has a branch, and each option costs two steps |

`HInv`, for `GestureReleased`, follows presses rather than clicks: behind every unread press or repeat of a key, and behind the
one being analysed, its release is queued or the key is still held; the filter treats all events of a key alike, so what it let
in it lets out. `Noticed`, for `NoDeathLost`, adds to the token of `OneLink` what a connection has made by then: the flag, the
link, the thread pool that hears of the death, and the registration with the service, or the thread that is about to make it.
`NobodyWaits` needs `CallStays`, that `gps_close` called at the end of `test_gps_start` does not return to it.

The proofs rest on the named `ASSUME`s on the constants alone: table sizes and retry counts are positive, a network id is a natural
number, `ZIB_PASS` differs from `ZIB_FAIL`, key codes are not 0, each key belongs to one device, a click is shorter than a
long press, connection ids are natural numbers.

Only model-checked: the liveness properties themselves (fairness and `ENABLED` are out of the prover's reach). Every invariant and
action property of a run that passes is a theorem; what a recursive definition computes is proved only where it is a recursive
function, by least counterexample.

## 6. Where code and text disagree

| Run | The text | The code |
|---|---|---|
| `MCKeyInputFilter` | events of other than the function keys are not handled, `key_app.cpp:296` | those of the function keys are not handled either |
| `MCTelClientDial` | `send RIL_REQUEST_DIAL Succ!`, `ls_telephony_util.cpp:362` | logged and answered with 0 when nothing was sent |
| `MCMainDispatchUsage` | `[-w] wifi test` in the usage, `main.cpp:27` | behind the first option `-g` runs the WiFi test, also when no option is `-w`; every other word runs the sensor test |

Three smaller ones have no run of their own. The assertion `netId != NULL` (`ls_wifi_test.c:783`) fails for the first network,
whose id is 0. `test_gps_start` is documented to return 1 for success (`gps_test.c:436-440`), but `gps_close` leaves the process with
`exit(0)` first. A comment (`gps_test.c:380`) asks for an SNR of more than 35 where the code compares with `>=`; `PassEvidence`
follows the code.

Other behaviour a reader may not expect holds as a property: a retest blocks for ever (`RetestBlocked`), the mutex leak
(`LeakExact`), a lease on the last attempt reported as failure (`LeaseVerdict`), a success assembled from two satellite reports
(`PassEvidence`), the first key reported as a long press (`ReportJustified`), a tone of failure for every WiFi test (`TonesFixed`), a
call list of which only the first call arrives (`CallsRead`).

## 7. What is left out

- Overlapping calls of `wifi_test`; failing thread creation for GPS, telephony and the key test's second caller; a HAL call interrupted in its
  middle; memory read after it was freed; words of 64 characters and more on the console, which do not fit `cmd`: undefined, or outside
  the program.
- A wall clock that is set while a test measures with it.
- The branches of `main` for `-k`, `-b`, `-gps` and `-t`, which need a word equal to `-g` and to `-w`.
- GPS wrappers nobody calls, the file of NMEA lines, and callbacks that only log.
- The DUT and LE functions, the command jobs and the readers of numbers and addresses of the console: the command table does not reach them.
- Of the codec `app_label` and `name`, which are treated as `aid` and `number` are, answers that are copied as they are (IMSI, AT), and the
  parcels of requests.
- Requests too large to send: those that `TelClient` models carry nothing, or a number and two integers, and the repository does not say what
  `MAX_COMMAND_BYTES` is, so the `-1` of `ls_telephony_util.cpp:194-197` is not taken.
- WiFi report parsing: pure functions on text, planned as `WifiParse`; `WifiScan` starts from parsed reports.
- The gravity sensor: what `main` calls ignores what is read and returns 1, and `sprd_gsensor_xyz` decides by a result it may not have
  read. Microphone: three library calls in a row around one file.
- The build files, which have no state.
