------------------------------ MODULE KeyInput ------------------------------
(***************************************************************************)
(* The key test, src/key_app.cpp.                                          *)
(*                                                                         *)
(* key_test opens the input devices, starts input_thread, sets the state   *)
(* machine to KEY_ALL_RELEASE once the thread exists, and joins a thread   *)
(* that never ends.  input_thread takes one event at a time from the first *)
(* device that has one, or times out when none has, and hands key events   *)
(* and timeouts to input_keys_analyse, which tells single, double, triple  *)
(* and long presses apart by the time since start_time.                    *)
(*                                                                         *)
(* input_keys_analyse first reads the clock and adopts the first key it    *)
(* ever sees (lines 126-138), then switches on the state: these are two    *)
(* steps, since key_test's assignment of the state may come between them.  *)
(*                                                                         *)
(* The condition on line 297 requires a code to equal three different      *)
(* constants.  FilterAsCoded says whether that condition is used; without  *)
(* it the filter is the one the comment above it describes, which is what  *)
(* shows the state machine at work.                                        *)
(***************************************************************************)
EXTENDS Integers, Sequences, SequencesExt

CONSTANTS Keys,                 \* codes of the keys the devices have
          FunctionKeys,         \* ZIB_KEY_POWER, ZIB_KEY_BACK, ZIB_KEY_OK
          Devices,              \* 1 .. ev_count, in the order of ev_fds
          DeviceOf,             \* the one device that has a key
          FilterAsCoded,        \* is line 297 the filter?
          KEY_CLICK_GAP,        \* in ticks, as are all times
          KEY_LONG_PRESS_TIME,
          MaxEvents,            \* bound: events that the devices send
          MaxUnread             \* bound: unread events of a device

NoCode == 0

ASSUME KeyAssumption ==
  /\ Keys \subseteq Nat \ {NoCode}
  /\ FunctionKeys \subseteq Nat \ {NoCode}
  /\ DeviceOf \in [Keys -> Devices]
  /\ Devices \subseteq Nat

ASSUME TimeAssumption ==
  /\ KEY_CLICK_GAP \in Nat /\ KEY_LONG_PRESS_TIME \in Nat
  /\ KEY_CLICK_GAP < KEY_LONG_PRESS_TIME
  /\ MaxEvents \in Nat /\ MaxUnread \in Nat

VARIABLES
  main,                 \* key_test: "start", "reset", "join", "failed"
  pc,                   \* input_thread: "none", "poll", "sync", "switch"
  ev,                   \* what ev_get left: the type and the event
  diff,                 \* time_diff_temp
  code, state,          \* last_key
  stamped, age,         \* has start_time been set, and the time since
  down,                 \* the keys that are held
  queue,                \* the events a device holds for the reader
  sent,                 \* events the devices have sent
  \* What has happened:
  log,                  \* the last presses and releases analysed, newest last
  quiet,                \* the time since the newest was, as diff measures it
  report,               \* what the last call of input_keys_analyse printed
  open,                 \* the press report that awaits its release
  lateReset,            \* did key_test's assignment come after an analysis?
  read                  \* has input_thread read a function key's event?

thread  == <<pc, ev, diff>>
lastKey == <<code, state, stamped, age>>
devices == <<down, queue, sent>>
history == <<log, quiet, report, open, lateReset, read>>
vars    == <<main, thread, lastKey, devices, history>>

\* A key event; value 1, 0 and 2.
Event(k, value) == [code |-> k, value |-> value]
Values == {"press", "release", "repeat"}
\* An event whose type is not EV_KEY, and what a timeout leaves.
Other   == Event(NoCode, "other")
TIMEOUT == Event(NoCode, "timeout")

\* A line that is printed: the kind of key press, its code, press or release.
Report(kind, k, value) == [kind |-> kind, code |-> k, value |-> value]
NoReport == Report("none", NoCode, "none")
Kinds == {"single", "double", "triple", "long"}

\* Only the last events matter to what a report may claim.
LogLength == 5
Newest(s) == SubSeq(s, IF Len(s) > LogLength THEN 2 ELSE 1, Len(s))

\* Times saturate where no comparison tells them apart any more.
Older(t) == IF t < KEY_LONG_PRESS_TIME THEN t + 1 ELSE t
Never    == KEY_LONG_PRESS_TIME

CheckStates == [kind \in {"double", "triple", "long"} |->
                  CASE kind = "double" -> "KEY_CHECK_DOUBLE_KEY_RELEASE"
                    [] kind = "triple" -> "KEY_CHECK_TRIPLE_KEY_RELEASE"
                    [] kind = "long"   -> "KEY_CHECK_LONG_KEY_RELEASE"]

States == {"KEY_ALL_RELEASE", "KEY_FIRST_PRESS", "KEY_FIRST_RELEASE",
           "KEY_SECOND_PRESS", "KEY_SECOND_RELEASE"}
            \cup {CheckStates[kind] : kind \in DOMAIN CheckStates}

Init ==
  /\ main = "start"
  /\ pc = "none" /\ ev = TIMEOUT /\ diff = 0
  /\ code = NoCode /\ state = "KEY_ALL_RELEASE"
  /\ stamped = FALSE /\ age = Never
  /\ down \in SUBSET Keys
  /\ queue = [d \in Devices |-> <<>>]
  /\ sent = 0
  /\ log = <<>> /\ quiet = 0
  /\ report = NoReport /\ open = NoReport
  /\ lateReset = FALSE /\ read = FALSE

-----------------------------------------------------------------------------
(* key_test.                                                               *)

\* No device, or no thread.
StartFails ==
  /\ main = "start"
  /\ main' = "failed"
  /\ UNCHANGED <<thread, lastKey, devices, history>>

StartThread ==
  /\ main = "start" /\ Devices # {}
  /\ main' = "reset" /\ pc' = "poll"
  /\ UNCHANGED <<ev, diff, lastKey, devices, history>>

\* last_key.state = KEY_ALL_RELEASE, with the thread already at work.
ResetState ==
  /\ main = "reset"
  /\ main' = "join"
  /\ state' = "KEY_ALL_RELEASE"
  /\ lateReset' = (code # NoCode)
  /\ UNCHANGED <<thread, code, stamped, age, devices, log, quiet, report, open,
                 read>>

-----------------------------------------------------------------------------
(* The devices, and time.                                                  *)

Send(d, e) ==
  /\ sent < MaxEvents /\ Len(queue[d]) < MaxUnread
  /\ sent' = sent + 1
  /\ queue' = [queue EXCEPT ![d] = Append(@, e)]
  /\ UNCHANGED <<main, thread, lastKey, history>>

PressKey(k) ==
  /\ k \notin down
  /\ down' = down \cup {k}
  /\ Send(DeviceOf[k], Event(k, "press"))

ReleaseKey(k) ==
  /\ k \in down
  /\ down' = down \ {k}
  /\ Send(DeviceOf[k], Event(k, "release"))

RepeatKey(k) ==
  /\ k \in down
  /\ Send(DeviceOf[k], Event(k, "repeat"))
  /\ UNCHANGED down

OtherEvent(d) ==
  /\ Send(d, Other)
  /\ UNCHANGED down

Tick ==
  /\ age' = Older(age) /\ quiet' = Older(quiet)
  /\ <<age, quiet>>' # <<age, quiet>>
  /\ UNCHANGED <<main, thread, code, state, stamped, devices, log, report, open,
                 lateReset, read>>

-----------------------------------------------------------------------------
(* input_thread up to the call of input_keys_analyse.                      *)

Ready == {d \in Devices : queue[d] # <<>>}

\* Line 297.
CodedFilter(c)   == \A k \in FunctionKeys : c = k
PassesFilter(c)  == IF FilterAsCoded THEN CodedFilter(c) ELSE c \in FunctionKeys

\* ev_get finds the first device that has an event.
ReadEvent ==
  /\ pc = "poll"
  /\ \E d \in Ready :
       /\ \A other \in Ready : d <= other
       /\ queue' = [queue EXCEPT ![d] = Tail(@)]
       /\ ev' = Head(queue[d])
  /\ pc' = IF ev' # Other /\ PassesFilter(ev'.code) THEN "sync" ELSE "poll"
  /\ read' = (read \/ (ev' # Other /\ ev'.code \in FunctionKeys))
  /\ UNCHANGED <<main, diff, lastKey, down, sent, log, quiet, report, open,
                 lateReset>>

PollTimeout ==
  /\ pc = "poll" /\ Ready = {}
  /\ ev' = TIMEOUT /\ pc' = "sync"
  /\ UNCHANGED <<main, diff, lastKey, devices, history>>

-----------------------------------------------------------------------------
(* input_keys_analyse.                                                     *)

\* POLL_TIMEOUT == type || KEY_REPEAT == ev->value
Idle       == ev = TIMEOUT \/ ev.value = "repeat"
Pressed    == ~Idle /\ ev.value = "press"
Released   == ~Idle /\ ev.value = "release"
SameKey    == ev.code = code

\* The clock is read, and the first key ever is taken to have been pressed.
Adopts == ev # TIMEOUT /\ code = NoCode
Synchronise ==
  /\ pc = "sync"
  /\ diff' = age
  /\ code' = IF Adopts THEN ev.code ELSE code
  /\ state' = IF Adopts THEN "KEY_FIRST_PRESS" ELSE state
  /\ pc' = "switch"
  /\ report' = NoReport
  /\ IF Idle THEN UNCHANGED <<log, quiet>>
             ELSE /\ log' = Newest(Append(log, ev))
                  /\ quiet' = 0
  /\ UNCHANGED <<main, ev, stamped, age, devices, open, lateReset, read>>

\* The call goes to state s and prints nothing.
Goto(s) == /\ state' = s
           /\ UNCHANGED <<report, open>>
\* The call goes to state s and prints a report on the key.
GotoPrinting(s, kind, value) ==
  /\ state' = s
  /\ report' = Report(kind, code, value)
  /\ open' = IF value = "press" THEN report' ELSE NoReport

KeepTime == UNCHANGED <<stamped, age>>
StampTime == stamped' = TRUE /\ age' = 0

\* Changes to the cases below that the properties would reveal.

\* Another key's press does not end the gesture.
FirstReleaseAnyPress ==
  /\ state = "KEY_FIRST_RELEASE"
  /\ UNCHANGED code
  /\ \/ /\ Idle /\ diff >= KEY_CLICK_GAP
        /\ GotoPrinting("KEY_ALL_RELEASE", "single", "release") /\ KeepTime
     \/ /\ Released \/ (Idle /\ diff < KEY_CLICK_GAP)
        /\ Goto(state) /\ KeepTime
     \/ /\ Pressed
        /\ Goto("KEY_SECOND_PRESS") /\ StampTime

\* The release that is reported is the newest key's.
CheckReleaseNewest(kind) ==
  /\ state = CheckStates[kind]
  /\ KeepTime
  /\ IF Released
       THEN /\ state' = "KEY_ALL_RELEASE" /\ code' = ev.code
            /\ report' = Report(kind, ev.code, "release") /\ open' = NoReport
       ELSE Goto(state) /\ UNCHANGED code

\* A second release waits for another press.
SecondReleaseWaits ==
  /\ state = "KEY_SECOND_RELEASE"
  /\ UNCHANGED code /\ KeepTime
  /\ \/ /\ ~Pressed
        /\ Goto(state)
     \/ /\ Pressed
        /\ Goto("KEY_ALL_RELEASE")

\* The cases of the switch.
AllRelease ==
  /\ state = "KEY_ALL_RELEASE"
  /\ \/ /\ Pressed
        /\ Goto("KEY_FIRST_PRESS") /\ code' = ev.code /\ StampTime
     \/ /\ ~Pressed
        /\ Goto(state) /\ KeepTime /\ UNCHANGED code

FirstPress ==
  /\ state = "KEY_FIRST_PRESS"
  /\ UNCHANGED code
  /\ \/ /\ Idle /\ diff >= KEY_LONG_PRESS_TIME
        /\ GotoPrinting("KEY_CHECK_LONG_KEY_RELEASE", "long", "press")
        /\ KeepTime
     \/ /\ Idle /\ diff < KEY_LONG_PRESS_TIME
        /\ Goto(state) /\ KeepTime
     \/ /\ Pressed
        /\ Goto(IF SameKey THEN state ELSE "KEY_ALL_RELEASE") /\ KeepTime
     \/ /\ Released /\ SameKey /\ diff >= KEY_CLICK_GAP
        /\ GotoPrinting("KEY_ALL_RELEASE", "single", "release") /\ KeepTime
     \/ /\ Released /\ SameKey /\ diff < KEY_CLICK_GAP
        /\ Goto("KEY_FIRST_RELEASE") /\ StampTime
     \/ /\ Released /\ ~SameKey
        /\ Goto("KEY_ALL_RELEASE") /\ KeepTime

FirstRelease ==
  /\ state = "KEY_FIRST_RELEASE"
  /\ UNCHANGED code
  /\ \/ /\ Idle /\ diff >= KEY_CLICK_GAP
        /\ GotoPrinting("KEY_ALL_RELEASE", "single", "release") /\ KeepTime
     \/ /\ Idle /\ diff < KEY_CLICK_GAP
        /\ Goto(state) /\ KeepTime
     \/ /\ Released
        /\ Goto(IF SameKey THEN state ELSE "KEY_ALL_RELEASE") /\ KeepTime
     \/ /\ Pressed /\ SameKey
        /\ Goto("KEY_SECOND_PRESS") /\ StampTime
     \/ /\ Pressed /\ ~SameKey
        /\ Goto("KEY_ALL_RELEASE") /\ KeepTime

SecondPress ==
  /\ state = "KEY_SECOND_PRESS"
  /\ UNCHANGED code
  /\ \/ /\ Idle /\ diff >= KEY_CLICK_GAP
        /\ GotoPrinting("KEY_CHECK_DOUBLE_KEY_RELEASE", "double", "press")
        /\ KeepTime
     \/ /\ Idle /\ diff < KEY_CLICK_GAP
        /\ Goto(state) /\ KeepTime
     \/ /\ Pressed
        /\ Goto(IF SameKey THEN state ELSE "KEY_ALL_RELEASE") /\ KeepTime
     \/ /\ Released /\ SameKey
        /\ Goto("KEY_SECOND_RELEASE") /\ StampTime
     \/ /\ Released /\ ~SameKey
        /\ Goto("KEY_ALL_RELEASE") /\ KeepTime

SecondRelease ==
  /\ state = "KEY_SECOND_RELEASE"
  /\ UNCHANGED code /\ KeepTime
  /\ \/ /\ Idle /\ diff >= KEY_CLICK_GAP
        /\ GotoPrinting("KEY_ALL_RELEASE", "double", "release")
     \/ /\ Idle /\ diff < KEY_CLICK_GAP
        /\ Goto(state)
     \/ /\ Released
        /\ Goto(IF SameKey THEN state ELSE "KEY_ALL_RELEASE")
     \/ /\ Pressed /\ SameKey
        /\ GotoPrinting("KEY_CHECK_TRIPLE_KEY_RELEASE", "triple", "press")
     \/ /\ Pressed /\ ~SameKey
        /\ Goto("KEY_ALL_RELEASE")

\* KEY_CHECK_LONG_KEY_RELEASE and its like wait for the key's release.
CheckRelease(kind) ==
  /\ state = CheckStates[kind]
  /\ UNCHANGED code /\ KeepTime
  /\ IF Released /\ SameKey
       THEN GotoPrinting("KEY_ALL_RELEASE", kind, "release")
       ELSE Goto(state)

Switch ==
  /\ pc = "switch"
  /\ \/ AllRelease
     \/ FirstPress
     \/ FirstRelease
     \/ SecondPress
     \/ SecondRelease
     \/ \E kind \in DOMAIN CheckStates : CheckRelease(kind)
  /\ pc' = "poll"
  /\ UNCHANGED <<main, ev, diff, devices, log, quiet, lateReset, read>>

-----------------------------------------------------------------------------

ThreadStep == ReadEvent \/ PollTimeout \/ Synchronise \/ Switch
MainStep   == StartFails \/ StartThread \/ ResetState
User       == \/ \E k \in Keys : PressKey(k) \/ ReleaseKey(k) \/ RepeatKey(k)
              \/ \E d \in Devices : OtherEvent(d)

Next == MainStep \/ ThreadStep \/ User \/ Tick

Spec == Init /\ [][Next]_vars

\* The scheduler runs both threads and time goes on.  Nobody has to press keys.
FairSpec == Spec /\ WF_vars(ThreadStep) /\ WF_vars(MainStep) /\ WF_vars(Tick)

-----------------------------------------------------------------------------
(* Properties.                                                             *)

\* The variables keep their types; of the states of zib_key.h, only those that
\* input_keys_analyse enters occur, and KEY_TRIPLE_PRESS and KEY_TRIPLE_RELEASE
\* are not among them.
TypeOK ==
  /\ main \in {"start", "reset", "join", "failed"}
  /\ pc \in {"none", "poll", "sync", "switch"}
  /\ ev \in {Event(k, v) : k \in Keys, v \in Values} \cup {Other, TIMEOUT}
  /\ diff \in 0 .. KEY_LONG_PRESS_TIME /\ age \in 0 .. KEY_LONG_PRESS_TIME
  /\ quiet \in 0 .. KEY_LONG_PRESS_TIME
  /\ code \in Keys \cup {NoCode}
  /\ state \in States
  /\ {stamped, lateReset, read} \subseteq BOOLEAN
  /\ down \subseteq Keys
  /\ \A d \in Devices : Len(queue[d]) <= MaxUnread
  /\ sent \in 0 .. MaxEvents
  /\ Len(log) <= LogLength
  /\ {report, open} \subseteq
       {NoReport} \cup {Report(n, k, v) : n \in Kinds, k \in Keys, v \in Values}

\* The last events analysed are those of key k with these values.
Ended(k, values) ==
  IsSuffix([n \in 1 .. Len(values) |-> Event(k, values[n])], log)

\* What the events must have been for a report to be right.
Justified(r) ==
  LET k == r.code IN
  /\ r.kind = "single" => Ended(k, <<"press", "release">>)
  /\ r.kind = "double" /\ r.value = "press" =>
       /\ Ended(k, <<"press", "release", "press">>)
       /\ quiet >= KEY_CLICK_GAP
  /\ r.kind = "triple" /\ r.value = "press" =>
       Ended(k, <<"press", "release", "press", "release", "press">>)
  /\ r.kind = "long" /\ r.value = "press" =>
       /\ Ended(k, <<"press">>)
       /\ quiet >= KEY_LONG_PRESS_TIME
  /\ r.kind # "single" /\ r.value = "release" => Ended(k, <<"release">>)

\* A report counts the presses of its own key that were made just before it,
\* with no other key's event between them, and a long press was a long one:
\* key_app.cpp 139-283 whatever the order of the keys, the timeouts and the
\* reset.  The exception is the first key ever seen (lines 130-138), which is
\* taken to have been pressed when the clock read 0: it is reported as a long
\* press or a single key, whatever was done with it.
ReportJustified ==
  report # NoReport => IF stamped THEN Justified(report)
                                  ELSE report.kind \in {"long", "single"}

\* A press that was reported is followed by the report of the same key's
\* release and by nothing before it: as long as one is open the state machine
\* waits for that key's release.  Only key_test's late assignment (line 325)
\* makes it forget.
PressStaysOpen ==
  open # NoReport /\ ~lateReset =>
    /\ state = CheckStates[open.kind]
    /\ code = open.code

\* The same for the reports themselves: an open press is closed by its release.
ReleaseMatches ==
  [][ open # NoReport /\ report' # report /\ report' # NoReport /\ ~lateReset
        => report' = [open EXCEPT !.value = "release"] ]_vars

\* A key event of a function key reaches input_keys_analyse, which is what the
\* filter is for (comment on line 296): once one was read and analysed, the
\* state machine knows a key.
FunctionKeysAnalysed == read /\ pc = "poll" => code # NoCode

\* Once every key is up and every event read, the state machine comes to rest
\* (lines 155, 187, 213 and 238: the timeouts).
GestureEnds ==
  []<>(state = "KEY_ALL_RELEASE" \/ down # {} \/ Ready # {})

=============================================================================
