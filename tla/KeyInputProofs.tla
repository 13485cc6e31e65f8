--------------------------- MODULE KeyInputProofs ---------------------------
(***************************************************************************)
(* Proofs about KeyInput for every set of keys and devices, every filter,  *)
(* all times and every number of events.                                   *)
(***************************************************************************)
EXTENDS KeyInput, SequenceTheorems, TLAPS

\* The events of the devices.
KeyEvents == {Event(k, value) : k \in Keys, value \in Values}
Messages  == KeyEvents \cup {Other}

EventsTyped ==
  /\ queue \in [Devices -> Seq(Messages)]
  /\ ev \in Messages \cup {TIMEOUT}
  /\ pc \in {"sync", "switch"} => ev # Other

\* Away from rest, and past the adoption of a key's event, a key is known.
KeyKnown ==
  /\ state # "KEY_ALL_RELEASE" => code # NoCode
  /\ pc = "switch" /\ ev # TIMEOUT => code # NoCode

\* An open report is of a press, and its key is awaited unless forgotten.
OpenFormed ==
  open # NoReport =>
    /\ open.kind \in {"double", "triple", "long"}
    /\ open = Report(open.kind, open.code, "press")
    /\ code # NoCode

IInv == EventsTyped /\ KeyKnown /\ OpenFormed /\ PressStaysOpen

LEMMA CheckStatesDistinct ==
  /\ DOMAIN CheckStates = {"double", "triple", "long"}
  /\ CheckStates["double"] = "KEY_CHECK_DOUBLE_KEY_RELEASE"
  /\ CheckStates["triple"] = "KEY_CHECK_TRIPLE_KEY_RELEASE"
  /\ CheckStates["long"] = "KEY_CHECK_LONG_KEY_RELEASE"
  BY DEF CheckStates

\* A key event carries a key's code.
LEMMA KeyEventCode ==
  ASSUME NEW e \in Messages \cup {TIMEOUT}, e # Other, e # TIMEOUT
  PROVE  e.code # NoCode
  BY KeyAssumption DEF Messages, KeyEvents, Event, NoCode

LEMMA InitIInv == Init => IInv
  BY DEF Init, IInv, EventsTyped, KeyKnown, OpenFormed, PressStaysOpen

\* A device's event is one of those a device may send.
LEMMA SendTyped ==
  ASSUME IInv, NEW d \in Devices, NEW e \in Messages, Send(d, e)
  PROVE  IInv'
  <1>1. EventsTyped'
    <2>1. Append(queue[d], e) \in Seq(Messages)
      BY AppendProperties DEF IInv, EventsTyped
    <2> QED
      BY <2>1 DEF IInv, EventsTyped, Send, thread
  <1> QED
    BY <1>1 DEF IInv, KeyKnown, OpenFormed, PressStaysOpen, Send, thread,
       lastKey, history

\* Taking the event of a device away leaves events.
LEMMA ReadTyped ==
  ASSUME IInv, ReadEvent
  PROVE  IInv'
  <1>1. PICK d \in Ready : /\ queue' = [queue EXCEPT ![d] = Tail(@)]
                           /\ ev' = Head(queue[d])
    BY DEF ReadEvent
  <1>2. queue[d] \in Seq(Messages) /\ queue[d] # <<>>
    BY DEF IInv, EventsTyped, Ready
  <1>3. Head(queue[d]) \in Messages /\ Tail(queue[d]) \in Seq(Messages)
    BY <1>2, HeadTailProperties
  <1>4. EventsTyped'
    BY <1>1, <1>3 DEF IInv, EventsTyped, ReadEvent, Ready
  <1> QED
    BY <1>4 DEF IInv, KeyKnown, OpenFormed, PressStaysOpen, ReadEvent, lastKey

\* The adoption of a key does not touch a machine that waits for a release.
LEMMA SynchroniseTyped ==
  ASSUME IInv, Synchronise
  PROVE  IInv'
  <1>1. EventsTyped'
    BY DEF IInv, EventsTyped, Synchronise, devices
  <1>2. KeyKnown'
    <2>1. ev # TIMEOUT => ev.code # NoCode
      BY KeyEventCode DEF IInv, EventsTyped, Synchronise
    <2> QED
      BY <2>1 DEF IInv, KeyKnown, Synchronise, Adopts
  <1>3. OpenFormed' /\ PressStaysOpen'
    <2>1. CASE Adopts
      <3>1. open = NoReport
        BY <2>1 DEF IInv, OpenFormed, Adopts
      <3> QED
        BY <3>1 DEF Synchronise, OpenFormed, PressStaysOpen
    <2>2. CASE ~Adopts
      BY <2>2 DEF IInv, Synchronise, OpenFormed, PressStaysOpen
    <2> QED
      BY <2>1, <2>2
  <1> QED
    BY <1>1, <1>2, <1>3 DEF IInv

\* What a case of the switch other than the waits for a release may do.
Moves ==
  /\ state' \in {"KEY_ALL_RELEASE", "KEY_FIRST_PRESS", "KEY_FIRST_RELEASE",
                 "KEY_SECOND_PRESS", "KEY_SECOND_RELEASE"}
  /\ open' \in {open, NoReport}
Prints(kind) ==
  /\ state' = CheckStates[kind]
  /\ open' = Report(kind, code, "press")
  /\ code # NoCode /\ code' = code

\* Outside those waits no press is open unless the reset made it forgotten.
LEMMA NothingOpen ==
  ASSUME IInv,
         state \in {"KEY_ALL_RELEASE", "KEY_FIRST_PRESS", "KEY_FIRST_RELEASE",
                    "KEY_SECOND_PRESS", "KEY_SECOND_RELEASE"}
  PROVE  open = NoReport \/ lateReset
  BY CheckStatesDistinct DEF IInv, OpenFormed, PressStaysOpen

LEMMA GestureTyped ==
  ASSUME IInv, Switch,
         AllRelease \/ FirstPress \/ FirstRelease \/ SecondPress
           \/ SecondRelease
  PROVE  IInv'
  <1>1. ev # Other
    BY DEF IInv, EventsTyped, Switch
  <1>2. EventsTyped'
    BY DEF IInv, EventsTyped, Switch, devices
  <1>3. code # NoCode => code' # NoCode
    <2>1. CASE AllRelease
      <3>1. Pressed => ev.code # NoCode
        BY <1>1, KeyEventCode DEF IInv, EventsTyped, Pressed, Idle
      <3> QED
        BY <2>1, <3>1 DEF AllRelease
    <2> QED
      BY <2>1 DEF FirstPress, FirstRelease, SecondPress, SecondRelease
  <1>4. KeyKnown'
    <2>1. CASE AllRelease
      <3>1. Pressed => ev.code # NoCode
        BY <1>1, KeyEventCode DEF IInv, EventsTyped, Pressed, Idle
      <3> QED
        BY <2>1, <3>1 DEF AllRelease, Goto, KeyKnown, Switch, IInv
    <2>2. CASE ~AllRelease
      <3>1. code # NoCode
        BY <2>2 DEF IInv, KeyKnown, FirstPress, FirstRelease, SecondPress,
           SecondRelease
      <3> QED
        BY <1>3, <3>1 DEF KeyKnown, Switch
    <2> QED
      BY <2>1, <2>2
  <1>5. Moves \/ \E kind \in DOMAIN CheckStates : Prints(kind)
    <2>1. CASE AllRelease
      BY <2>1 DEF AllRelease, Goto, Moves
    <2>2. CASE FirstPress
      <3>1. code # NoCode
        BY <2>2 DEF IInv, KeyKnown, FirstPress
      <3> QED
        BY <2>2, <3>1, CheckStatesDistinct DEF FirstPress, Goto, GotoPrinting,
           Moves, Prints, Report
    <2>3. CASE FirstRelease
      BY <2>3 DEF FirstRelease, Goto, GotoPrinting, Moves
    <2>4. CASE SecondPress
      <3>1. code # NoCode
        BY <2>4 DEF IInv, KeyKnown, SecondPress
      <3> QED
        BY <2>4, <3>1, CheckStatesDistinct DEF SecondPress, Goto, GotoPrinting,
           Moves, Prints, Report
    <2>5. CASE SecondRelease
      <3>1. code # NoCode
        BY <2>5 DEF IInv, KeyKnown, SecondRelease
      <3> QED
        BY <2>5, <3>1, CheckStatesDistinct DEF SecondRelease, Goto,
           GotoPrinting, Moves, Prints, Report
    <2> QED
      BY <2>1, <2>2, <2>3, <2>4, <2>5
  <1>6. open = NoReport \/ lateReset
    BY NothingOpen DEF AllRelease, FirstPress, FirstRelease, SecondPress,
       SecondRelease
  <1>7. OpenFormed' /\ PressStaysOpen'
    <2>1. lateReset' = lateReset
      BY DEF Switch
    <2>2. CASE Moves
      BY <1>3, <1>6, <2>1, <2>2 DEF Moves, IInv, OpenFormed, PressStaysOpen
    <2>3. ASSUME NEW kind \in DOMAIN CheckStates, Prints(kind)
          PROVE  OpenFormed' /\ PressStaysOpen'
      BY <2>3, CheckStatesDistinct DEF Prints, OpenFormed, PressStaysOpen,
         Report
    <2> QED
      BY <1>5, <2>2, <2>3
  <1> QED
    BY <1>2, <1>4, <1>7 DEF IInv

LEMMA CheckReleaseTyped ==
  ASSUME IInv, Switch, NEW kind \in DOMAIN CheckStates, CheckRelease(kind)
  PROVE  IInv'
  <1>1. EventsTyped'
    BY DEF IInv, EventsTyped, Switch, devices
  <1>2. KeyKnown'
    <2>1. code # NoCode
      BY CheckStatesDistinct DEF IInv, KeyKnown, CheckRelease
    <2> QED
      BY <2>1 DEF KeyKnown, CheckRelease
  <1>3. OpenFormed' /\ PressStaysOpen'
    <2>1. lateReset' = lateReset /\ code' = code
      BY DEF Switch, CheckRelease
    <2>2. CASE Released /\ SameKey
      <3>1. open' = NoReport
        BY <2>2 DEF CheckRelease, GotoPrinting
      <3> QED
        BY <3>1 DEF OpenFormed, PressStaysOpen
    <2>3. CASE ~(Released /\ SameKey)
      BY <2>1, <2>3 DEF CheckRelease, Goto, IInv, OpenFormed, PressStaysOpen
    <2> QED
      BY <2>2, <2>3
  <1> QED
    BY <1>1, <1>2, <1>3 DEF IInv

LEMMA NextIInv == IInv /\ [Next]_vars => IInv'
  <1> SUFFICES ASSUME IInv, [Next]_vars PROVE IInv'
    OBVIOUS
  <1>1. CASE MainStep
    <2>1. CASE StartFails
      BY <2>1 DEF StartFails, IInv, EventsTyped, KeyKnown, OpenFormed,
         PressStaysOpen, thread, lastKey, devices, history
    <2>2. CASE StartThread
      BY <2>2 DEF StartThread, IInv, EventsTyped, KeyKnown, OpenFormed,
         PressStaysOpen, lastKey, devices, history
    <2>3. CASE ResetState
      BY <2>3 DEF ResetState, IInv, EventsTyped, KeyKnown, OpenFormed,
         PressStaysOpen, thread, devices
    <2> QED
      BY <1>1, <2>1, <2>2, <2>3 DEF MainStep
  <1>2. CASE ThreadStep
    <2>1. CASE PollTimeout
      <3>1. TIMEOUT # Other
        BY DEF TIMEOUT, Other, Event
      <3> QED
        BY <2>1, <3>1 DEF PollTimeout, IInv, EventsTyped, KeyKnown, OpenFormed,
           PressStaysOpen, lastKey, devices, history
    <2>2. CASE Switch
      BY <2>2, GestureTyped, CheckReleaseTyped DEF Switch
    <2> QED
      BY <1>2, <2>1, <2>2, ReadTyped, SynchroniseTyped DEF ThreadStep
  <1>3. CASE User
    <2>1. ASSUME NEW k \in Keys, PressKey(k) \/ ReleaseKey(k) \/ RepeatKey(k)
          PROVE  IInv'
      <3>1. DeviceOf[k] \in Devices
        BY KeyAssumption
      <3>2. \A value \in Values : Event(k, value) \in Messages
        BY DEF Messages, KeyEvents
      <3> QED
        BY <2>1, <3>1, <3>2, SendTyped DEF PressKey, ReleaseKey, RepeatKey,
           Values
    <2>2. ASSUME NEW d \in Devices, OtherEvent(d)
          PROVE  IInv'
      BY <2>2, SendTyped DEF OtherEvent, Messages
    <2> QED
      BY <1>3, <2>1, <2>2 DEF User
  <1>4. CASE Tick
    BY <1>4 DEF Tick, IInv, EventsTyped, KeyKnown, OpenFormed, PressStaysOpen,
       thread, devices
  <1>5. CASE UNCHANGED vars
    BY <1>5 DEF vars, IInv, EventsTyped, KeyKnown, OpenFormed, PressStaysOpen,
       thread, lastKey, devices, history
  <1> QED
    BY <1>1, <1>2, <1>3, <1>4, <1>5 DEF Next

-----------------------------------------------------------------------------

THEOREM Invariance == Spec => []IInv
  BY InitIInv, NextIInv, PTL DEF Spec

\* While a reported press is open the machine waits for its key's release.
THEOREM Open == Spec => []PressStaysOpen
  <1>1. IInv => PressStaysOpen
    BY DEF IInv
  <1> QED
    BY <1>1, Invariance, PTL

\* The next report after a press is of the same key's release.
THEOREM Paired == Spec => ReleaseMatches
  <1> DEFINE Pair == open # NoReport /\ report' # report /\ report' # NoReport
                       /\ ~lateReset
                     => report' = [open EXCEPT !.value = "release"]
  <1>1. IInv /\ [Next]_vars => [Pair]_vars
    <2> SUFFICES ASSUME IInv, Next, open # NoReport, report' # report,
                        report' # NoReport, ~lateReset
                 PROVE  report' = [open EXCEPT !.value = "release"]
      OBVIOUS
    <2>1. Switch
      BY DEF Next, MainStep, ThreadStep, User, StartFails, StartThread,
         ResetState, ReadEvent, PollTimeout, Synchronise, PressKey, ReleaseKey,
         RepeatKey, OtherEvent, Send, Tick, history
    <2>2. /\ open.kind \in {"double", "triple", "long"}
          /\ open = Report(open.kind, open.code, "press")
          /\ state = CheckStates[open.kind] /\ code = open.code
      BY DEF IInv, OpenFormed, PressStaysOpen
    <2>3. CheckRelease(open.kind)
      <3>1. ~(AllRelease \/ FirstPress \/ FirstRelease \/ SecondPress
                \/ SecondRelease)
        BY <2>2, CheckStatesDistinct DEF AllRelease, FirstPress, FirstRelease,
           SecondPress, SecondRelease
      <3>2. PICK kind \in DOMAIN CheckStates : CheckRelease(kind)
        BY <2>1, <3>1 DEF Switch
      <3>3. kind = open.kind
        BY <2>2, <3>2, CheckStatesDistinct DEF CheckRelease
      <3> QED
        BY <3>2, <3>3
    <2>4. report' = Report(open.kind, open.code, "release")
      BY <2>2, <2>3 DEF CheckRelease, Goto, GotoPrinting
    <2> QED
      BY <2>2, <2>4 DEF Report
  <1> QED
    BY <1>1, Invariance, PTL DEF Spec, ReleaseMatches

-----------------------------------------------------------------------------
(* The types.                                                              *)

Reports == {NoReport}
             \cup {Report(n, k, v) : n \in Kinds, k \in Keys, v \in Values}

StepsTyped ==
  /\ main \in {"start", "reset", "join", "failed"}
  /\ pc \in {"none", "poll", "sync", "switch"}
  /\ code \in Keys \cup {NoCode}
  /\ state \in States
ClocksTyped == {diff, age, quiet} \subseteq 0 .. KEY_LONG_PRESS_TIME
FlagsTyped  == {stamped, lateReset, read} \subseteq BOOLEAN
DevicesTyped ==
  /\ down \subseteq Keys
  /\ \A d \in Devices : Len(queue[d]) <= MaxUnread
  /\ sent \in 0 .. MaxEvents
LogTyped     == log \in Seq(KeyEvents) /\ Len(log) <= LogLength
ReportsTyped == {report, open} \subseteq Reports

Typed == StepsTyped /\ ClocksTyped /\ FlagsTyped /\ DevicesTyped /\ LogTyped
           /\ ReportsTyped

\* The log keeps its length.
LEMMA NewestTyped ==
  ASSUME LogTyped, NEW e \in KeyEvents
  PROVE  Newest(Append(log, e)) \in Seq(KeyEvents)
         /\ Len(Newest(Append(log, e))) <= LogLength
  <1> DEFINE s == Append(log, e)
  <1>1. s \in Seq(KeyEvents) /\ Len(s) = Len(log) + 1
    BY AppendProperties DEF LogTyped
  <1>2. Len(log) \in Nat /\ Len(log) <= 5
    BY LenProperties DEF LogTyped, LogLength
  <1>3. CASE Len(s) > LogLength
    <2>1. SubSeq(s, 2, Len(s)) \in Seq(KeyEvents)
          /\ Len(SubSeq(s, 2, Len(s))) = Len(s) - 1
      <3> HIDE DEF s
      <3>1. /\ 2 \in 1 .. (Len(s) + 1)
            /\ Len(s) \in 2 - 1 .. Len(s)
        BY <1>1, <1>2
      <3>2. \A j \in 2 .. Len(s) : s[j] \in KeyEvents
        BY <1>1, ElementOfSeq
      <3> QED
        BY <1>1, <1>2, <3>1, <3>2, SubSeqProperties
    <2>2. Newest(s) = SubSeq(s, 2, Len(s))
      BY <1>3 DEF Newest
    <2> QED
      BY <1>1, <1>2, <2>1, <2>2 DEF LogLength
  <1>4. CASE ~(Len(s) > LogLength)
    <2>1. Newest(s) = SubSeq(s, 1, Len(s))
      BY <1>4 DEF Newest
    <2>2. SubSeq(s, 1, Len(s)) = s
      BY <1>1, SubSeqFull
    <2> QED
      BY <1>1, <1>2, <1>4, <2>1, <2>2 DEF LogLength
  <1> QED
    BY <1>3, <1>4

\* A case of the switch keeps the types.
LEMMA CasesTyped ==
  ASSUME IInv, Typed, Switch
  PROVE  Typed'
  <1>1. code' \in Keys \cup {NoCode}
    <2>1. CASE AllRelease
      <3>1. Pressed => ev \in KeyEvents
        BY DEF IInv, EventsTyped, Messages, Switch, Pressed, Idle
      <3>2. Pressed => ev.code \in Keys
        BY <3>1 DEF KeyEvents, Event
      <3> QED
        BY <2>1, <3>2 DEF AllRelease, Typed, StepsTyped
    <2> QED
      BY <2>1 DEF Switch, FirstPress, FirstRelease, SecondPress, SecondRelease,
         CheckRelease, Typed, StepsTyped
  <1>2. state' \in States
    <2>1. state \in States
      BY DEF Typed, StepsTyped
    <2>2. \A kind \in DOMAIN CheckStates : CheckRelease(kind)
            => state' \in States
      BY <2>1 DEF CheckRelease, Goto, GotoPrinting, States
    <2>3. CASE AllRelease
      BY <2>1, <2>3 DEF AllRelease, Goto, States
    <2>4. CASE FirstPress
      BY <2>1, <2>4, CheckStatesDistinct DEF FirstPress, Goto, GotoPrinting,
         States
    <2>5. CASE FirstRelease
      BY <2>1, <2>5 DEF FirstRelease, Goto, GotoPrinting, States
    <2>6. CASE SecondPress
      BY <2>1, <2>6, CheckStatesDistinct DEF SecondPress, Goto, GotoPrinting,
         States
    <2>7. CASE SecondRelease
      BY <2>1, <2>7, CheckStatesDistinct DEF SecondRelease, Goto,
         GotoPrinting, States
    <2> QED
      BY <2>2, <2>3, <2>4, <2>5, <2>6, <2>7 DEF Switch
  <1>3. StepsTyped'
    BY <1>1, <1>2 DEF Switch, Typed, StepsTyped
  <1>4. ClocksTyped' /\ FlagsTyped'
    <2>1. KeepTime \/ StampTime
      BY DEF Switch, AllRelease, FirstPress, FirstRelease, SecondPress,
         SecondRelease, CheckRelease
    <2>2. 0 \in 0 .. KEY_LONG_PRESS_TIME
      BY TimeAssumption
    <2>3. age' \in {age, 0} /\ diff' = diff /\ quiet' = quiet
      BY <2>1 DEF Switch, KeepTime, StampTime
    <2>4. ClocksTyped'
      BY <2>2, <2>3 DEF Typed, ClocksTyped
    <2>5. stamped' = stamped \/ stamped' = TRUE
      BY <2>1 DEF KeepTime, StampTime
    <2>6. FlagsTyped'
      BY <2>5, Zenon DEF Switch, Typed, FlagsTyped
    <2> QED
      BY <2>4, <2>6
  <1>5. DevicesTyped' /\ LogTyped'
    BY DEF Switch, Typed, DevicesTyped, LogTyped, devices
  <1>6. ReportsTyped'
    <2>1. ASSUME code # NoCode, NEW s, NEW kind \in Kinds,
                 NEW value \in {"press", "release"},
                 GotoPrinting(s, kind, value)
          PROVE  ReportsTyped'
      <3>1. Report(kind, code, value) \in Reports
        BY <2>1 DEF Typed, StepsTyped, Reports, Values
      <3> QED
        BY <2>1, <3>1 DEF GotoPrinting, ReportsTyped, Reports
    <2>2. ASSUME NEW s, Goto(s)
          PROVE  ReportsTyped'
      BY <2>2 DEF Goto, Typed, ReportsTyped
    <2>3. state # "KEY_ALL_RELEASE" => code # NoCode
      BY DEF IInv, KeyKnown
    <2>4. CASE AllRelease
      BY <2>2, <2>4 DEF AllRelease
    <2>5. CASE FirstPress
      BY <2>1, <2>2, <2>3, <2>5 DEF FirstPress, Kinds
    <2>6. CASE FirstRelease
      BY <2>1, <2>2, <2>3, <2>6 DEF FirstRelease, Kinds
    <2>7. CASE SecondPress
      BY <2>1, <2>2, <2>3, <2>7 DEF SecondPress, Kinds
    <2>8. CASE SecondRelease
      BY <2>1, <2>2, <2>3, <2>8 DEF SecondRelease, Kinds
    <2>9. ASSUME NEW kind \in DOMAIN CheckStates, CheckRelease(kind)
          PROVE  ReportsTyped'
      <3>1. state # "KEY_ALL_RELEASE" /\ kind \in Kinds
        BY <2>9, CheckStatesDistinct DEF CheckRelease, Kinds
      <3> QED
        BY <2>1, <2>2, <2>3, <2>9, <3>1 DEF CheckRelease
    <2> QED
      BY <2>4, <2>5, <2>6, <2>7, <2>8, <2>9 DEF Switch
  <1> QED
    BY <1>3, <1>4, <1>5, <1>6 DEF Typed

LEMMA SynchroniseTypes ==
  ASSUME IInv, Typed, Synchronise
  PROVE  Typed'
  <1>1. ev # TIMEOUT => ev \in KeyEvents
    BY DEF IInv, EventsTyped, Messages, Synchronise
  <1>2. ev # TIMEOUT => ev.code \in Keys
    BY <1>1 DEF KeyEvents, Event
  <1>3. StepsTyped'
    BY <1>2 DEF Synchronise, Adopts, Typed, StepsTyped, States
  <1>4. ClocksTyped'
    <2>1. 0 \in 0 .. KEY_LONG_PRESS_TIME
      BY TimeAssumption
    <2>2. quiet' \in {quiet, 0} /\ diff' = age /\ age' = age
      BY DEF Synchronise
    <2> QED
      BY <2>1, <2>2 DEF Typed, ClocksTyped
  <1>5. FlagsTyped'
    BY Zenon DEF Synchronise, Typed, FlagsTyped
  <1>6. DevicesTyped'
    BY DEF Synchronise, Typed, DevicesTyped, devices
  <1>7. LogTyped'
    <2>1. CASE Idle
      BY <2>1 DEF Synchronise, Typed, LogTyped
    <2>2. CASE ~Idle
      <3>1. ev \in KeyEvents /\ LogTyped
        BY <1>1, <2>2 DEF Idle, Typed
      <3>2. log' = Newest(Append(log, ev))
        BY <2>2 DEF Synchronise
      <3>3. Newest(Append(log, ev)) \in Seq(KeyEvents)
            /\ Len(Newest(Append(log, ev))) <= LogLength
        BY <3>1, NewestTyped
      <3> QED
        BY <3>2, <3>3 DEF LogTyped
    <2> QED
      BY <2>1, <2>2
  <1>8. ReportsTyped'
    BY DEF Synchronise, Typed, ReportsTyped, Reports
  <1> QED
    BY <1>3, <1>4, <1>5, <1>6, <1>7, <1>8 DEF Typed

LEMMA ReadTypes ==
  ASSUME IInv, Typed, ReadEvent
  PROVE  Typed'
  <1>1. PICK d \in Ready : queue' = [queue EXCEPT ![d] = Tail(@)]
    BY DEF ReadEvent
  <1>2. d \in Devices /\ queue[d] \in Seq(Messages) /\ queue[d] # <<>>
    BY DEF IInv, EventsTyped, Ready
  <1>3. Len(Tail(queue[d])) <= Len(queue[d]) /\ Len(queue[d]) \in Nat
    BY <1>2, HeadTailProperties, LenProperties
  <1>4. DevicesTyped'
    <2>1. \A other \in Devices : Len(queue'[other]) <= MaxUnread
      <3> TAKE other \in Devices
      <3>1. CASE other = d
        <4>1. Len(queue'[other]) = Len(Tail(queue[d]))
          BY <1>1, <1>2, <3>1 DEF IInv, EventsTyped
        <4>2. Len(Tail(queue[d])) \in Nat
          BY <1>2, HeadTailProperties, LenProperties
        <4> QED
          BY <1>2, <1>3, <4>1, <4>2, TimeAssumption DEF Typed, DevicesTyped
      <3>2. CASE other # d
        BY <1>1, <3>2 DEF IInv, EventsTyped, Typed, DevicesTyped
      <3> QED
        BY <3>1, <3>2
    <2> QED
      BY <2>1 DEF ReadEvent, Typed, DevicesTyped
  <1>5. StepsTyped'
    BY DEF ReadEvent, Typed, StepsTyped, lastKey
  <1>6. ClocksTyped'
    BY DEF ReadEvent, Typed, ClocksTyped, lastKey
  <1>7. FlagsTyped'
    <2>1. read' \in BOOLEAN
      BY Zenon DEF ReadEvent
    <2> QED
      BY <2>1, Zenon DEF ReadEvent, Typed, FlagsTyped, lastKey
  <1>8. LogTyped' /\ ReportsTyped'
    BY DEF ReadEvent, Typed, LogTyped, ReportsTyped
  <1> QED
    BY <1>4, <1>5, <1>6, <1>7, <1>8 DEF Typed

LEMMA SendTypes ==
  ASSUME IInv, Typed, NEW d \in Devices, NEW e \in Messages, Send(d, e),
         down' \subseteq Keys
  PROVE  Typed'
  <1>1. queue[d] \in Seq(Messages) /\ Len(queue[d]) \in Nat
    BY LenProperties DEF IInv, EventsTyped
  <1>2. Len(Append(queue[d], e)) = Len(queue[d]) + 1
    BY <1>1, AppendProperties
  <1>3. DevicesTyped'
    <2>1. \A other \in Devices : Len(queue'[other]) <= MaxUnread
      <3> TAKE other \in Devices
      <3>1. CASE other = d
        <4>1. Len(queue'[other]) = Len(queue[d]) + 1
          BY <1>2, <3>1 DEF Send, IInv, EventsTyped
        <4> QED
          BY <1>1, <4>1, TimeAssumption DEF Send
      <3>2. CASE other # d
        BY <3>2 DEF Send, IInv, EventsTyped, Typed, DevicesTyped
      <3> QED
        BY <3>1, <3>2
    <2>2. sent' \in 0 .. MaxEvents
      BY TimeAssumption DEF Send, Typed, DevicesTyped
    <2> QED
      BY <2>1, <2>2 DEF DevicesTyped
  <1>4. StepsTyped' /\ ClocksTyped' /\ LogTyped' /\ ReportsTyped'
    BY DEF Send, Typed, StepsTyped, ClocksTyped, LogTyped, ReportsTyped,
       thread, lastKey, history
  <1>5. FlagsTyped'
    BY Zenon DEF Send, Typed, FlagsTyped, lastKey, history
  <1> QED
    BY <1>3, <1>4, <1>5 DEF Typed

LEMMA InitTyped == Init => Typed
  <1> SUFFICES ASSUME Init PROVE Typed
    OBVIOUS
  <1>1. StepsTyped
    BY DEF Init, StepsTyped, States
  <1>2. ClocksTyped
    BY TimeAssumption DEF Init, ClocksTyped, Never
  <1>3. FlagsTyped
    BY Zenon DEF Init, FlagsTyped
  <1>4. DevicesTyped
    BY TimeAssumption DEF Init, DevicesTyped
  <1>5. LogTyped
    BY DEF Init, LogTyped, LogLength
  <1>6. ReportsTyped
    BY DEF Init, ReportsTyped, Reports
  <1> QED
    BY <1>1, <1>2, <1>3, <1>4, <1>5, <1>6 DEF Typed

LEMMA NextTyped == IInv /\ Typed /\ [Next]_vars => Typed'
  <1> SUFFICES ASSUME IInv, Typed, [Next]_vars PROVE Typed'
    OBVIOUS
  <1>1. CASE MainStep \/ PollTimeout \/ UNCHANGED vars
    <2>1. StepsTyped'
      BY <1>1 DEF MainStep, StartFails, StartThread, ResetState, PollTimeout,
         vars, thread, lastKey, Typed, StepsTyped, States
    <2>2. ClocksTyped' /\ LogTyped' /\ ReportsTyped'
      BY <1>1 DEF MainStep, StartFails, StartThread, ResetState, PollTimeout,
         vars, thread, lastKey, history, Typed, ClocksTyped, LogTyped,
         ReportsTyped
    <2>3. FlagsTyped'
      <3>1. lateReset' = lateReset \/ lateReset' \in BOOLEAN
        BY <1>1, Zenon DEF MainStep, StartFails, StartThread, ResetState,
           PollTimeout, vars, history
      <3>2. stamped' = stamped /\ read' = read
        BY <1>1 DEF MainStep, StartFails, StartThread, ResetState,
           PollTimeout, vars, lastKey, history
      <3> QED
        BY <3>1, <3>2, Zenon DEF Typed, FlagsTyped
    <2>4. DevicesTyped'
      BY <1>1 DEF MainStep, StartFails, StartThread, ResetState, PollTimeout,
         vars, devices, Typed, DevicesTyped
    <2> QED
      BY <2>1, <2>2, <2>3, <2>4 DEF Typed
  <1>2. CASE User
    <2>1. ASSUME NEW k \in Keys, PressKey(k) \/ ReleaseKey(k) \/ RepeatKey(k)
          PROVE  Typed'
      <3>1. DeviceOf[k] \in Devices
        BY KeyAssumption
      <3>2. \A value \in Values : Event(k, value) \in Messages
        BY DEF Messages, KeyEvents
      <3>3. down' \subseteq Keys
        BY <2>1 DEF PressKey, ReleaseKey, RepeatKey, Typed, DevicesTyped
      <3> QED
        BY <2>1, <3>1, <3>2, <3>3, SendTypes DEF PressKey, ReleaseKey,
           RepeatKey, Values
    <2>2. ASSUME NEW d \in Devices, OtherEvent(d)
          PROVE  Typed'
      <3>1. down' \subseteq Keys /\ Other \in Messages
        BY <2>2 DEF OtherEvent, Typed, DevicesTyped, Messages
      <3> QED
        BY <2>2, <3>1, SendTypes DEF OtherEvent
    <2> QED
      BY <1>2, <2>1, <2>2 DEF User
  <1>3. CASE Tick
    <2>1. ClocksTyped'
      <3>1. \A t \in 0 .. KEY_LONG_PRESS_TIME :
              Older(t) \in 0 .. KEY_LONG_PRESS_TIME
        BY TimeAssumption DEF Older
      <3>2. {diff, age, quiet} \subseteq 0 .. KEY_LONG_PRESS_TIME
        BY DEF Typed, ClocksTyped
      <3>3. age' \in 0 .. KEY_LONG_PRESS_TIME
            /\ quiet' \in 0 .. KEY_LONG_PRESS_TIME
        BY <1>3, <3>1, <3>2 DEF Tick
      <3> QED
        BY <1>3, <3>2, <3>3 DEF Tick, ClocksTyped, thread
    <2>2. StepsTyped' /\ LogTyped' /\ ReportsTyped'
      BY <1>3 DEF Tick, thread, Typed, StepsTyped, LogTyped, ReportsTyped
    <2>3. DevicesTyped'
      BY <1>3 DEF Tick, devices, Typed, DevicesTyped
    <2>4. FlagsTyped'
      BY <1>3, Zenon DEF Tick, Typed, FlagsTyped
    <2> QED
      BY <2>1, <2>2, <2>3, <2>4 DEF Typed
  <1> QED
    BY <1>1, <1>2, <1>3, ReadTypes, SynchroniseTypes, CasesTyped DEF Next,
       ThreadStep

\* No variable of the key test leaves its type: no clock its range, no queue
\* and no log its length, and no state but those listed is entered.
THEOREM TypeCorrect == Spec => []TypeOK
  <1>1. Spec => []Typed
    BY InitTyped, NextTyped, Invariance, PTL DEF Spec
  <1>2. IInv /\ Typed => TypeOK
    BY DEF IInv, EventsTyped, Messages, KeyEvents, Typed, StepsTyped,
       ClocksTyped, FlagsTyped, DevicesTyped, LogTyped, ReportsTyped, Reports,
       TypeOK
  <1> QED
    BY <1>1, <1>2, Invariance, PTL

-----------------------------------------------------------------------------
(* Presses and releases of a key take turns, wherever they are on their way *)
(* from the device to the log.                                              *)

Stroke(e) == e.value \in {"press", "release"}
Held(k)   == IF k \in down THEN "press" ELSE "release"
LastOf(s) == s[Len(s)]

\* heard[k][i] is what key k was last, behind the first i events its device
\* has for the reader: nothing of it is read for i = 0, all of it is known to
\* the device at the end.
Heard(heard) ==
  \A k \in Keys :
    /\ \A i \in 1 .. Len(queue[DeviceOf[k]]) :
         LET e == queue[DeviceOf[k]][i]
         IN  /\ e.code = k /\ Stroke(e) =>
                  heard[k][i] = e.value /\ heard[k][i - 1] # e.value
             /\ ~(e.code = k /\ Stroke(e)) => heard[k][i] = heard[k][i - 1]
    /\ heard[k][Len(queue[DeviceOf[k]])] = Held(k)

OwnDevice ==
  \A d \in Devices : \A i \in 1 .. Len(queue[d]) :
    Stroke(queue[d][i]) =>
      queue[d][i].code \in Keys /\ DeviceOf[queue[d][i].code] = d

\* A stroke that is being analysed, and the last one in the log, are the last
\* ones read of their key.
Noted(heard) ==
  /\ pc = "sync" /\ Stroke(ev) =>
       /\ ev.code \in Keys /\ PassesFilter(ev.code)
       /\ heard[ev.code][0] = ev.value
  /\ log # <<>> =>
       LET e == LastOf(log)
       IN  /\ Stroke(e) /\ PassesFilter(e.code)
           /\ pc = "sync" /\ Stroke(ev) /\ ev.code = e.code => ev.value # e.value
           /\ ~(pc = "sync" /\ Stroke(ev) /\ ev.code = e.code) =>
                heard[e.code][0] = e.value

Hearings == [Keys -> [Nat -> {"press", "release"}]]
Signals ==
  OwnDevice /\ \E heard \in Hearings : Heard(heard) /\ Noted(heard)

\* What is in the log is a key's.
LEMMA LogCode ==
  ASSUME Typed, log # <<>>
  PROVE  /\ Len(log) \in 1 .. Len(log) /\ LastOf(log) \in KeyEvents
         /\ LastOf(log).code \in Keys
  <1>1. log \in Seq(KeyEvents)
    BY DEF Typed, LogTyped
  <1>2. Len(log) \in 1 .. Len(log)
    BY <1>1, EmptySeq
  <1>3. LastOf(log) \in KeyEvents
    BY <1>1, <1>2, ElementOfSeq DEF LastOf
  <1> QED
    BY <1>2, <1>3 DEF KeyEvents, Event

\* One more event of a device.
LEMMA SendSignals ==
  ASSUME IInv, Typed, Signals, NEW d \in Devices, NEW e \in Messages, Send(d, e),
         Stroke(e) => /\ e.code \in Keys /\ DeviceOf[e.code] = d
                      /\ Held(e.code) # e.value /\ Held(e.code)' = e.value,
         \A k \in Keys : ~(e.code = k /\ Stroke(e)) => Held(k)' = Held(k)
  PROVE  Signals'
  <1>0. /\ queue \in [Devices -> Seq(Messages)]
        /\ queue' = [queue EXCEPT ![d] = Append(queue[d], e)]
        /\ UNCHANGED <<pc, ev, log>> /\ \A k \in Keys : DeviceOf[k] \in Devices
    BY KeyAssumption DEF IInv, EventsTyped, Send, thread, history
  <1>1. PICK heard \in Hearings : Heard(heard) /\ Noted(heard)
    BY DEF Signals
  <1> DEFINE n == Len(queue[d])
  <1>2. /\ n \in Nat /\ Len(queue'[d]) = n + 1 /\ queue'[d][n + 1] = e
        /\ \A i \in 1 .. n : queue'[d][i] = queue[d][i]
        /\ \A c \in Devices : c # d => queue'[c] = queue[c]
    <2>1. queue[d] \in Seq(Messages) /\ queue'[d] = Append(queue[d], e)
      BY <1>0
    <2> QED
      BY <1>0, <2>1, AppendProperties, LenProperties
  <1>3. \E more \in Hearings :
          /\ \A k \in Keys : DeviceOf[k] # d => more[k] = heard[k]
          /\ \A k \in Keys, i \in 0 .. n : more[k][i] = heard[k][i]
          /\ \A k \in Keys : DeviceOf[k] = d =>
               /\ e.code = k /\ Stroke(e) => more[k][n + 1] = e.value
               /\ ~(e.code = k /\ Stroke(e)) => more[k][n + 1] = heard[k][n]
    <2> DEFINE m == [k \in Keys |->
                       IF DeviceOf[k] = d
                       THEN [i \in Nat |->
                               IF i <= n THEN heard[k][i]
                               ELSE IF e.code = k /\ Stroke(e) THEN e.value
                               ELSE heard[k][n]]
                       ELSE heard[k]]
    <2>1. m \in Hearings
      BY <1>2 DEF Hearings, Stroke
    <2>2. /\ \A k \in Keys : DeviceOf[k] # d => m[k] = heard[k]
          /\ \A k \in Keys, i \in 0 .. n : m[k][i] = heard[k][i]
          /\ \A k \in Keys : DeviceOf[k] = d =>
               /\ e.code = k /\ Stroke(e) => m[k][n + 1] = e.value
               /\ ~(e.code = k /\ Stroke(e)) => m[k][n + 1] = heard[k][n]
      BY <1>2 DEF Hearings
    <2> HIDE DEF m
    <2> QED
      BY <2>1, <2>2
  <1>4. PICK more \in Hearings :
          /\ \A k \in Keys : DeviceOf[k] # d => more[k] = heard[k]
          /\ \A k \in Keys, i \in 0 .. n : more[k][i] = heard[k][i]
          /\ \A k \in Keys : DeviceOf[k] = d =>
               /\ e.code = k /\ Stroke(e) => more[k][n + 1] = e.value
               /\ ~(e.code = k /\ Stroke(e)) => more[k][n + 1] = heard[k][n]
    BY <1>3
  <1> HIDE DEF n
  <1>5. OwnDevice'
    <2> SUFFICES ASSUME NEW c \in Devices, NEW i \in 1 .. Len(queue'[c]),
                        Stroke(queue'[c][i])
                 PROVE  queue'[c][i].code \in Keys
                        /\ DeviceOf[queue'[c][i].code] = c
      BY DEF OwnDevice, Stroke
    <2>1. CASE c = d /\ i = n + 1
      BY <1>2, <2>1
    <2>2. CASE ~(c = d /\ i = n + 1)
      <3>1. i \in 1 .. Len(queue[c]) /\ queue'[c][i] = queue[c][i]
        BY <1>2, <2>2 DEF n
      <3> QED
        BY <3>1 DEF Signals, OwnDevice
    <2> QED
      BY <2>1, <2>2
  <1>6. Heard(more)'
    <2> SUFFICES ASSUME NEW k \in Keys
                 PROVE  /\ \A i \in 1 .. Len(queue'[DeviceOf[k]]) :
                             LET a == queue'[DeviceOf[k]][i]
                             IN  /\ a.code = k /\ Stroke(a) =>
                                      /\ more[k][i] = a.value
                                      /\ more[k][i - 1] # a.value
                                 /\ ~(a.code = k /\ Stroke(a)) =>
                                      more[k][i] = more[k][i - 1]
                        /\ more[k][Len(queue'[DeviceOf[k]])] = Held(k)'
      BY DEF Heard, Stroke, Held
    <2>1. CASE DeviceOf[k] # d
      <3>1. queue'[DeviceOf[k]] = queue[DeviceOf[k]] /\ more[k] = heard[k]
        BY <1>0, <1>2, <1>4, <2>1
      <3>2. Held(k)' = Held(k)
        BY <2>1
      <3> QED
        BY <1>1, <3>1, <3>2 DEF Heard
    <2>2. CASE DeviceOf[k] = d
      <3>1. ASSUME NEW i \in 1 .. n
            PROVE  LET a == queue'[d][i]
                   IN  /\ a.code = k /\ Stroke(a) =>
                            more[k][i] = a.value /\ more[k][i - 1] # a.value
                       /\ ~(a.code = k /\ Stroke(a)) =>
                            more[k][i] = more[k][i - 1]
        <4>1. /\ queue'[d][i] = queue[d][i] /\ more[k][i] = heard[k][i]
              /\ more[k][i - 1] = heard[k][i - 1]
          BY <1>2, <1>4
        <4> QED
          BY <1>1, <2>2, <4>1 DEF Heard, n
      <3>2. heard[k][n] = Held(k) /\ more[k][n] = heard[k][n]
        BY <1>1, <1>2, <1>4, <2>2 DEF Heard, n
      <3>3. more[k][n + 1] = Held(k)'
        BY <1>4, <2>2, <3>2
      <3>4. /\ e.code = k /\ Stroke(e) =>
                 more[k][n + 1] = e.value /\ more[k][n] # e.value
            /\ ~(e.code = k /\ Stroke(e)) => more[k][n + 1] = more[k][n]
        BY <1>4, <2>2, <3>2
      <3>5. \A i \in 1 .. n + 1 : i \in 1 .. n \/ (i = n + 1 /\ i - 1 = n)
        BY <1>2
      <3> QED
        BY <1>2, <2>2, <3>1, <3>3, <3>4, <3>5
    <2> QED
      BY <2>1, <2>2
  <1>7. Noted(more)'
    <2>1. \A k \in Keys : more[k][0] = heard[k][0]
      BY <1>2, <1>4
    <2>2. log # <<>> => LastOf(log).code \in Keys
      BY LogCode    <2> QED
      BY <1>0, <1>1, <2>1, <2>2 DEF Noted, Stroke, LastOf, PassesFilter,
         CodedFilter
  <1> QED
    BY <1>4, <1>5, <1>6, <1>7 DEF Signals

\* The reader takes the first event of a device.
LEMMA ReadSignals ==
  ASSUME IInv, Typed, Signals, ReadEvent
  PROVE  Signals'
  <1>1. PICK d \in Ready : /\ queue' = [queue EXCEPT ![d] = Tail(queue[d])]
                           /\ ev' = Head(queue[d])
    BY DEF ReadEvent
  <1>2. /\ d \in Devices /\ queue[d] \in Seq(Messages) /\ queue[d] # <<>>
        /\ queue \in [Devices -> Seq(Messages)]
        /\ UNCHANGED <<log, down>> /\ pc = "poll"
        /\ \A k \in Keys : DeviceOf[k] \in Devices
    BY KeyAssumption DEF IInv, EventsTyped, Ready, ReadEvent
  <1>3. PICK heard \in Hearings : Heard(heard) /\ Noted(heard)
    BY DEF Signals
  <1> DEFINE n == Len(queue[d])
  <1>4. /\ n \in Nat /\ n > 0 /\ Len(queue'[d]) = n - 1 /\ ev' = queue[d][1]
        /\ \A i \in 1 .. n - 1 : queue'[d][i] = queue[d][i + 1]
        /\ \A c \in Devices : c # d => queue'[c] = queue[c]
    <2>1. queue'[d] = Tail(queue[d])
      BY <1>1, <1>2
    <2> QED
      BY <1>1, <1>2, <2>1, HeadTailProperties, EmptySeq, LenProperties
  <1>5. \E less \in Hearings :
          \A k \in Keys :
            /\ DeviceOf[k] # d => less[k] = heard[k]
            /\ DeviceOf[k] = d => \A i \in Nat : less[k][i] = heard[k][i + 1]
    <2> DEFINE l == [k \in Keys |-> IF DeviceOf[k] = d
                                    THEN [i \in Nat |-> heard[k][i + 1]]
                                    ELSE heard[k]]
    <2>1. l \in Hearings
      BY DEF Hearings
    <2>2. \A k \in Keys :
            /\ DeviceOf[k] # d => l[k] = heard[k]
            /\ DeviceOf[k] = d => \A i \in Nat : l[k][i] = heard[k][i + 1]
      OBVIOUS
    <2> HIDE DEF l
    <2> QED
      BY <2>1, <2>2
  <1>6. PICK less \in Hearings :
          \A k \in Keys :
            /\ DeviceOf[k] # d => less[k] = heard[k]
            /\ DeviceOf[k] = d => \A i \in Nat : less[k][i] = heard[k][i + 1]
    BY <1>5
  <1> HIDE DEF n
  <1>7. OwnDevice'
    <2> SUFFICES ASSUME NEW c \in Devices, NEW i \in 1 .. Len(queue'[c]),
                        Stroke(queue'[c][i])
                 PROVE  queue'[c][i].code \in Keys
                        /\ DeviceOf[queue'[c][i].code] = c
      BY DEF OwnDevice, Stroke
    <2>1. CASE c = d
      <3>1. i + 1 \in 1 .. Len(queue[d]) /\ queue'[d][i] = queue[d][i + 1]
        BY <1>4, <2>1 DEF n
      <3> QED
        BY <1>2, <2>1, <3>1 DEF Signals, OwnDevice
    <2>2. CASE c # d
      BY <1>4, <2>2 DEF Signals, OwnDevice
    <2> QED
      BY <2>1, <2>2
  <1>8. Heard(less)'
    <2> SUFFICES ASSUME NEW k \in Keys
                 PROVE  /\ \A i \in 1 .. Len(queue'[DeviceOf[k]]) :
                             LET a == queue'[DeviceOf[k]][i]
                             IN  /\ a.code = k /\ Stroke(a) =>
                                      /\ less[k][i] = a.value
                                      /\ less[k][i - 1] # a.value
                                 /\ ~(a.code = k /\ Stroke(a)) =>
                                      less[k][i] = less[k][i - 1]
                        /\ less[k][Len(queue'[DeviceOf[k]])] = Held(k)
      BY <1>2 DEF Heard, Stroke, Held
    <2>1. CASE DeviceOf[k] # d
      <3>1. queue'[DeviceOf[k]] = queue[DeviceOf[k]] /\ less[k] = heard[k]
        BY <1>2, <1>4, <1>6, <2>1
      <3> QED
        BY <1>3, <3>1 DEF Heard
    <2>2. CASE DeviceOf[k] = d
      <3>1. ASSUME NEW i \in 1 .. n - 1
            PROVE  LET a == queue'[d][i]
                   IN  /\ a.code = k /\ Stroke(a) =>
                            less[k][i] = a.value /\ less[k][i - 1] # a.value
                       /\ ~(a.code = k /\ Stroke(a)) =>
                            less[k][i] = less[k][i - 1]
        <4>1. /\ queue'[d][i] = queue[d][i + 1] /\ less[k][i] = heard[k][i + 1]
              /\ less[k][i - 1] = heard[k][(i + 1) - 1]
              /\ i + 1 \in 1 .. n
          <5>1. /\ i \in Nat /\ i - 1 \in Nat /\ (i - 1) + 1 = i
                /\ (i + 1) - 1 = i /\ i + 1 \in 1 .. n
            BY <1>4
          <5>2. \A j \in Nat : less[k][j] = heard[k][j + 1]
            BY <1>6, <2>2
          <5>3. queue'[d][i] = queue[d][i + 1]
            BY <1>4
          <5>4. less[k][i] = heard[k][i + 1]
            BY <5>1, <5>2
          <5>5. less[k][i - 1] = heard[k][i]
            BY <5>1, <5>2
          <5> QED
            BY <5>1, <5>3, <5>4, <5>5
        <4> QED
          BY <1>3, <2>2, <4>1 DEF Heard, n
      <3>2. heard[k][n] = Held(k)
        BY <1>3, <2>2 DEF Heard, n
      <3>3. less[k][n - 1] = Held(k)
        <4>1. n - 1 \in Nat /\ (n - 1) + 1 = n
          BY <1>4
        <4>2. \A j \in Nat : less[k][j] = heard[k][j + 1]
          BY <1>6, <2>2
        <4> QED
          BY <3>2, <4>1, <4>2
      <3> QED
        BY <1>4, <2>2, <3>1, <3>3
    <2> QED
      BY <2>1, <2>2
  <1>9. Noted(less)'
    <2>0. Stroke(ev') => /\ ev'.code \in Keys /\ DeviceOf[ev'.code] = d
                         /\ ev' # Other
      <3>1. 1 \in 1 .. Len(queue[d])
        BY <1>4 DEF n
      <3> QED
        BY <1>2, <1>4, <3>1 DEF Signals, OwnDevice, Stroke, Other, Event
    <2>1. Stroke(ev') => /\ heard[ev'.code][1] = ev'.value
                         /\ heard[ev'.code][0] # ev'.value
      <3> SUFFICES ASSUME Stroke(ev')
                   PROVE  /\ heard[ev'.code][1] = ev'.value
                          /\ heard[ev'.code][0] # ev'.value
        OBVIOUS
      <3>1. 1 \in 1 .. Len(queue[d]) /\ 1 - 1 = 0
        BY <1>4 DEF n
      <3>2. PICK k \in Keys : k = ev'.code /\ DeviceOf[k] = d
        BY <2>0
      <3>3. /\ queue[DeviceOf[k]][1] = ev' /\ ev'.code = k
            /\ 1 \in 1 .. Len(queue[DeviceOf[k]])
        BY <1>4, <3>1, <3>2
      <3>4. Stroke(queue[DeviceOf[k]][1])
        BY <3>3 DEF Stroke
      <3>5. /\ heard[k][1] = queue[DeviceOf[k]][1].value
            /\ heard[k][1 - 1] # queue[DeviceOf[k]][1].value
        BY <1>3, <3>3, <3>4 DEF Heard
      <3> QED
        BY <3>1, <3>2, <3>3, <3>5
    <2>2. \A k \in Keys : ~(ev'.code = k /\ Stroke(ev')) =>
                            less[k][0] = heard[k][0]
      <3> SUFFICES ASSUME NEW k \in Keys, ~(ev'.code = k /\ Stroke(ev'))
                   PROVE  less[k][0] = heard[k][0]
        OBVIOUS
      <3>1. CASE DeviceOf[k] # d
        BY <1>6, <3>1
      <3>2. CASE DeviceOf[k] = d
        <4>1. 1 \in 1 .. Len(queue[d]) /\ 1 - 1 = 0
          BY <1>4 DEF n
        <4>2. heard[k][1] = heard[k][0]
          BY <1>3, <1>4, <3>2, <4>1 DEF Heard
        <4> QED
          BY <1>6, <3>2, <4>2
      <3> QED
        BY <3>1, <3>2
    <2>3. Stroke(ev') => less[ev'.code][0] = ev'.value
      BY <1>6, <2>0, <2>1
    <2>4. pc' = "sync" => PassesFilter(ev'.code)
      BY DEF ReadEvent
    <2>5. Stroke(ev') /\ PassesFilter(ev'.code) => pc' = "sync"
      BY <2>0 DEF ReadEvent
    <2>6. ASSUME log # <<>>
          PROVE  LET e == LastOf(log)
                 IN  /\ Stroke(e) /\ PassesFilter(e.code)
                     /\ pc' = "sync" /\ Stroke(ev') /\ ev'.code = e.code =>
                          ev'.value # e.value
                     /\ ~(pc' = "sync" /\ Stroke(ev') /\ ev'.code = e.code) =>
                          less[e.code][0] = e.value
      <3>1. LastOf(log).code \in Keys
        BY <2>6, LogCode
      <3>2. /\ Stroke(LastOf(log)) /\ PassesFilter(LastOf(log).code)
            /\ heard[LastOf(log).code][0] = LastOf(log).value
        BY <1>2, <1>3, <2>6 DEF Noted
      <3>3. CASE Stroke(ev') /\ ev'.code = LastOf(log).code
        BY <2>1, <2>5, <3>2, <3>3
      <3>4. CASE ~(Stroke(ev') /\ ev'.code = LastOf(log).code)
        BY <2>2, <3>1, <3>2, <3>4
      <3> QED
        BY <3>3, <3>4
    <2>7. pc' = "sync" /\ Stroke(ev') => /\ ev'.code \in Keys
                                         /\ PassesFilter(ev'.code)
                                         /\ less[ev'.code][0] = ev'.value
      BY <2>0, <2>3, <2>4
    <2> QED
      BY <1>2, <2>6, <2>7 DEF Noted, Stroke, LastOf, PassesFilter, CodedFilter
  <1> QED
    BY <1>6, <1>7, <1>8, <1>9 DEF Signals

\* Nothing moves between a device and the log.
LEMMA StaySignals ==
  ASSUME Signals, UNCHANGED <<down, queue, log>>,
         \/ UNCHANGED <<pc, ev>>
         \/ /\ ~(pc = "sync" /\ Stroke(ev))
            /\ ~(pc = "sync" /\ Stroke(ev))'
  PROVE  Signals'
  <1>1. PICK heard \in Hearings : Heard(heard) /\ Noted(heard)
    BY DEF Signals
  <1>2. OwnDevice' /\ Heard(heard)'
    BY <1>1 DEF Signals, OwnDevice, Heard, Held, Stroke
  <1>3. Noted(heard)'
    BY <1>1 DEF Noted, Stroke, LastOf, PassesFilter, CodedFilter
  <1> QED
    BY <1>1, <1>2, <1>3 DEF Signals

\* The log keeps its newest events.
LEMMA NewestLast ==
  ASSUME LogTyped, NEW e \in KeyEvents, NEW more, more = Newest(Append(log, e))
  PROVE  /\ more \in Seq(KeyEvents) /\ Len(more) \in Nat /\ Len(log) \in Nat
         /\ Len(more) = IF Len(log) < LogLength THEN Len(log) + 1 ELSE LogLength
         /\ more[Len(more)] = e
         /\ \A j \in 1 .. Len(more) - 1 :
              more[j] = log[(Len(log) + 1) - Len(more) + j]
  <1> DEFINE s == Append(log, e)
  <1>1. /\ s \in Seq(KeyEvents) /\ Len(s) = Len(log) + 1 /\ s[Len(s)] = e
        /\ \A i \in 1 .. Len(log) : s[i] = log[i]
    BY AppendProperties DEF LogTyped
  <1>2. Len(log) \in Nat /\ Len(log) <= 5
    BY LenProperties DEF LogTyped, LogLength
  <1>3. more = SubSeq(s, IF Len(s) > LogLength THEN 2 ELSE 1, Len(s))
    BY DEF Newest
  <1> HIDE DEF s
  <1>4. \A j \in 1 .. Len(s) : s[j] \in KeyEvents
    BY <1>1, ElementOfSeq
  <1>5. CASE Len(s) > LogLength
    <2>0. Len(log) = 5 /\ Len(s) = 6
      <3>1. Len(s) > 5
        BY <1>5 DEF LogLength
      <3>2. Len(log) + 1 > 5 /\ Len(s) = Len(log) + 1
        BY <1>1, <3>1
      <3>3. \A n \in Nat : n <= 5 /\ n + 1 > 5 => n = 5
        OBVIOUS
      <3>4. Len(log) = 5
        BY <1>2, <3>2, <3>3
      <3> QED
        BY <3>2, <3>4
    <2>1. /\ more = SubSeq(s, 2, 6)
          /\ \A j \in 2 .. 6 : s[j] \in KeyEvents
      BY <1>3, <1>4, <1>5, <2>0
    <2>2. /\ more \in Seq(KeyEvents) /\ Len(more) = 5
          /\ \A j \in 1 .. 5 : more[j] = s[2 + j - 1]
      BY <2>1, SubSeqProperties
    <2> QED
      BY <1>1, <2>0, <2>2 DEF LogLength
  <1>6. CASE ~(Len(s) > LogLength)
    <2>1. more = s
      BY <1>1, <1>3, <1>6, SubSeqFull
    <2> QED
      BY <1>1, <1>2, <1>6, <2>1 DEF LogLength
  <1> QED
    BY <1>5, <1>6

\* What is analysed, unless it is a timeout or a repeat, is a stroke of a key.
LEMMA Strokes ==
  ASSUME IInv, pc \in {"sync", "switch"}, ~Idle
  PROVE  ev \in KeyEvents /\ Stroke(ev)
  BY DEF IInv, EventsTyped, Messages, KeyEvents, Values, Event, Idle, Stroke

\* A stroke moves on into the log.
LEMMA SynchroniseSignals ==
  ASSUME IInv, Typed, Signals, Synchronise
  PROVE  Signals'
  <1>1. UNCHANGED <<down, queue, ev>> /\ pc = "sync" /\ pc' = "switch"
    BY DEF Synchronise, devices
  <1>2. CASE Idle
    <2>1. ~Stroke(ev) /\ log' = log
      BY <1>2 DEF Idle, Stroke, TIMEOUT, Event, Synchronise
    <2> QED
      BY <1>1, <2>1, StaySignals
  <1>3. CASE ~Idle
    <2>1. ev \in KeyEvents /\ Stroke(ev) /\ log' = Newest(Append(log, ev))
      BY <1>1, <1>3, Strokes DEF Synchronise
    <2>2. LastOf(log)' = ev
      BY <2>1, NewestLast DEF Typed, LastOf
    <2>3. PICK heard \in Hearings : Heard(heard) /\ Noted(heard)
      BY DEF Signals
    <2>4. OwnDevice' /\ Heard(heard)'
      BY <1>1, <2>3 DEF Signals, OwnDevice, Heard, Held, Stroke
    <2>5. Noted(heard)'
      BY <1>1, <2>1, <2>2, <2>3 DEF Noted, Stroke, LastOf, PassesFilter,
         CodedFilter
    <2> QED
      BY <2>3, <2>4, <2>5 DEF Signals
  <1> QED
    BY <1>2, <1>3

\* Before key_test has started it, input_thread does nothing.
Begun == main \in {"start", "failed"} => pc = "none"

LEMMA NextBegun == Begun /\ [Next]_vars => Begun'
  <1> SUFFICES ASSUME Begun, [Next]_vars
               PROVE  Begun'
    OBVIOUS
  <1>1. CASE MainStep \/ UNCHANGED vars
    BY <1>1 DEF Begun, MainStep, StartFails, StartThread, ResetState, thread, vars
  <1>2. CASE ThreadStep
    BY <1>2 DEF Begun, ThreadStep, ReadEvent, PollTimeout, Synchronise, Switch
  <1>3. CASE User \/ Tick
    BY <1>3 DEF Begun, User, PressKey, ReleaseKey, RepeatKey, OtherEvent, Send,
       Tick, thread
  <1> QED
    BY <1>1, <1>2, <1>3 DEF Next

LEMMA InitSignals == Init => Signals
  <1> SUFFICES ASSUME Init PROVE Signals
    OBVIOUS
  <1> DEFINE heard == [k \in Keys |-> [i \in Nat |-> Held(k)]]
  <1>1. heard \in Hearings
    BY DEF Hearings, Held
  <1>2. \A d \in Devices : Len(queue[d]) = 0
    BY DEF Init
  <1>3. OwnDevice
    BY <1>2 DEF OwnDevice
  <1>4. Heard(heard)
    <2>1. \A k \in Keys : heard[k][0] = Held(k) /\ DeviceOf[k] \in Devices
      BY KeyAssumption
    <2> HIDE DEF heard
    <2> QED
      BY <1>2, <2>1 DEF Heard
  <1>5. Noted(heard)
    BY DEF Noted, Init
  <1> HIDE DEF heard
  <1> QED
    BY <1>1, <1>3, <1>4, <1>5 DEF Signals

\* Every step.
LEMMA NextSignals ==
  IInv /\ Typed /\ Begun /\ Signals /\ [Next]_vars => Signals'
  <1> SUFFICES ASSUME IInv, Typed, Begun, Signals, [Next]_vars
               PROVE  Signals'
    OBVIOUS
  <1>1. CASE MainStep \/ PollTimeout \/ Switch \/ Tick \/ UNCHANGED vars
    <2>1. UNCHANGED <<down, queue, log>>
      BY <1>1 DEF MainStep, StartFails, StartThread, ResetState, PollTimeout,
         Switch, Tick, vars, devices, history
    <2>2. CASE StartFails \/ ResetState \/ Tick \/ UNCHANGED vars
      <3>1. UNCHANGED <<pc, ev>>
        BY <2>2 DEF StartFails, ResetState, Tick, vars, thread
      <3> QED
        BY <2>1, <3>1, StaySignals
    <2>3. CASE StartThread \/ PollTimeout \/ Switch
      <3>1. /\ ~(pc = "sync" /\ Stroke(ev))
            /\ ~(pc = "sync" /\ Stroke(ev))'
        <4>1. CASE StartThread
          <5>1. pc # "sync"
            BY <4>1 DEF StartThread, Begun
          <5> QED
            BY <4>1, <5>1 DEF StartThread
        <4>2. CASE PollTimeout
          BY <4>2 DEF PollTimeout, TIMEOUT, Event, Stroke
        <4>3. CASE Switch
          BY <4>3 DEF Switch
        <4> QED
          BY <2>3, <4>1, <4>2, <4>3
      <3> QED
        BY <2>1, <3>1, StaySignals
    <2> QED
      BY <1>1, <2>2, <2>3 DEF MainStep
  <1>2. CASE User
    <2>1. ASSUME NEW k \in Keys, PressKey(k)
          PROVE  Signals'
      <3>1. Event(k, "press") \in Messages /\ DeviceOf[k] \in Devices
        BY KeyAssumption DEF Messages, KeyEvents, Values
      <3>2. /\ Held(k) = "release" /\ Held(k)' = "press"
            /\ \A j \in Keys : j # k => Held(j)' = Held(j)
        BY <2>1 DEF PressKey, Held
      <3>3. PICK e \in Messages : e = Event(k, "press")
        BY <3>1
      <3>4. e.code = k /\ e.value = "press" /\ Stroke(e)
        BY <3>3 DEF Event, Stroke
      <3>5. Send(DeviceOf[k], e)
        BY <2>1, <3>3 DEF PressKey
      <3> QED
        BY <3>1, <3>2, <3>4, <3>5, SendSignals
    <2>2. ASSUME NEW k \in Keys, ReleaseKey(k)
          PROVE  Signals'
      <3>1. Event(k, "release") \in Messages /\ DeviceOf[k] \in Devices
        BY KeyAssumption DEF Messages, KeyEvents, Values
      <3>2. /\ Held(k) = "press" /\ Held(k)' = "release"
            /\ \A j \in Keys : j # k => Held(j)' = Held(j)
        BY <2>2 DEF ReleaseKey, Held
      <3>3. PICK e \in Messages : e = Event(k, "release")
        BY <3>1
      <3>4. e.code = k /\ e.value = "release" /\ Stroke(e)
        BY <3>3 DEF Event, Stroke
      <3>5. Send(DeviceOf[k], e)
        BY <2>2, <3>3 DEF ReleaseKey
      <3> QED
        BY <3>1, <3>2, <3>4, <3>5, SendSignals
    <2>3. ASSUME NEW k \in Keys, RepeatKey(k)
          PROVE  Signals'
      <3>1. Event(k, "repeat") \in Messages /\ DeviceOf[k] \in Devices
        BY KeyAssumption DEF Messages, KeyEvents, Values
      <3>2. /\ ~Stroke(Event(k, "repeat"))
            /\ \A j \in Keys : Held(j)' = Held(j)
        BY <2>3 DEF RepeatKey, Held, Event, Stroke
      <3> QED
        BY <2>3, <3>1, <3>2, SendSignals DEF RepeatKey
    <2>4. ASSUME NEW d \in Devices, OtherEvent(d)
          PROVE  Signals'
      <3>1. /\ Other \in Messages /\ ~Stroke(Other)
            /\ \A j \in Keys : Held(j)' = Held(j)
        BY <2>4 DEF OtherEvent, Messages, Held, Other, Event, Stroke
      <3> QED
        BY <2>4, <3>1, SendSignals DEF OtherEvent
    <2> QED
      BY <1>2, <2>1, <2>2, <2>3, <2>4 DEF User
  <1> QED
    BY <1>1, <1>2, ReadSignals, SynchroniseSignals DEF Next, ThreadStep

-----------------------------------------------------------------------------
(* What the state counts: a gesture's state stands for the clicks that the  *)
(* log ends with, and start_time is no older than the newest of them.       *)

ClickValue(i) == IF i \in {1, 3, 5} THEN "press" ELSE "release"

\* The sequence s ends with n presses and releases of k, a press first.
Clicks(s, k, n) ==
  /\ n <= Len(s)
  /\ \A i \in 1 .. n : s[(Len(s) - n) + i] = Event(k, ClickValue(i))

Counted(n, s) ==
  state = s =>
    /\ pc # "switch" \/ Idle => Clicks(log, code, n) /\ age <= quiet
    /\ pc = "switch" /\ Idle => diff <= quiet
    /\ pc = "switch" /\ ~Idle /\ SameKey => Clicks(log, code, n + 1)

Gesture ==
  stamped => /\ Counted(1, "KEY_FIRST_PRESS")  /\ Counted(2, "KEY_FIRST_RELEASE")
             /\ Counted(3, "KEY_SECOND_PRESS") /\ Counted(4, "KEY_SECOND_RELEASE")

AtSwitch ==
  pc = "switch" =>
    /\ report = NoReport
    /\ ~Idle => log # <<>> /\ LastOf(log) = ev
    /\ ~stamped => diff = Never

Unstamped ==
  /\ code = NoCode => ~stamped
  /\ ~stamped =>
       /\ age = Never
       /\ state \in {"KEY_ALL_RELEASE", "KEY_FIRST_PRESS",
                     "KEY_CHECK_LONG_KEY_RELEASE"}

GInv == Gesture /\ AtSwitch /\ Unstamped /\ ReportJustified

\* A sequence that agrees with the end of another is its suffix.
LEMMA SuffixByPoints ==
  ASSUME NEW S, NEW s \in Seq(S), NEW t \in Seq(S), Len(s) <= Len(t),
         \A i \in 1 .. Len(s) : s[i] = t[(Len(t) - Len(s)) + i]
  PROVE  IsSuffix(s, t)
  <1> DEFINE r == Reverse(s)
             q == Reverse(t)
             n == Len(s)
  <1>1. n \in Nat /\ Len(t) \in Nat
    BY LenProperties
  <1>2. /\ r \in Seq(S) /\ Len(r) = n
        /\ \A i \in 1 .. n : r[i] = s[(n - i) + 1]
    <2>1. \A i \in 1 .. n : s[(n - i) + 1] \in S
      BY <1>1, ElementOfSeq
    <2>2. r = [i \in 1 .. n |-> s[(n - i) + 1]]
      BY DEF Reverse
    <2>3. r \in [1 .. n -> S]
      BY <2>1, <2>2
    <2>4. r \in Seq(S)
      BY <1>1, <2>3, SeqDef
    <2>5. DOMAIN r = 1 .. n
      BY <2>3
    <2> HIDE DEF r, n
    <2>6. Len(r) = n
      BY <1>1, <2>4, <2>5, LenProperties
    <2> QED
      BY <2>2, <2>4, <2>6
  <1>3. /\ q \in Seq(S) /\ Len(q) = Len(t)
        /\ \A i \in 1 .. Len(t) : q[i] = t[(Len(t) - i) + 1]
    <2>1. \A i \in 1 .. Len(t) : t[(Len(t) - i) + 1] \in S
      BY <1>1, ElementOfSeq
    <2>2. q = [i \in 1 .. Len(t) |-> t[(Len(t) - i) + 1]]
      BY DEF Reverse
    <2>3. q \in [1 .. Len(t) -> S]
      BY <2>1, <2>2
    <2>4. q \in Seq(S)
      BY <1>1, <2>3, SeqDef
    <2>5. DOMAIN q = 1 .. Len(t)
      BY <2>3
    <2> HIDE DEF q
    <2>6. Len(q) = Len(t)
      BY <1>1, <2>4, <2>5, LenProperties
    <2> QED
      BY <2>2, <2>4, <2>6
  <1>4. \A i \in 1 .. n : r[i] = q[i]
    <2> SUFFICES ASSUME NEW i \in 1 .. n PROVE r[i] = q[i]
      OBVIOUS
    <2>1. (n - i) + 1 \in 1 .. n /\ i \in 1 .. Len(t)
      BY <1>1
    <2>2. (Len(t) - n) + ((n - i) + 1) = (Len(t) - i) + 1
      BY <1>1
    <2> HIDE DEF r, q
    <2> QED
      BY <1>2, <1>3, <2>1, <2>2
  <1> HIDE DEF r, q
  <1>5. SubSeq(r, 1, n) = SubSeq(q, 1, n)
    <2>1. \A i \in 1 .. n : r[i] \in S /\ q[i] \in S
      <3>1. \A i \in 1 .. n : i \in 1 .. Len(r) /\ i \in 1 .. Len(q)
        BY <1>1, <1>2, <1>3
      <3> HIDE DEF n
      <3> QED
        BY <1>2, <1>3, <3>1, ElementOfSeq
    <2>2. /\ SubSeq(r, 1, n) \in Seq(S) /\ Len(SubSeq(r, 1, n)) = n
          /\ \A i \in 1 .. n : SubSeq(r, 1, n)[i] = r[i]
      BY <1>1, <2>1, SubSeqProperties
    <2>3. /\ SubSeq(q, 1, n) \in Seq(S) /\ Len(SubSeq(q, 1, n)) = n
          /\ \A i \in 1 .. n : SubSeq(q, 1, n)[i] = q[i]
      BY <1>1, <2>1, SubSeqProperties
    <2> QED
      BY <1>4, <2>2, <2>3, SeqEqual
  <1> QED
    BY <1>2, <1>3, <1>5 DEF IsSuffix, IsPrefix, r, q

LEMMA EndedByPoints ==
  ASSUME LogTyped, NEW k \in Keys, NEW values \in Seq(Values),
         Len(values) <= Len(log),
         \A i \in 1 .. Len(values) :
           log[(Len(log) - Len(values)) + i] = Event(k, values[i])
  PROVE  Ended(k, values)
  <1> DEFINE s == [i \in 1 .. Len(values) |-> Event(k, values[i])]
  <1>1. Len(values) \in Nat /\ \A i \in 1 .. Len(values) : values[i] \in Values
    BY LenProperties, ElementOfSeq
  <1>2. s \in [1 .. Len(values) -> KeyEvents]
    BY <1>1 DEF KeyEvents
  <1>3. s \in Seq(KeyEvents) /\ DOMAIN s = 1 .. Len(values)
    BY <1>1, <1>2, SeqDef
  <1>4. \A i \in 1 .. Len(values) : s[i] = Event(k, values[i])
    OBVIOUS
  <1>5. Len(s) = Len(values)
    <2> HIDE DEF s
    <2> QED
      BY <1>1, <1>3, LenProperties
  <1> HIDE DEF s
  <1>6. IsSuffix(s, log)
    <2>1. \A i \in 1 .. Len(s) : s[i] = log[(Len(log) - Len(s)) + i]
      BY <1>4, <1>5
    <2> QED
      BY <1>3, <1>5, <2>1, SuffixByPoints DEF LogTyped
  <1> QED
    BY <1>6 DEF Ended, s

\* What the claims of the reports come down to.
LEMMA EndedClicks ==
  ASSUME LogTyped, NEW k \in Keys
  PROVE  /\ Clicks(log, k, 1) => Ended(k, <<"press">>)
         /\ Clicks(log, k, 2) => Ended(k, <<"press", "release">>)
         /\ Clicks(log, k, 3) => Ended(k, <<"press", "release", "press">>)
         /\ Clicks(log, k, 5) =>
              Ended(k, <<"press", "release", "press", "release", "press">>)
         /\ Clicks(log, k, 4) => Ended(k, <<"release">>)
         /\ log # <<>> /\ LastOf(log) = Event(k, "release") =>
              Ended(k, <<"release">>)
  <1>1. Len(log) \in Nat
    BY LenProperties DEF LogTyped
  <1>2. ASSUME NEW values \in Seq(Values), NEW n \in 1 .. 5, Len(values) = n,
               Clicks(log, k, n), \A i \in 1 .. n : values[i] = ClickValue(i)
        PROVE  Ended(k, values)
    BY <1>1, <1>2, EndedByPoints DEF Clicks
  <1>3. ASSUME log # <<>>, LastOf(log) = Event(k, "release")
        PROVE  Ended(k, <<"release">>)
    <2>1. Len(log) \in Nat /\ Len(log) > 0 /\ log[Len(log)] = Event(k, "release")
      BY <1>3, EmptySeq DEF LogTyped, LastOf
    <2> DEFINE v == <<"release">>
    <2>2. v \in Seq(Values) /\ Len(v) = 1 /\ v[1] = "release"
      BY DEF Values
    <2> HIDE DEF v
    <2>3. Ended(k, v)
      <3>1. \A i \in 1 .. 1 : i = 1 /\ (Len(log) - 1) + 1 = Len(log)
        BY <2>1
      <3>2. \A i \in 1 .. Len(v) :
              log[(Len(log) - Len(v)) + i] = Event(k, v[i])
        BY <2>1, <2>2, <3>1
      <3> QED
        <4>1. Len(v) <= Len(log)
          BY <2>1, <2>2
        <4> QED
          BY <2>2, <3>2, <4>1, EndedByPoints
    <2> QED
      BY <2>3 DEF v
  <1>4. Clicks(log, k, 1) => Ended(k, <<"press">>)
    <2> DEFINE v == <<"press">>
    <2>1. v \in Seq(Values) /\ Len(v) = 1 /\ \A i \in 1 .. 1 : v[i] = ClickValue(i)
      BY DEF Values, ClickValue
    <2> HIDE DEF v
    <2>2. Clicks(log, k, 1) => Ended(k, v)
      BY <1>2, <2>1
    <2> QED
      BY <2>2 DEF v
  <1>5. Clicks(log, k, 2) => Ended(k, <<"press", "release">>)
    <2> DEFINE v == <<"press", "release">>
    <2>1. v \in Seq(Values) /\ Len(v) = 2 /\ \A i \in 1 .. 2 : v[i] = ClickValue(i)
      BY DEF Values, ClickValue
    <2> HIDE DEF v
    <2>2. Clicks(log, k, 2) => Ended(k, v)
      BY <1>2, <2>1
    <2> QED
      BY <2>2 DEF v
  <1>6. Clicks(log, k, 3) => Ended(k, <<"press", "release", "press">>)
    <2> DEFINE v == <<"press", "release", "press">>
    <2>1. v \in Seq(Values) /\ Len(v) = 3 /\ \A i \in 1 .. 3 : v[i] = ClickValue(i)
      BY DEF Values, ClickValue
    <2> HIDE DEF v
    <2>2. Clicks(log, k, 3) => Ended(k, v)
      BY <1>2, <2>1
    <2> QED
      BY <2>2 DEF v
  <1>7. Clicks(log, k, 5) =>
          Ended(k, <<"press", "release", "press", "release", "press">>)
    <2> DEFINE v == <<"press", "release", "press", "release", "press">>
    <2>1. v \in Seq(Values) /\ Len(v) = 5 /\ \A i \in 1 .. 5 : v[i] = ClickValue(i)
      BY DEF Values, ClickValue
    <2> HIDE DEF v
    <2>2. Clicks(log, k, 5) => Ended(k, v)
      BY <1>2, <2>1
    <2> QED
      BY <2>2 DEF v
  <1>8. Clicks(log, k, 4) => Ended(k, <<"release">>)
    <2>1. ASSUME Clicks(log, k, 4)
          PROVE  log # <<>> /\ LastOf(log) = Event(k, "release")
      <3>1. /\ 4 <= Len(log) /\ 4 \in 1 .. 4 /\ (Len(log) - 4) + 4 = Len(log)
            /\ ClickValue(4) = "release"
        BY <1>1, <2>1 DEF Clicks, ClickValue
      <3>2. LastOf(log) = Event(k, "release")
        BY <2>1, <3>1 DEF Clicks, LastOf
      <3> QED
        BY <3>1, <3>2
    <2> QED
      BY <1>3, <2>1
  <1> QED
    BY <1>3, <1>4, <1>5, <1>6, <1>7, <1>8

\* The next press or release of the key is one more.
LEMMA OneMoreClick ==
  ASSUME LogTyped, NEW k, NEW n \in 0 .. 4, Clicks(log, k, n),
         NEW e \in KeyEvents, e = Event(k, ClickValue(n + 1)),
         NEW more, more = Newest(Append(log, e))
  PROVE  Clicks(more, k, n + 1)
  <1>1. /\ Len(more) \in Nat /\ Len(log) \in Nat /\ Len(log) <= 5
        /\ Len(more) = IF Len(log) < 5 THEN Len(log) + 1 ELSE 5
        /\ more[Len(more)] = e
        /\ \A j \in 1 .. Len(more) - 1 :
             more[j] = log[(Len(log) + 1) - Len(more) + j]
    <2>1. /\ Len(more) \in Nat /\ Len(log) \in Nat
          /\ Len(more) = IF Len(log) < LogLength THEN Len(log) + 1
                         ELSE LogLength
          /\ more[Len(more)] = e
          /\ \A j \in 1 .. Len(more) - 1 :
               more[j] = log[(Len(log) + 1) - Len(more) + j]
      BY NewestLast
    <2>2. Len(log) <= 5 /\ LogLength = 5
      BY DEF LogTyped, LogLength
    <2> QED
      BY <2>1, <2>2
  <1>2. n + 1 <= Len(more) /\ n <= Len(log)
    BY <1>1 DEF Clicks
  <1>3. ASSUME NEW i \in 1 .. n
        PROVE  more[(Len(more) - (n + 1)) + i] = Event(k, ClickValue(i))
    <2>1. /\ (Len(more) - (n + 1)) + i \in 1 .. Len(more) - 1
          /\ (Len(log) + 1) - Len(more) + ((Len(more) - (n + 1)) + i)
               = (Len(log) - n) + i
      BY <1>1, <1>2
    <2> QED
      BY <1>1, <2>1 DEF Clicks
  <1>4. (Len(more) - (n + 1)) + (n + 1) = Len(more)
    BY <1>1
  <1>5. \A i \in 1 .. n + 1 : i \in 1 .. n \/ i = n + 1
    OBVIOUS
  <1> QED
    BY <1>1, <1>2, <1>3, <1>4, <1>5 DEF Clicks

\* What justifies a report goes on justifying it.
LEMMA JustifiedLater ==
  ASSUME NEW r, Justified(r), log' = log, TimeAssumption,
         quiet \in Nat, quiet' \in Nat, quiet <= quiet'
  PROVE  Justified(r)'
  <1>1. /\ quiet >= KEY_CLICK_GAP => quiet' >= KEY_CLICK_GAP
        /\ quiet >= KEY_LONG_PRESS_TIME => quiet' >= KEY_LONG_PRESS_TIME
    BY DEF TimeAssumption
  <1>2. ASSUME NEW k, NEW values, Ended(k, values)
        PROVE  Ended(k, values)'
    BY <1>2 DEF Ended
  <1> QED
    BY <1>1, <1>2 DEF Justified

\* Nothing is analysed.
LEMMA StayGesture ==
  ASSUME Typed, GInv, UNCHANGED <<code, stamped, diff, log, report>>,
         state' \in {state, "KEY_ALL_RELEASE"},
         UNCHANGED <<pc, ev>> \/ (pc # "switch" /\ pc' # "switch"),
         UNCHANGED <<age, quiet>> \/ (age' = Older(age) /\ quiet' = Older(quiet))
  PROVE  GInv'
  <1>1. /\ age \in Nat /\ quiet \in Nat /\ diff \in Nat
        /\ age <= KEY_LONG_PRESS_TIME /\ quiet <= KEY_LONG_PRESS_TIME
        /\ KEY_LONG_PRESS_TIME \in Nat
    BY TimeAssumption DEF Typed, ClocksTyped
  <1>2. /\ quiet' \in Nat /\ quiet <= quiet'
        /\ age <= quiet => age' <= quiet'
        /\ diff <= quiet => diff <= quiet'
        /\ age = Never => age' = Never
    BY <1>1 DEF Older, Never
  <1>3. UNCHANGED ev => Idle' = Idle /\ SameKey' = SameKey
    BY DEF Idle, SameKey
  <1>4. ASSUME NEW n \in 1 .. 4, NEW s, s # "KEY_ALL_RELEASE", Counted(n, s)
        PROVE  Counted(n, s)'
    <2> SUFFICES ASSUME state' = s PROVE Counted(n, s)'
      BY DEF Counted
    <2>1. state = s
      BY <1>4
    <2>2. CASE UNCHANGED <<pc, ev>>
      BY <1>2, <1>3, <1>4, <2>1, <2>2 DEF Counted
    <2>3. CASE pc # "switch" /\ pc' # "switch"
      BY <1>2, <1>4, <2>1, <2>3 DEF Counted
    <2> QED
      BY <2>2, <2>3
  <1>5. Gesture'
    BY <1>4 DEF GInv, Gesture
  <1>6. AtSwitch'
    BY <1>3 DEF GInv, AtSwitch, LastOf, Never
  <1>7. Unstamped'
    BY <1>2 DEF GInv, Unstamped, Never
  <1>8. ReportJustified'
    <2>1. PICK r : r = report
      OBVIOUS
    <2>2. Justified(r) => Justified(r)'
      BY <1>1, <1>2, TimeAssumption, JustifiedLater
    <2> QED
      BY <2>1, <2>2 DEF GInv, ReportJustified, Justified, Ended
  <1> QED
    BY <1>5, <1>6, <1>7, <1>8 DEF GInv

\* A stroke that is analysed continues its key's gesture: in the log, the
\* strokes of a key take turns.
LEMMA SynchroniseGesture ==
  ASSUME IInv, Typed, Signals, GInv, Synchronise
  PROVE  GInv'
  <1>1. /\ pc = "sync" /\ pc' = "switch" /\ ev' = ev /\ diff' = age
        /\ report' = NoReport /\ UNCHANGED <<stamped, age>>
        /\ Idle => log' = log /\ quiet' = quiet
        /\ ~Idle => log' = Newest(Append(log, ev)) /\ quiet' = 0
    BY DEF Synchronise
  <1>2. Idle' = Idle
    BY <1>1 DEF Idle
  <1>3. Adopts => ~stamped
    BY DEF Adopts, GInv, Unstamped
  <1>4. ~Adopts => code' = code /\ state' = state
    BY DEF Synchronise
  <1>5. ~Idle => log' # <<>> /\ LastOf(log)' = ev /\ ev \in KeyEvents
    <2> SUFFICES ASSUME ~Idle PROVE log' # <<>> /\ LastOf(log)' = ev
                                    /\ ev \in KeyEvents
      OBVIOUS
    <2>1. ev \in KeyEvents
      BY <1>1, Strokes
    <2>2. /\ log' \in Seq(KeyEvents) /\ log'[Len(log')] = ev
          /\ Len(log) \in Nat
          /\ Len(log') = IF Len(log) < LogLength THEN Len(log) + 1 ELSE LogLength
      BY <1>1, <2>1, NewestLast DEF Typed
    <2>3. Len(log') > 0
      BY <2>2 DEF LogLength
    <2> QED
      BY <2>1, <2>2, <2>3, EmptySeq DEF LastOf
  <1>6. Unstamped'
    <2>1. CASE Adopts
      <3>1. ~stamped /\ ~stamped' /\ age' = age /\ state' = "KEY_FIRST_PRESS"
        <4>1. ~stamped /\ stamped' = stamped
          BY <1>1, <1>3, <2>1
        <4>2. age' = age /\ state' = "KEY_FIRST_PRESS"
          BY <1>1, <2>1 DEF Synchronise
        <4> QED
          BY <4>1, <4>2, Zenon
      <3> QED
        BY <3>1 DEF GInv, Unstamped, Never
    <2>2. CASE ~Adopts
      BY <1>1, <1>4, <2>2 DEF GInv, Unstamped, Never
    <2> QED
      BY <2>1, <2>2
  <1>7. AtSwitch'
    BY <1>1, <1>2, <1>5 DEF GInv, AtSwitch, Unstamped
  <1>8. ReportJustified'
    BY <1>1 DEF ReportJustified
  <1>9. ASSUME stamped, NEW n \in 1 .. 4, NEW s, Counted(n, s)
        PROVE  Counted(n, s)'
    <2> SUFFICES ASSUME state' = s PROVE Counted(n, s)'
      BY DEF Counted
    <2>1. ~Adopts /\ state = s /\ code' = code
      BY <1>3, <1>4, <1>9
    <2>2. Clicks(log, code, n) /\ age <= quiet
      BY <1>1, <1>9, <2>1 DEF Counted
    <2>3. CASE Idle
      BY <1>1, <1>2, <2>1, <2>2, <2>3 DEF Counted
    <2>4. CASE ~Idle
      <3>1. ASSUME ev.code = code
            PROVE  Clicks(log', code, n + 1)
        <4>1. ev \in KeyEvents /\ Stroke(ev)
          BY <1>1, <2>4, Strokes
        <4>2. Len(log) \in Nat /\ LogTyped
          BY LenProperties DEF Typed, LogTyped
        <4>3. log # <<>> /\ LastOf(log) = Event(code, ClickValue(n))
          <5>1. /\ n <= Len(log) /\ n \in 1 .. n
                /\ (Len(log) - n) + n = Len(log)
            BY <2>2, <4>2 DEF Clicks
          <5>2. LastOf(log) = Event(code, ClickValue(n))
            BY <2>2, <5>1 DEF Clicks, LastOf
          <5>3. Len(log) # 0
            BY <4>2, <5>1
          <5> QED
            BY <5>2, <5>3
        <4>4. PICK heard \in Hearings : Noted(heard)
          BY DEF Signals
        <4>5. ev.value # ClickValue(n)
          BY <1>1, <3>1, <4>1, <4>3, <4>4 DEF Noted, Event
        <4>6. ev = Event(code, ClickValue(n + 1))
          <5>1. ev.value = ClickValue(n + 1)
            BY <4>1, <4>5 DEF Stroke, ClickValue
          <5> QED
            BY <3>1, <4>1, <5>1 DEF KeyEvents, Event
        <4>7. PICK k, e : k = code /\ e = ev
          OBVIOUS
        <4> QED
          BY <1>1, <2>2, <2>4, <4>1, <4>2, <4>6, <4>7, OneMoreClick
      <3> QED
        BY <1>1, <1>2, <2>1, <2>4, <3>1 DEF Counted, SameKey
    <2> QED
      BY <2>3, <2>4
  <1>10. Gesture'
    <2>1. stamped' => stamped
      BY <1>1
    <2> QED
      BY <1>9, <2>1 DEF GInv, Gesture
  <1> QED
    BY <1>6, <1>7, <1>8, <1>10 DEF GInv

\* What a case of the switch has to see to: the clicks that the new state
\* counts, the time, and the events behind a report.
Follows(n, s) == state' = s => Clicks(log, code', n) /\ age' <= quiet
Followed ==
  stamped' => /\ Follows(1, "KEY_FIRST_PRESS")  /\ Follows(2, "KEY_FIRST_RELEASE")
              /\ Follows(3, "KEY_SECOND_PRESS") /\ Follows(4, "KEY_SECOND_RELEASE")
Warranted ==
  \/ report' = NoReport
  \/ /\ stamped' = stamped
     /\ stamped => Justified(report')
     /\ ~stamped => report'.kind \in {"long", "single"}

LEMMA SwitchOutcome ==
  ASSUME Typed, Switch, Followed, Warranted, Unstamped'
  PROVE  GInv'
  <1>1. pc' = "poll" /\ UNCHANGED <<ev, log, quiet>>
    BY DEF Switch
  <1>2. Gesture'
    BY <1>1 DEF Gesture, Counted, Followed, Follows
  <1>3. AtSwitch'
    BY <1>1 DEF AtSwitch
  <1>4. ReportJustified'
    <2> SUFFICES ASSUME report' # NoReport
                 PROVE  IF stamped' THEN Justified(report)'
                                    ELSE report'.kind \in {"long", "single"}
      BY DEF ReportJustified
    <2>1. /\ stamped' = stamped
          /\ stamped => Justified(report')
          /\ ~stamped => report'.kind \in {"long", "single"}
      BY DEF Warranted
    <2>2. PICK r : r = report'
      OBVIOUS
    <2>3. quiet \in Nat /\ quiet' \in Nat /\ quiet <= quiet'
      BY <1>1, TimeAssumption DEF Typed, ClocksTyped
    <2>4. ASSUME stamped PROVE Justified(report)'
      <3>1. Justified(r)
        BY <2>1, <2>2, <2>4
      <3>2. Justified(r)'
        BY <1>1, <2>3, <3>1, TimeAssumption, JustifiedLater
      <3> QED
        BY <2>2, <3>2 DEF Justified, Ended
    <2> QED
      BY <2>1, <2>4, Zenon
  <1> QED
    BY <1>2, <1>3, <1>4 DEF GInv

\* The state with what is analysed.
LEMMA AtGesture ==
  ASSUME IInv, Typed, GInv, pc = "switch", NEW n \in 1 .. 4, NEW s,
         Counted(n, s), state = s
  PROVE  /\ Idle => Clicks(log, code, n) /\ age <= quiet /\ diff <= quiet
         /\ Pressed /\ SameKey => Clicks(log, code, n + 1) /\ n \in {2, 4}
         /\ Released /\ SameKey => Clicks(log, code, n + 1) /\ n \in {1, 3}
  <1>1. Idle => Clicks(log, code, n) /\ age <= quiet /\ diff <= quiet
    BY DEF Counted
  <1>2. ASSUME ~Idle, SameKey
        PROVE  Clicks(log, code, n + 1) /\ ev.value = ClickValue(n + 1)
    <2>1. Clicks(log, code, n + 1)
      BY <1>2 DEF Counted
    <2>2. log # <<>> /\ LastOf(log) = ev
      BY <1>2 DEF GInv, AtSwitch
    <2>3. Len(log) \in Nat
      BY LenProperties DEF Typed, LogTyped
    <2>4. /\ n + 1 \in 1 .. n + 1 /\ n + 1 <= Len(log)
          /\ (Len(log) - (n + 1)) + (n + 1) = Len(log)
      BY <2>1, <2>3 DEF Clicks
    <2>5. log[Len(log)] = Event(code, ClickValue(n + 1))
      BY <2>1, <2>4 DEF Clicks
    <2> QED
      BY <2>1, <2>2, <2>5 DEF LastOf, Event
  <1>3. Pressed /\ SameKey => n \in {2, 4}
    BY <1>2 DEF Pressed, ClickValue
  <1>4. Released /\ SameKey => n \in {1, 3}
    BY <1>2 DEF Released, ClickValue
  <1> QED
    BY <1>1, <1>2, <1>3, <1>4 DEF Pressed, Released

\* The facts that every case uses.
LEMMA AtCase ==
  ASSUME IInv, Typed, GInv, Switch
  PROVE  /\ pc = "switch" /\ report = NoReport /\ LogTyped
         /\ quiet \in Nat /\ diff \in Nat /\ Never \in Nat
         /\ KEY_CLICK_GAP < Never /\ Never = KEY_LONG_PRESS_TIME
         /\ state # "KEY_ALL_RELEASE" => code \in Keys /\ code # NoCode
         /\ ~stamped => diff = Never
         /\ Pressed => ev = Event(ev.code, "press") /\ ev.code \in Keys
         /\ Released => ev = Event(ev.code, "release")
         /\ ~Idle => log # <<>> /\ LastOf(log) = ev
  <1>1. pc = "switch"
    BY DEF Switch
  <1>2. /\ report = NoReport
        /\ ~stamped => diff = Never
        /\ ~Idle => log # <<>> /\ LastOf(log) = ev
    BY <1>1 DEF GInv, AtSwitch
  <1>3. /\ LogTyped /\ quiet \in Nat /\ diff \in Nat /\ Never \in Nat
        /\ KEY_CLICK_GAP < Never /\ Never = KEY_LONG_PRESS_TIME
    BY TimeAssumption DEF Typed, ClocksTyped, Never
  <1>4. state # "KEY_ALL_RELEASE" => code \in Keys /\ code # NoCode
    BY DEF IInv, KeyKnown, Typed, StepsTyped
  <1>5. /\ Pressed => ev = Event(ev.code, "press") /\ ev.code \in Keys
        /\ Released => ev = Event(ev.code, "release")
    <2>1. ~Idle => ev \in KeyEvents
      BY <1>1, Strokes
    <2> QED
      BY <2>1 DEF Pressed, Released, KeyEvents, Event
  <1> QED
    BY <1>1, <1>2, <1>3, <1>4, <1>5

LEMMA AllReleaseGesture ==
  ASSUME IInv, Typed, GInv, Switch, AllRelease
  PROVE  GInv'
  <1>1. /\ report' = NoReport /\ state = "KEY_ALL_RELEASE" /\ LogTyped
        /\ quiet \in Nat
    BY AtCase DEF AllRelease, Goto
  <1>2. CASE ~Pressed
    <2>1. state' = state /\ UNCHANGED <<stamped, age, code>>
      BY <1>2 DEF AllRelease, Goto, KeepTime
    <2>2. Followed /\ Warranted
      BY <1>1, <2>1 DEF Followed, Follows, Warranted
    <2>3. Unstamped'
      BY <2>1 DEF GInv, Unstamped, Never
    <2> QED
      BY <2>2, <2>3, SwitchOutcome
  <1>3. CASE Pressed
    <2>1. /\ state' = "KEY_FIRST_PRESS" /\ code' = ev.code
          /\ stamped' = TRUE /\ age' = 0
      BY <1>3 DEF AllRelease, Goto, StampTime
    <2>2. /\ ev = Event(ev.code, "press") /\ ev.code \in Keys
          /\ log # <<>> /\ LastOf(log) = ev
      BY <1>3, AtCase DEF Pressed
    <2>3. Clicks(log, ev.code, 1)
      <3>1. Len(log) \in Nat /\ Len(log) > 0
        BY <1>1, <2>2, EmptySeq DEF LogTyped
      <3>2. \A i \in 1 .. 1 : i = 1 /\ (Len(log) - 1) + i = Len(log)
        BY <3>1
      <3> QED
        BY <2>2, <3>1, <3>2 DEF Clicks, LastOf, ClickValue
    <2>4. Followed /\ Warranted
      BY <1>1, <2>1, <2>3 DEF Followed, Follows, Warranted
    <2>5. Unstamped'
      BY <2>1, <2>2, KeyAssumption DEF Unstamped
    <2> QED
      BY <2>4, <2>5, SwitchOutcome
  <1> QED
    BY <1>2, <1>3

LEMMA FirstPressGesture ==
  ASSUME IInv, Typed, GInv, Switch, FirstPress
  PROVE  GInv'
  <1>1. /\ state = "KEY_FIRST_PRESS" /\ code' = code /\ code \in Keys
        /\ code # NoCode /\ LogTyped /\ report = NoReport
    BY AtCase DEF FirstPress
  <1>2. stamped =>
          /\ Idle => Clicks(log, code, 1) /\ age <= quiet /\ diff <= quiet
          /\ ~(Pressed /\ SameKey)
          /\ Released /\ SameKey => Clicks(log, code, 2)
    <2>1. stamped => Counted(1, "KEY_FIRST_PRESS")
      BY DEF GInv, Gesture
    <2> QED
      BY <1>1, <2>1, AtCase, AtGesture
  <1>3. ~stamped => age = Never /\ diff = Never
    BY AtCase DEF GInv, Unstamped
  <1>4. CASE Idle /\ diff >= KEY_LONG_PRESS_TIME
    <2>1. /\ state' = "KEY_CHECK_LONG_KEY_RELEASE"
          /\ report' = Report("long", code, "press")
          /\ UNCHANGED <<stamped, age>>
      BY <1>1, <1>4, CheckStatesDistinct, AtCase, TimeAssumption DEF FirstPress,
         GotoPrinting, KeepTime, Pressed, Released
    <2>2. Warranted
      <3>1. stamped => Ended(code, <<"press">>) /\ quiet >= KEY_LONG_PRESS_TIME
        BY <1>1, <1>2, <1>4, EndedClicks, AtCase, TimeAssumption
      <3> QED
        BY <2>1, <3>1 DEF Warranted, Justified, Report
    <2>3. Followed
      BY <2>1 DEF Followed, Follows
    <2>4. Unstamped'
      BY <1>1, <1>3, <2>1 DEF Unstamped, Never
    <2> QED
      BY <2>2, <2>3, <2>4, SwitchOutcome
  <1>5. CASE Idle /\ diff < KEY_LONG_PRESS_TIME
    <2>1. UNCHANGED <<state, report, stamped, age>>
      BY <1>5, AtCase, TimeAssumption DEF FirstPress, Goto, KeepTime, Pressed,
         Released
    <2>2. Followed /\ Warranted
      BY <1>1, <1>2, <1>5, <2>1 DEF Followed, Follows, Warranted
    <2>3. Unstamped'
      BY <1>1, <1>3, <2>1 DEF Unstamped, Never
    <2> QED
      BY <2>2, <2>3, SwitchOutcome
  <1>6. CASE Pressed \/ (Released /\ ~SameKey)
    <2>1. /\ UNCHANGED <<report, stamped, age>>
          /\ state' = IF Pressed /\ SameKey THEN state ELSE "KEY_ALL_RELEASE"
      BY <1>6 DEF FirstPress, Goto, KeepTime, Pressed, Released
    <2>2. Followed /\ Warranted
      BY <1>1, <1>2, <2>1 DEF Followed, Follows, Warranted
    <2>3. Unstamped'
      BY <1>1, <1>3, <2>1 DEF Unstamped, Never
    <2> QED
      BY <2>2, <2>3, SwitchOutcome
  <1>7. CASE Released /\ SameKey /\ diff >= KEY_CLICK_GAP
    <2>1. /\ state' = "KEY_ALL_RELEASE" /\ UNCHANGED <<stamped, age>>
          /\ report' = Report("single", code, "release")
      BY <1>7, AtCase, TimeAssumption DEF FirstPress, GotoPrinting, KeepTime,
         Pressed, Released
    <2>2. Warranted
      <3>1. stamped => Ended(code, <<"press", "release">>)
        BY <1>1, <1>2, <1>7, EndedClicks
      <3> QED
        BY <2>1, <3>1 DEF Warranted, Justified, Report
    <2>3. Followed
      BY <2>1 DEF Followed, Follows
    <2>4. Unstamped'
      BY <1>1, <1>3, <2>1 DEF Unstamped, Never
    <2> QED
      BY <2>2, <2>3, <2>4, SwitchOutcome
  <1>8. CASE Released /\ SameKey /\ diff < KEY_CLICK_GAP
    <2>1. /\ state' = "KEY_FIRST_RELEASE" /\ report' = report
          /\ stamped' = TRUE /\ age' = 0
      BY <1>8, AtCase, TimeAssumption DEF FirstPress, Goto, StampTime, Pressed,
         Released
    <2>2. stamped /\ quiet \in Nat
      BY <1>3, <1>8, AtCase, TimeAssumption
    <2>3. Followed /\ Warranted
      BY <1>1, <1>2, <1>8, <2>1, <2>2 DEF Followed, Follows, Warranted
    <2>4. Unstamped'
      BY <1>1, <2>1 DEF Unstamped
    <2> QED
      BY <2>3, <2>4, SwitchOutcome
  <1> QED
    BY <1>4, <1>5, <1>6, <1>7, <1>8 DEF FirstPress

\* The cases in which a time was taken.
LEMMA AtLaterCase ==
  ASSUME IInv, Typed, GInv, Switch, NEW n \in 2 .. 4, NEW s,
         stamped => Counted(n, s), state = s,
         s \in {"KEY_FIRST_RELEASE", "KEY_SECOND_PRESS", "KEY_SECOND_RELEASE"}
  PROVE  /\ stamped /\ code \in Keys /\ code # NoCode /\ report = NoReport
         /\ LogTyped /\ quiet \in Nat /\ diff \in Nat
         /\ Idle => Clicks(log, code, n) /\ age <= quiet /\ diff <= quiet
         /\ Pressed /\ SameKey => Clicks(log, code, n + 1) /\ n \in {2, 4}
         /\ Released /\ SameKey => Clicks(log, code, n + 1) /\ n = 3
  <1>1. stamped
    BY DEF GInv, Unstamped
  <1>2. n \in 1 .. 4
    OBVIOUS
  <1> QED
    BY <1>1, <1>2, AtCase, AtGesture

\* A case that keeps the key and the time, or takes it, once one was taken.
LEMMA LaterOutcome ==
  ASSUME Typed, Switch, Followed, Warranted, stamped, code # NoCode,
         code' = code, stamped' = stamped \/ stamped' = TRUE
  PROVE  GInv'
  <1>1. stamped'
    OBVIOUS
  <1>2. Unstamped'
    BY <1>1 DEF Unstamped
  <1> QED
    BY <1>2, SwitchOutcome

LEMMA FirstReleaseGesture ==
  ASSUME IInv, Typed, GInv, Switch, FirstRelease
  PROVE  GInv'
  <1>1. /\ state = "KEY_FIRST_RELEASE" /\ code' = code
        /\ stamped /\ code \in Keys /\ code # NoCode /\ report = NoReport
        /\ LogTyped /\ quiet \in Nat /\ diff \in Nat
        /\ Idle => Clicks(log, code, 2) /\ age <= quiet /\ diff <= quiet
        /\ Pressed /\ SameKey => Clicks(log, code, 3)
        /\ ~(Released /\ SameKey)
    <2>1. stamped => Counted(2, "KEY_FIRST_RELEASE")
      BY DEF GInv, Gesture
    <2>2. state = "KEY_FIRST_RELEASE" /\ code' = code
      BY DEF FirstRelease
    <2> QED
      BY <2>1, <2>2, AtLaterCase
  <1>2. CASE Idle /\ diff >= KEY_CLICK_GAP
    <2>1. /\ state' = "KEY_ALL_RELEASE" /\ UNCHANGED <<stamped, age>>
          /\ report' = Report("single", code, "release")
      <3>1. ~(diff < KEY_CLICK_GAP) /\ ~Pressed /\ ~Released
        BY <1>1, <1>2, TimeAssumption DEF Pressed, Released
      <3> QED
        BY <1>2, <3>1, CheckStatesDistinct DEF FirstRelease, GotoPrinting, KeepTime
    <2>2. Ended(code, <<"press", "release">>)
      BY <1>1, <1>2, EndedClicks
    <2>3. Followed /\ Warranted
      BY <1>1, <2>1, <2>2 DEF Followed, Follows, Warranted, Justified, Report
    <2> QED
      BY <1>1, <2>1, <2>3, LaterOutcome
  <1>3. CASE Idle /\ diff < KEY_CLICK_GAP
    <2>1. UNCHANGED <<state, report, stamped, age>>
      <3>1. ~(diff >= KEY_CLICK_GAP) /\ ~Pressed /\ ~Released
        BY <1>1, <1>3, TimeAssumption DEF Pressed, Released
      <3> QED
        BY <1>3, <3>1 DEF FirstRelease, Goto, KeepTime
    <2>2. Followed /\ Warranted
      BY <1>1, <1>3, <2>1 DEF Followed, Follows, Warranted
    <2> QED
      BY <1>1, <2>1, <2>2, LaterOutcome
  <1>4. CASE Released \/ (Pressed /\ ~SameKey)
    <2>1. /\ state' = "KEY_ALL_RELEASE" /\ UNCHANGED <<report, stamped, age>>
      BY <1>1, <1>4 DEF FirstRelease, Goto, KeepTime, Pressed, Released
    <2>2. Followed /\ Warranted
      BY <1>1, <2>1 DEF Followed, Follows, Warranted
    <2> QED
      BY <1>1, <2>1, <2>2, LaterOutcome
  <1>5. CASE Pressed /\ SameKey
    <2>1. /\ state' = "KEY_SECOND_PRESS" /\ report' = report
          /\ stamped' = TRUE /\ age' = 0
      BY <1>5 DEF FirstRelease, Goto, StampTime, Pressed, Released
    <2>2. Followed /\ Warranted
      BY <1>1, <1>5, <2>1 DEF Followed, Follows, Warranted
    <2> QED
      BY <1>1, <2>1, <2>2, LaterOutcome
  <1> QED
    BY <1>2, <1>3, <1>4, <1>5 DEF FirstRelease

LEMMA SecondPressGesture ==
  ASSUME IInv, Typed, GInv, Switch, SecondPress
  PROVE  GInv'
  <1>1. /\ state = "KEY_SECOND_PRESS" /\ code' = code
        /\ stamped /\ code \in Keys /\ code # NoCode /\ report = NoReport
        /\ LogTyped /\ quiet \in Nat /\ diff \in Nat
        /\ Idle => Clicks(log, code, 3) /\ age <= quiet /\ diff <= quiet
        /\ Released /\ SameKey => Clicks(log, code, 4)
        /\ ~(Pressed /\ SameKey)
    <2>1. stamped => Counted(3, "KEY_SECOND_PRESS")
      BY DEF GInv, Gesture
    <2>2. state = "KEY_SECOND_PRESS" /\ code' = code
      BY DEF SecondPress
    <2> QED
      BY <2>1, <2>2, AtLaterCase
  <1>2. CASE Idle /\ diff >= KEY_CLICK_GAP
    <2>1. /\ state' = "KEY_CHECK_DOUBLE_KEY_RELEASE" /\ UNCHANGED <<stamped, age>>
          /\ report' = Report("double", code, "press")
      <3>1. ~(diff < KEY_CLICK_GAP) /\ ~Pressed /\ ~Released
        BY <1>1, <1>2, TimeAssumption DEF Pressed, Released
      <3> QED
        BY <1>2, <3>1, CheckStatesDistinct DEF SecondPress, GotoPrinting, KeepTime
    <2>2. /\ Ended(code, <<"press", "release", "press">>)
          /\ quiet >= KEY_CLICK_GAP
      BY <1>1, <1>2, EndedClicks, TimeAssumption
    <2>3. Followed /\ Warranted
      BY <1>1, <2>1, <2>2 DEF Followed, Follows, Warranted, Justified, Report
    <2> QED
      BY <1>1, <2>1, <2>3, LaterOutcome
  <1>3. CASE Idle /\ diff < KEY_CLICK_GAP
    <2>1. UNCHANGED <<state, report, stamped, age>>
      <3>1. ~(diff >= KEY_CLICK_GAP) /\ ~Pressed /\ ~Released
        BY <1>1, <1>3, TimeAssumption DEF Pressed, Released
      <3> QED
        BY <1>3, <3>1 DEF SecondPress, Goto, KeepTime
    <2>2. Followed /\ Warranted
      BY <1>1, <1>3, <2>1 DEF Followed, Follows, Warranted
    <2> QED
      BY <1>1, <2>1, <2>2, LaterOutcome
  <1>4. CASE Pressed \/ (Released /\ ~SameKey)
    <2>1. /\ state' = "KEY_ALL_RELEASE" /\ UNCHANGED <<report, stamped, age>>
      BY <1>1, <1>4 DEF SecondPress, Goto, KeepTime, Pressed, Released
    <2>2. Followed /\ Warranted
      BY <1>1, <2>1 DEF Followed, Follows, Warranted
    <2> QED
      BY <1>1, <2>1, <2>2, LaterOutcome
  <1>5. CASE Released /\ SameKey
    <2>1. /\ state' = "KEY_SECOND_RELEASE" /\ report' = report
          /\ stamped' = TRUE /\ age' = 0
      BY <1>5 DEF SecondPress, Goto, StampTime, Pressed, Released
    <2>2. Followed /\ Warranted
      BY <1>1, <1>5, <2>1 DEF Followed, Follows, Warranted
    <2> QED
      BY <1>1, <2>1, <2>2, LaterOutcome
  <1> QED
    BY <1>2, <1>3, <1>4, <1>5 DEF SecondPress

LEMMA SecondReleaseGesture ==
  ASSUME IInv, Typed, GInv, Switch, SecondRelease
  PROVE  GInv'
  <1>1. /\ state = "KEY_SECOND_RELEASE" /\ code' = code
        /\ UNCHANGED <<stamped, age>>
        /\ stamped /\ code \in Keys /\ code # NoCode /\ report = NoReport
        /\ LogTyped /\ quiet \in Nat /\ diff \in Nat
        /\ Idle => Clicks(log, code, 4) /\ age <= quiet /\ diff <= quiet
        /\ Pressed /\ SameKey => Clicks(log, code, 5)
        /\ ~(Released /\ SameKey)
    <2>1. stamped => Counted(4, "KEY_SECOND_RELEASE")
      BY DEF GInv, Gesture
    <2>2. /\ state = "KEY_SECOND_RELEASE" /\ code' = code
          /\ UNCHANGED <<stamped, age>>
      BY DEF SecondRelease, KeepTime
    <2> QED
      BY <2>1, <2>2, AtLaterCase
  <1>2. CASE Idle /\ diff >= KEY_CLICK_GAP
    <2>1. /\ state' = "KEY_ALL_RELEASE"
          /\ report' = Report("double", code, "release")
      BY <1>1, <1>2, TimeAssumption DEF SecondRelease, GotoPrinting, Pressed,
         Released
    <2>2. Ended(code, <<"release">>)
      BY <1>1, <1>2, EndedClicks
    <2>3. Followed /\ Warranted
      BY <1>1, <2>1, <2>2 DEF Followed, Follows, Warranted, Justified, Report
    <2> QED
      BY <1>1, <2>1, <2>3, LaterOutcome
  <1>3. CASE Idle /\ diff < KEY_CLICK_GAP
    <2>1. UNCHANGED <<state, report>>
      BY <1>1, <1>3, TimeAssumption DEF SecondRelease, Goto, Pressed, Released
    <2>2. Followed /\ Warranted
      BY <1>1, <1>3, <2>1 DEF Followed, Follows, Warranted
    <2> QED
      BY <1>1, <2>1, <2>2, LaterOutcome
  <1>4. CASE Released \/ (Pressed /\ ~SameKey)
    <2>1. state' = "KEY_ALL_RELEASE" /\ report' = report
      BY <1>1, <1>4 DEF SecondRelease, Goto, Pressed, Released
    <2>2. Followed /\ Warranted
      BY <1>1, <2>1 DEF Followed, Follows, Warranted
    <2> QED
      BY <1>1, <2>1, <2>2, LaterOutcome
  <1>5. CASE Pressed /\ SameKey
    <2>1. /\ state' = "KEY_CHECK_TRIPLE_KEY_RELEASE"
          /\ report' = Report("triple", code, "press")
      BY <1>1, <1>5, CheckStatesDistinct DEF SecondRelease, GotoPrinting,
         Pressed, Released
    <2>2. Ended(code, <<"press", "release", "press", "release", "press">>)
      BY <1>1, <1>5, EndedClicks
    <2>3. Followed /\ Warranted
      BY <1>1, <2>1, <2>2 DEF Followed, Follows, Warranted, Justified, Report
    <2> QED
      BY <1>1, <2>1, <2>3, LaterOutcome
  <1> QED
    BY <1>2, <1>3, <1>4, <1>5 DEF SecondRelease

LEMMA CheckReleaseGesture ==
  ASSUME IInv, Typed, GInv, Switch, NEW kind \in DOMAIN CheckStates,
         CheckRelease(kind)
  PROVE  GInv'
  <1>1. /\ state = CheckStates[kind] /\ code' = code
        /\ UNCHANGED <<stamped, age>>
        /\ kind \in {"double", "triple", "long"}
        /\ state \in {"KEY_CHECK_DOUBLE_KEY_RELEASE",
                      "KEY_CHECK_TRIPLE_KEY_RELEASE",
                      "KEY_CHECK_LONG_KEY_RELEASE"}
    BY CheckStatesDistinct DEF CheckRelease, KeepTime
  <1>2. code \in Keys /\ code # NoCode /\ LogTyped /\ report = NoReport
    BY <1>1, AtCase
  <1>3. state' \in {state, "KEY_ALL_RELEASE"}
    BY DEF CheckRelease, Goto, GotoPrinting
  <1>4. Followed
    BY <1>1, <1>3 DEF Followed, Follows
  <1>5. Unstamped'
    BY <1>1, <1>3 DEF GInv, Unstamped, Never
  <1>6. CASE Released /\ SameKey
    <2>1. report' = Report(kind, code, "release")
      BY <1>6 DEF CheckRelease, GotoPrinting
    <2>2. log # <<>> /\ LastOf(log) = Event(code, "release")
      BY <1>6, AtCase DEF Released, SameKey
    <2>3. Ended(code, <<"release">>)
      BY <1>2, <2>2, EndedClicks
    <2>4. ~stamped => kind = "long"
      BY <1>1, CheckStatesDistinct DEF GInv, Unstamped
    <2>5. Justified(report')
      BY <1>1, <2>1, <2>3 DEF Justified, Report
    <2>6. ~stamped => report'.kind \in {"long", "single"}
      BY <2>1, <2>4 DEF Report
    <2>7. Warranted
      BY <1>1, <2>5, <2>6 DEF Warranted
    <2> QED
      BY <1>4, <1>5, <2>7, SwitchOutcome
  <1>7. CASE ~(Released /\ SameKey)
    <2>1. Warranted
      BY <1>2, <1>7 DEF CheckRelease, Goto, Warranted
    <2> QED
      BY <1>4, <1>5, <2>1, SwitchOutcome
  <1> QED
    BY <1>6, <1>7

LEMMA InitGesture == Init => GInv
  BY DEF Init, GInv, Gesture, AtSwitch, Unstamped, ReportJustified, Never

\* Every step.
LEMMA NextGesture ==
  IInv /\ Typed /\ Begun /\ Signals /\ GInv /\ [Next]_vars => GInv'
  <1> SUFFICES ASSUME IInv, Typed, Begun, Signals, GInv, [Next]_vars
               PROVE  GInv'
    OBVIOUS
  <1>1. CASE MainStep \/ ReadEvent \/ PollTimeout \/ User \/ Tick
             \/ UNCHANGED vars
    <2>1. UNCHANGED <<code, stamped, diff, log, report>>
      BY <1>1 DEF MainStep, StartFails, StartThread, ResetState, ReadEvent,
         PollTimeout, User, PressKey, ReleaseKey, RepeatKey, OtherEvent, Send,
         Tick, vars, thread, lastKey, history
    <2>2. state' \in {state, "KEY_ALL_RELEASE"}
      BY <1>1 DEF MainStep, StartFails, StartThread, ResetState, ReadEvent,
         PollTimeout, User, PressKey, ReleaseKey, RepeatKey, OtherEvent, Send,
         Tick, vars, thread, lastKey, history
    <2>3. UNCHANGED <<pc, ev>> \/ (pc # "switch" /\ pc' # "switch")
      <3>1. CASE StartThread
        BY <3>1 DEF StartThread, Begun
      <3>2. CASE ReadEvent
        BY <3>2 DEF ReadEvent
      <3>3. CASE PollTimeout
        BY <3>3 DEF PollTimeout
      <3>4. CASE StartFails \/ ResetState \/ User \/ Tick \/ UNCHANGED vars
        BY <3>4 DEF StartFails, ResetState, User, PressKey, ReleaseKey,
           RepeatKey, OtherEvent, Send, Tick, vars, thread
      <3> QED
        BY <1>1, <3>1, <3>2, <3>3, <3>4 DEF MainStep
    <2>4. UNCHANGED <<age, quiet>> \/ (age' = Older(age) /\ quiet' = Older(quiet))
      BY <1>1 DEF MainStep, StartFails, StartThread, ResetState, ReadEvent,
         PollTimeout, User, PressKey, ReleaseKey, RepeatKey, OtherEvent, Send,
         Tick, vars, thread, lastKey, history
    <2> QED
      BY <2>1, <2>2, <2>3, <2>4, StayGesture
  <1>2. CASE Synchronise
    BY <1>2, SynchroniseGesture
  <1>3. CASE Switch
    BY <1>3, AllReleaseGesture, FirstPressGesture, FirstReleaseGesture,
       SecondPressGesture, SecondReleaseGesture, CheckReleaseGesture DEF Switch
  <1> QED
    BY <1>1, <1>2, <1>3 DEF Next, ThreadStep

\* A report counts its own key's newest presses, and a long press was a long
\* one (key_app.cpp 139-283), for every order of keys, timeouts and the reset;
\* the first key ever seen is reported as a long or a single press.
THEOREM ReportsRight == Spec => []ReportJustified
  <1>1. Init => Begun
    BY DEF Init, Begun
  <1>2. Spec => [](IInv /\ Typed /\ Begun /\ Signals /\ GInv)
    BY <1>1, InitTyped, InitSignals, InitGesture, NextTyped, NextBegun,
       NextSignals, NextGesture, Invariance, PTL DEF Spec
  <1>3. GInv => ReportJustified
    BY DEF GInv
  <1> QED
    BY <1>2, <1>3, PTL

-----------------------------------------------------------------------------
(* Why a gesture ends once the keys are up: what GestureEnds says but for   *)
(* the passing of time.                                                     *)

\* The states that only an event leaves.
WaitStates == {"KEY_FIRST_PRESS", "KEY_SECOND_PRESS"}
                \cup {CheckStates[kind] : kind \in DOMAIN CheckStates}

\* The release of key k is still to come, behind the first i events its device
\* has for the reader or once it is let go.
ReleaseAfter(k, i) ==
  \/ k \in down
  \/ \E j \in i + 1 .. Len(queue[DeviceOf[k]]) :
       queue[DeviceOf[k]][j] = Event(k, "release")

\* An event that says that key k is down.
SaysDown(k, e) == e \in {Event(k, "press"), Event(k, "repeat")}

AtHand == pc \in {"sync", "switch"}

\* The release of a key that an event says is down comes after that event.
HeldInQueue ==
  \A d \in Devices : \A k \in Keys : \A i \in 1 .. Len(queue[d]) :
    SaysDown(k, queue[d][i]) => DeviceOf[k] = d /\ ReleaseAfter(k, i)
HeldAtHand ==
  AtHand => \A k \in Keys : SaysDown(k, ev) => ReleaseAfter(k, 0)

\* No event of the key of last_key is dropped.
Filtered ==
  /\ AtHand /\ ev # TIMEOUT => PassesFilter(ev.code)
  /\ code # NoCode => PassesFilter(code)

\* The machine waits for no release that it has already been given: the
\* release of its key is at hand, unread, or the key is held.
WaitsForRelease ==
  state \in WaitStates =>
    ReleaseAfter(code, 0) \/ (AtHand /\ ev = Event(code, "release"))

HInv == HeldInQueue /\ HeldAtHand /\ Filtered /\ WaitsForRelease

\* With every key up and every event read, a timeout that comes
\* KEY_CLICK_GAP after the last press or release ends the gesture.
TimeoutEnds ==
  [][Switch /\ ev = TIMEOUT /\ diff >= KEY_CLICK_GAP /\ down = {} /\ Ready = {}
       => state' = "KEY_ALL_RELEASE"]_vars

LEMMA InitHeld == Init => HInv
  <1> SUFFICES ASSUME Init PROVE HInv
    OBVIOUS
  <1>1. \A d \in Devices : Len(queue[d]) = 0
    BY DEF Init
  <1>2. HeldInQueue
    BY <1>1 DEF HeldInQueue
  <1>3. HeldAtHand /\ Filtered
    BY DEF Init, HeldAtHand, Filtered, AtHand
  <1>4. WaitsForRelease
    BY CheckStatesDistinct DEF Init, WaitsForRelease, WaitStates
  <1> QED
    BY <1>2, <1>3, <1>4 DEF HInv

\* A key's event is of one of the keys.
LEMMA DownIsAKey ==
  ASSUME NEW e \in Messages \cup {TIMEOUT}, e.value \in {"press", "repeat"}
  PROVE  e.code \in Keys /\ SaysDown(e.code, e)
  BY DEF Messages, KeyEvents, Event, Other, TIMEOUT, SaysDown

\* A machine that waits has a key to wait for.
LEMMA WaitsForKey ==
  ASSUME IInv, StepsTyped, state \in WaitStates
  PROVE  code \in Keys
  BY CheckStatesDistinct DEF IInv, KeyKnown, StepsTyped, WaitStates

\* Steps that leave the devices and the thread alone, and steps that begin a
\* poll without an event.
LEMMA StayHeld ==
  ASSUME HInv, UNCHANGED <<down, queue, code>>,
         state' \in {state, "KEY_ALL_RELEASE"},
         \/ UNCHANGED <<pc, ev>>
         \/ ~AtHand /\ (~AtHand' \/ ev' = TIMEOUT)
  PROVE  HInv'
  <1>1. \A k, i : ReleaseAfter(k, i)' <=> ReleaseAfter(k, i)
    BY DEF ReleaseAfter
  <1>2. HeldInQueue'
    BY <1>1 DEF HInv, HeldInQueue
  <1>3. \A k \in Keys : ~SaysDown(k, TIMEOUT)
    BY DEF SaysDown, TIMEOUT, Event
  <1>4. HeldAtHand'
    BY <1>1, <1>3 DEF HInv, HeldAtHand, AtHand
  <1>5. Filtered'
    BY DEF HInv, Filtered, AtHand, PassesFilter, CodedFilter
  <1>6. WaitsForRelease'
    <2>1. "KEY_ALL_RELEASE" \notin WaitStates
      BY CheckStatesDistinct DEF WaitStates
    <2>2. (AtHand /\ ev = Event(code, "release"))
            => (AtHand /\ ev = Event(code, "release"))'
      BY DEF AtHand
    <2> QED
      BY <1>1, <2>1, <2>2 DEF HInv, WaitsForRelease
  <1> QED
    BY <1>2, <1>4, <1>5, <1>6 DEF HInv

\* One more event of a device: a key that is let go is announced.
LEMMA SendHeld ==
  ASSUME IInv, StepsTyped, HInv, NEW d \in Devices, NEW e \in Messages,
         Send(d, e),
         \A k \in Keys : SaysDown(k, e) => DeviceOf[k] = d /\ k \in down',
         \A k \in Keys : k \in down /\ k \notin down' =>
                           DeviceOf[k] = d /\ e = Event(k, "release")
  PROVE  HInv'
  <1> DEFINE n == Len(queue[d])
  <1>1. /\ n \in Nat /\ Len(queue'[d]) = n + 1 /\ queue'[d][n + 1] = e
        /\ \A i \in 1 .. n : queue'[d][i] = queue[d][i]
        /\ \A c \in Devices : c # d => queue'[c] = queue[c]
        /\ \A c \in Devices : Len(queue[c]) \in Nat
    <2>1. /\ queue[d] \in Seq(Messages) /\ queue'[d] = Append(queue[d], e)
          /\ \A c \in Devices : c # d => queue'[c] = queue[c]
          /\ \A c \in Devices : queue[c] \in Seq(Messages)
      BY DEF IInv, EventsTyped, Send
    <2> QED
      BY <2>1, AppendProperties, LenProperties
  <1>2. UNCHANGED <<pc, ev, code, state>>
    BY DEF Send, thread, lastKey
  <1> HIDE DEF n
  <1>3. ASSUME NEW k \in Keys, NEW i \in 0 .. Len(queue[DeviceOf[k]]),
               ReleaseAfter(k, i)
        PROVE  ReleaseAfter(k, i)'
    <2>1. CASE k \in down'
      BY <2>1 DEF ReleaseAfter
    <2>2. CASE k \in down /\ k \notin down'
      <3>1. DeviceOf[k] = d /\ e = Event(k, "release")
        BY <2>2
      <3>2. n + 1 \in i + 1 .. Len(queue'[DeviceOf[k]]) /\ i <= n
        BY <1>1, <3>1 DEF n
      <3> QED
        BY <1>1, <3>1, <3>2 DEF ReleaseAfter
    <2>3. CASE k \notin down
      <3>1. PICK j \in i + 1 .. Len(queue[DeviceOf[k]]) :
              queue[DeviceOf[k]][j] = Event(k, "release")
        BY <1>3, <2>3 DEF ReleaseAfter
      <3>2. DeviceOf[k] \in Devices
        BY KeyAssumption
      <3>3. /\ j \in i + 1 .. Len(queue'[DeviceOf[k]])
            /\ queue'[DeviceOf[k]][j] = queue[DeviceOf[k]][j]
        BY <1>1, <3>1, <3>2 DEF n
      <3> QED
        BY <3>1, <3>3 DEF ReleaseAfter
    <2> QED
      BY <2>1, <2>2, <2>3
  <1>4. \A k \in Keys : DeviceOf[k] \in Devices
                          /\ 0 \in 0 .. Len(queue[DeviceOf[k]])
    BY <1>1, KeyAssumption
  <1>5. HeldInQueue'
    <2> SUFFICES ASSUME NEW c \in Devices, NEW k \in Keys,
                        NEW i \in 1 .. Len(queue'[c]), SaysDown(k, queue'[c][i])
                 PROVE  DeviceOf[k] = c /\ ReleaseAfter(k, i)'
      BY DEF HeldInQueue, SaysDown
    <2>1. CASE c = d /\ i = n + 1
      <3>1. DeviceOf[k] = d /\ k \in down'
        BY <1>1, <2>1
      <3> QED
        BY <2>1, <3>1 DEF ReleaseAfter
    <2>2. CASE c # d \/ i # n + 1
      <3>1. i \in 1 .. Len(queue[c]) /\ queue'[c][i] = queue[c][i]
        BY <1>1, <2>2 DEF n
      <3>2. DeviceOf[k] = c /\ ReleaseAfter(k, i)
        BY <3>1 DEF HInv, HeldInQueue
      <3>3. i \in 0 .. Len(queue[DeviceOf[k]])
        BY <3>1, <3>2
      <3> QED
        BY <1>3, <3>2, <3>3
    <2> QED
      BY <2>1, <2>2
  <1>6. HeldAtHand'
    BY <1>2, <1>3, <1>4 DEF HInv, HeldAtHand, AtHand, SaysDown
  <1>7. Filtered'
    BY <1>2 DEF HInv, Filtered, AtHand, PassesFilter, CodedFilter
  <1>8. WaitsForRelease'
    <2> SUFFICES ASSUME state \in WaitStates
                 PROVE  ReleaseAfter(code, 0)'
                          \/ (AtHand /\ ev = Event(code, "release"))'
      BY <1>2 DEF WaitsForRelease
    <2>1. PICK k \in Keys : k = code
      BY WaitsForKey
    <2>2. ReleaseAfter(k, 0) => ReleaseAfter(k, 0)'
      BY <1>3, <1>4
    <2>3. code' = k
      BY <1>2, <2>1
    <2>4. ReleaseAfter(k, 0) \/ (AtHand /\ ev = Event(k, "release"))
      BY <2>1 DEF HInv, WaitsForRelease
    <2>5. CASE ReleaseAfter(k, 0)
      BY <2>2, <2>3, <2>5 DEF ReleaseAfter
    <2>6. CASE AtHand /\ ev = Event(k, "release")
      BY <1>2, <2>3, <2>6 DEF AtHand
    <2> QED
      BY <2>4, <2>5, <2>6
  <1> QED
    BY <1>5, <1>6, <1>7, <1>8 DEF HInv

\* The reader takes an event: a release that is waited for is then at hand.
LEMMA ReadHeld ==
  ASSUME IInv, StepsTyped, HInv, ReadEvent
  PROVE  HInv'
  <1>1. PICK d \in Ready : /\ queue' = [queue EXCEPT ![d] = Tail(queue[d])]
                           /\ ev' = Head(queue[d])
    BY DEF ReadEvent
  <1>2. /\ d \in Devices /\ queue[d] \in Seq(Messages) /\ queue[d] # <<>>
        /\ queue \in [Devices -> Seq(Messages)]
        /\ UNCHANGED <<down, code, state>>
        /\ \A k \in Keys : DeviceOf[k] \in Devices
    BY KeyAssumption DEF IInv, EventsTyped, Ready, ReadEvent, lastKey
  <1> DEFINE n == Len(queue[d])
  <1>3. /\ n \in Nat /\ n > 0 /\ Len(queue'[d]) = n - 1 /\ ev' = queue[d][1]
        /\ \A i \in 1 .. n - 1 : queue'[d][i] = queue[d][i + 1]
        /\ \A c \in Devices : c # d => queue'[c] = queue[c]
    <2>1. queue'[d] = Tail(queue[d])
      BY <1>1, <1>2
    <2> QED
      BY <1>1, <1>2, <2>1, HeadTailProperties, EmptySeq, LenProperties
  <1>4. queue[d][1] \in Messages
    BY <1>2, <1>3, ElementOfSeq
  <1> HIDE DEF n
  <1>5. ASSUME NEW k \in Keys, DeviceOf[k] = d, NEW i \in Nat,
               ReleaseAfter(k, i + 1)
        PROVE  ReleaseAfter(k, i)'
    <2>1. CASE k \in down
      BY <1>2, <2>1 DEF ReleaseAfter
    <2>2. CASE k \notin down
      <3>1. PICK j \in (i + 1) + 1 .. n : queue[d][j] = Event(k, "release")
        BY <1>5, <2>2 DEF ReleaseAfter, n
      <3>2. /\ j - 1 \in i + 1 .. Len(queue'[d])
            /\ queue'[d][j - 1] = queue[d][j]
        BY <1>3, <3>1
      <3> QED
        BY <1>5, <3>1, <3>2 DEF ReleaseAfter
    <2> QED
      BY <2>1, <2>2
  <1>6. ASSUME NEW k \in Keys, DeviceOf[k] # d, NEW i \in Nat,
               ReleaseAfter(k, i)
        PROVE  ReleaseAfter(k, i)'
    BY <1>2, <1>3, <1>6 DEF ReleaseAfter
  <1>7. ASSUME NEW k \in Keys, ReleaseAfter(k, 0)
        PROVE  ReleaseAfter(k, 0)' \/ ev' = Event(k, "release")
    <2>1. CASE DeviceOf[k] # d
      BY <1>6, <1>7, <2>1
    <2>2. CASE DeviceOf[k] = d /\ ReleaseAfter(k, 0 + 1)
      BY <1>5, <2>2
    <2>3. CASE DeviceOf[k] = d /\ ~ReleaseAfter(k, 0 + 1)
      <3>1. PICK j \in 1 .. n : queue[d][j] = Event(k, "release")
        BY <1>7, <2>3 DEF ReleaseAfter, n
      <3>2. j \notin (0 + 1) + 1 .. n
        BY <2>3, <3>1 DEF ReleaseAfter, n
      <3>3. j = 1
        BY <1>3, <3>1, <3>2
      <3> QED
        BY <1>3, <3>1, <3>3
    <2> QED
      BY <2>1, <2>2, <2>3
  <1>8. HeldInQueue'
    <2> SUFFICES ASSUME NEW c \in Devices, NEW k \in Keys,
                        NEW i \in 1 .. Len(queue'[c]), SaysDown(k, queue'[c][i])
                 PROVE  DeviceOf[k] = c /\ ReleaseAfter(k, i)'
      BY DEF HeldInQueue, SaysDown
    <2>1. CASE c = d
      <3>1. /\ i \in 1 .. n - 1 /\ i + 1 \in 1 .. n
            /\ queue'[d][i] = queue[d][i + 1]
        BY <1>3, <2>1
      <3>2. DeviceOf[k] = d /\ ReleaseAfter(k, i + 1)
        BY <1>2, <2>1, <3>1 DEF HInv, HeldInQueue, n
      <3> QED
        BY <1>5, <2>1, <3>1, <3>2
    <2>2. CASE c # d
      <3>1. queue'[c] = queue[c]
        BY <1>3, <2>2
      <3>2. DeviceOf[k] = c /\ ReleaseAfter(k, i)
        BY <3>1 DEF HInv, HeldInQueue
      <3> QED
        BY <1>6, <2>2, <3>2
    <2> QED
      BY <2>1, <2>2
  <1>9. HeldAtHand'
    <2> SUFFICES ASSUME NEW k \in Keys, SaysDown(k, ev')
                 PROVE  ReleaseAfter(k, 0)'
      BY DEF HeldAtHand, SaysDown
    <2>1. DeviceOf[k] = d /\ ReleaseAfter(k, 0 + 1)
      BY <1>2, <1>3 DEF HInv, HeldInQueue, n
    <2> QED
      BY <1>5, <2>1
  <1>10. (AtHand => PassesFilter(ev.code))'
    BY DEF ReadEvent, AtHand, PassesFilter, CodedFilter
  <1>11. Filtered'
    BY <1>2, <1>10 DEF HInv, Filtered, PassesFilter, CodedFilter
  <1>12. WaitsForRelease'
    <2> SUFFICES ASSUME state \in WaitStates
                 PROVE  ReleaseAfter(code, 0)'
                          \/ (AtHand /\ ev = Event(code, "release"))'
      BY <1>2 DEF WaitsForRelease
    <2>1. PICK k \in Keys : k = code
      BY WaitsForKey
    <2>2. code' = k
      BY <1>2, <2>1
    <2>3. ~AtHand
      BY DEF ReadEvent, AtHand
    <2>4. ReleaseAfter(k, 0)
      BY <2>1, <2>3 DEF HInv, WaitsForRelease
    <2>5. CASE ReleaseAfter(k, 0)'
      BY <2>2, <2>5 DEF ReleaseAfter
    <2>6. CASE ev' = Event(k, "release")
      <3>1. k # NoCode /\ PassesFilter(k)
        BY <2>1, KeyAssumption DEF HInv, Filtered
      <3>2. ev' # Other /\ PassesFilter(ev'.code)
        BY <2>6, <3>1 DEF Event, Other
      <3>3. pc' = "sync"
        BY <3>2 DEF ReadEvent
      <3> QED
        BY <2>2, <2>6, <3>3 DEF AtHand
    <2> QED
      BY <1>7, <2>4, <2>5, <2>6
  <1> QED
    BY <1>8, <1>9, <1>11, <1>12 DEF HInv

\* The first key is adopted with its release at hand or still to come.
LEMMA SynchroniseHeld ==
  ASSUME IInv, StepsTyped, HInv, Synchronise
  PROVE  HInv'
  <1>1. /\ UNCHANGED <<down, queue, ev>>
        /\ pc = "sync" /\ pc' = "switch" /\ AtHand /\ AtHand'
    BY DEF Synchronise, devices, AtHand
  <1>2. \A k, i : ReleaseAfter(k, i)' <=> ReleaseAfter(k, i)
    BY <1>1 DEF ReleaseAfter
  <1>3. HeldInQueue' /\ HeldAtHand'
    BY <1>1, <1>2 DEF HInv, HeldInQueue, HeldAtHand
  <1>4. Filtered'
    BY <1>1 DEF HInv, Filtered, Synchronise, Adopts, PassesFilter, CodedFilter
  <1>5. WaitsForRelease'
    <2>1. CASE Adopts
      <3>1. ev \in KeyEvents /\ code' = ev.code
        BY <1>1, <2>1 DEF IInv, EventsTyped, Messages, Synchronise, Adopts
      <3>2. PICK k \in Keys, v \in Values : ev = Event(k, v)
        BY <3>1 DEF KeyEvents
      <3>3. code' = k
        BY <3>1, <3>2 DEF Event
      <3>4. CASE v = "release"
        BY <1>1, <3>2, <3>3, <3>4 DEF WaitsForRelease
      <3>5. CASE v # "release"
        <4>1. SaysDown(k, ev)
          BY <3>2, <3>5 DEF Values, SaysDown
        <4>2. ReleaseAfter(k, 0)'
          BY <1>1, <1>2, <4>1 DEF HInv, HeldAtHand
        <4> QED
          BY <3>3, <4>2 DEF WaitsForRelease, ReleaseAfter
      <3> QED
        BY <3>4, <3>5
    <2>2. CASE ~Adopts
      <3>1. UNCHANGED <<code, state>>
        BY <2>2 DEF Synchronise
      <3> QED
        BY <1>1, <3>1 DEF HInv, WaitsForRelease, ReleaseAfter
    <2> QED
      BY <2>1, <2>2
  <1> QED
    BY <1>3, <1>4, <1>5 DEF HInv

\* A case that waits for a release is left with it, and a case that does not
\* goes to one that does with a press of its key.
LEMMA SwitchHeld ==
  ASSUME IInv, StepsTyped, HInv, Switch
  PROVE  HInv'
  <1>1. /\ UNCHANGED <<down, queue, ev>>
        /\ AtHand /\ ~AtHand' /\ code' \in {code, ev.code}
    BY DEF Switch, devices, AtHand, AllRelease, FirstPress, FirstRelease,
       SecondPress, SecondRelease, CheckRelease
  <1>2. HeldInQueue' /\ HeldAtHand'
    BY <1>1 DEF HInv, HeldInQueue, HeldAtHand, ReleaseAfter
  <1>3. ASSUME state \in WaitStates
        PROVE  code' = code /\ (Released /\ SameKey => state' \notin WaitStates)
    <2>1. FirstPress \/ SecondPress
            \/ \E kind \in DOMAIN CheckStates : CheckRelease(kind)
      BY <1>3, CheckStatesDistinct DEF Switch, WaitStates, AllRelease,
         FirstRelease, SecondRelease
    <2>2. CASE FirstPress
      BY <2>2, CheckStatesDistinct DEF FirstPress, WaitStates, Goto,
         GotoPrinting, Released, Pressed
    <2>3. CASE SecondPress
      BY <2>3, CheckStatesDistinct DEF SecondPress, WaitStates, Goto,
         GotoPrinting, Released, Pressed
    <2>4. ASSUME NEW kind \in DOMAIN CheckStates, CheckRelease(kind)
          PROVE  code' = code
                   /\ (Released /\ SameKey => state' \notin WaitStates)
      BY <2>4, CheckStatesDistinct DEF CheckRelease, WaitStates, GotoPrinting
    <2> QED
      BY <2>1, <2>2, <2>3, <2>4
  <1>4. ASSUME state \notin WaitStates, state' \in WaitStates
        PROVE  Pressed /\ code' = ev.code
    <2>1. AllRelease \/ FirstRelease \/ SecondRelease
      BY <1>4, CheckStatesDistinct DEF Switch, WaitStates, FirstPress,
         SecondPress, CheckRelease
    <2>2. CASE AllRelease
      BY <1>4, <2>2, CheckStatesDistinct DEF AllRelease, WaitStates, Goto
    <2>3. CASE FirstRelease
      BY <1>4, <2>3, CheckStatesDistinct DEF FirstRelease, WaitStates, Goto,
         GotoPrinting, SameKey
    <2>4. CASE SecondRelease
      BY <1>4, <2>4, CheckStatesDistinct DEF SecondRelease, WaitStates, Goto,
         GotoPrinting, SameKey
    <2> QED
      BY <2>1, <2>2, <2>3, <2>4
  <1>5. WaitsForRelease'
    <2> SUFFICES ASSUME state' \in WaitStates
                 PROVE  ReleaseAfter(code, 0)'
      BY DEF WaitsForRelease
    <2>1. CASE state \in WaitStates
      <3>1. code' = code /\ ~(Released /\ SameKey)
        BY <1>3, <2>1
      <3>2. ev # Event(code, "release")
        BY <3>1 DEF Released, SameKey, Idle, TIMEOUT, Event
      <3> QED
        BY <1>1, <2>1, <3>1, <3>2 DEF HInv, WaitsForRelease, ReleaseAfter
    <2>2. CASE state \notin WaitStates
      <3>1. Pressed /\ code' = ev.code
        BY <1>4, <2>2
      <3>2. ev \in Messages \cup {TIMEOUT} /\ ev.value = "press"
        BY <3>1 DEF IInv, EventsTyped, Pressed
      <3>3. PICK k \in Keys : k = ev.code /\ SaysDown(k, ev)
        BY <3>2, DownIsAKey
      <3>4. ReleaseAfter(k, 0)
        BY <1>1, <3>3 DEF HInv, HeldAtHand
      <3> QED
        BY <1>1, <3>1, <3>3, <3>4 DEF ReleaseAfter
    <2> QED
      BY <2>1, <2>2
  <1>6. Filtered'
    <2>1. code' # code => ev # TIMEOUT
      BY DEF Switch, AllRelease, FirstPress, FirstRelease, SecondPress,
         SecondRelease, CheckRelease, Pressed, Idle
    <2> QED
      BY <1>1, <2>1 DEF HInv, Filtered, PassesFilter, CodedFilter
  <1> QED
    BY <1>2, <1>5, <1>6 DEF HInv

\* Every step.
LEMMA NextHeld ==
  IInv /\ Typed /\ Begun /\ HInv /\ [Next]_vars => HInv'
  <1> SUFFICES ASSUME IInv, Typed, Begun, HInv, [Next]_vars
               PROVE  HInv'
    OBVIOUS
  <1>0. StepsTyped
    BY DEF Typed
  <1>1. CASE MainStep \/ PollTimeout \/ Tick \/ UNCHANGED vars
    <2>1. /\ UNCHANGED <<down, queue, code>>
          /\ state' \in {state, "KEY_ALL_RELEASE"}
      BY <1>1 DEF MainStep, StartFails, StartThread, ResetState, PollTimeout,
         Tick, vars, devices, history, lastKey
    <2>2. \/ UNCHANGED <<pc, ev>>
          \/ ~AtHand /\ (~AtHand' \/ ev' = TIMEOUT)
      <3>1. CASE StartThread
        BY <3>1 DEF StartThread, Begun, AtHand
      <3>2. CASE PollTimeout
        BY <3>2 DEF PollTimeout, AtHand
      <3>3. CASE StartFails \/ ResetState \/ Tick \/ UNCHANGED vars
        BY <3>3 DEF StartFails, ResetState, Tick, vars, thread
      <3> QED
        BY <1>1, <3>1, <3>2, <3>3 DEF MainStep
    <2> QED
      BY <2>1, <2>2, StayHeld
  <1>2. CASE User
    <2>1. ASSUME NEW k \in Keys, PressKey(k) \/ ReleaseKey(k) \/ RepeatKey(k)
          PROVE  HInv'
      <3>1. DeviceOf[k] \in Devices
        BY KeyAssumption
      <3>2. \A v \in Values : Event(k, v) \in Messages
        BY DEF Messages, KeyEvents
      <3>3. \A j \in Keys, v \in Values :
              SaysDown(j, Event(k, v)) => j = k /\ v # "release"
        BY DEF SaysDown, Event, Values
      <3>4. CASE PressKey(k)
        BY <1>0, <3>1, <3>2, <3>3, <3>4, SendHeld DEF PressKey, Values
      <3>5. CASE ReleaseKey(k)
        BY <1>0, <3>1, <3>2, <3>3, <3>5, SendHeld DEF ReleaseKey, Values
      <3>6. CASE RepeatKey(k)
        BY <1>0, <3>1, <3>2, <3>3, <3>6, SendHeld DEF RepeatKey, Values
      <3> QED
        BY <2>1, <3>4, <3>5, <3>6
    <2>2. ASSUME NEW d \in Devices, OtherEvent(d)
          PROVE  HInv'
      <3>1. Other \in Messages /\ \A k \in Keys : ~SaysDown(k, Other)
        BY DEF Messages, SaysDown, Other, Event
      <3> QED
        BY <1>0, <2>2, <3>1, SendHeld DEF OtherEvent
    <2> QED
      BY <1>2, <2>1, <2>2 DEF User
  <1> QED
    BY <1>0, <1>1, <1>2, ReadHeld, SynchroniseHeld, SwitchHeld DEF Next,
       ThreadStep

\* The key test never waits for a release that it has read or dropped, and the
\* timeouts bring it to rest once every key is up (key_app.cpp 139-283).  With
\* time going on this is GestureEnds, for any keys, devices and filter.
THEOREM GestureReleased == Spec => []WaitsForRelease /\ TimeoutEnds
  <1> DEFINE Ends == Switch /\ ev = TIMEOUT /\ diff >= KEY_CLICK_GAP
                       /\ down = {} /\ Ready = {} => state' = "KEY_ALL_RELEASE"
  <1>1. Init => Begun
    BY DEF Init, Begun
  <1>2. Spec => [](IInv /\ Typed /\ Begun /\ HInv)
    BY <1>1, InitTyped, InitHeld, NextTyped, NextBegun, NextHeld, Invariance,
       PTL DEF Spec
  <1>3. HInv => WaitsForRelease
    BY DEF HInv
  <1>4. IInv /\ Typed /\ HInv /\ [Next]_vars => [Ends]_vars
    <2> SUFFICES ASSUME IInv, Typed, HInv, Switch, ev = TIMEOUT,
                        diff >= KEY_CLICK_GAP, down = {}, Ready = {}
                 PROVE  state' = "KEY_ALL_RELEASE"
      OBVIOUS
    <2>1. state \notin WaitStates
      <3> SUFFICES ASSUME state \in WaitStates
                   PROVE  FALSE
        OBVIOUS
      <3>1. code \in Keys /\ DeviceOf[code] \in Devices
        BY WaitsForKey, KeyAssumption DEF Typed
      <3>2. Len(queue[DeviceOf[code]]) = 0
        BY <3>1 DEF Ready
      <3>3. ~ReleaseAfter(code, 0)
        BY <3>2 DEF ReleaseAfter
      <3>4. ev # Event(code, "release")
        BY DEF TIMEOUT, Event
      <3> QED
        BY <3>3, <3>4 DEF HInv, WaitsForRelease
    <2>2. AllRelease \/ FirstRelease \/ SecondRelease
      BY <2>1, CheckStatesDistinct DEF Switch, WaitStates, FirstPress,
         SecondPress, CheckRelease
    <2>3. Idle /\ ~Pressed /\ ~Released
      BY DEF Idle, Pressed, Released
    <2>4. ~(diff < KEY_CLICK_GAP)
      BY TimeAssumption DEF Typed, ClocksTyped
    <2> QED
      BY <2>2, <2>3, <2>4 DEF AllRelease, FirstRelease, SecondRelease, Goto,
         GotoPrinting
  <1> QED
    BY <1>2, <1>3, <1>4, PTL DEF Spec, TimeoutEnds
=============================================================================
