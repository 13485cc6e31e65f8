------------------------ MODULE MainDispatchProofs ------------------------
(***************************************************************************)
(* Proofs about MainDispatch for all words and every number of them.       *)
(***************************************************************************)
EXTENDS MainDispatch, SequenceTheorems, TLAPS

Tones == {"wifi fail", "gsensor pass"}

\* The tone of the test that was called last.
ToneOfRan == IF ran = "gsensor" THEN "gsensor pass" ELSE "wifi fail"

Wanted == TonesOf(SubSeq(args, 2, Len(args)))

\* What was played and what is to come make up what the options ask for; the
\* call of a test is as good as its tone.
IInv ==
  /\ args \in Seq(Words) /\ argv \in Seq(Words) /\ tones \in Seq(Tones)
  /\ pc = "start" => argv = args /\ tones = <<>>
  /\ pc = "loop" => tones \o TonesOf(argv) = Wanted
  /\ pc = "tone" => Append(tones, ToneOfRan) \o TonesOf(argv) = Wanted

\* The tones of some words.
LEMMA TonesOfWords ==
  ASSUME NEW words \in Seq(Words)
  PROVE  /\ TonesOf(words) \in Seq(Tones) /\ Len(TonesOf(words)) = Len(words)
         /\ \A i \in 1 .. Len(words) : TonesOf(words)[i] = ToneOf(words[i])
  <1> DEFINE t == TonesOf(words)
  <1>1. Len(words) \in Nat /\ DOMAIN words = 1 .. Len(words)
    BY LenProperties
  <1>2. t \in [1 .. Len(words) -> Tones] /\ DOMAIN t = 1 .. Len(words)
    BY <1>1 DEF TonesOf, ToneOf, Tones
  <1>3. t \in Seq(Tones)
    BY <1>1, <1>2, SeqDef
  <1>4. \A i \in 1 .. Len(words) : t[i] = ToneOf(words[i])
    BY <1>1 DEF TonesOf
  <1> HIDE DEF t
  <1>5. Len(t) = Len(words)
    BY <1>1, <1>2, <1>3, LenProperties
  <1> QED
    BY <1>3, <1>4, <1>5 DEF t

\* The tone of the first word may as well have been played.
LEMMA NextTone ==
  ASSUME NEW played \in Seq(Tones), NEW words \in Seq(Words), words # <<>>
  PROVE  Append(played, ToneOf(words[1])) \o TonesOf(Tail(words))
           = played \o TonesOf(words)
  <1> DEFINE one == Append(played, ToneOf(words[1]))
             r   == TonesOf(Tail(words))
             l   == one \o r
             w   == TonesOf(words)
             q   == played \o w
             n   == Len(words)
             p   == Len(played)
  <1>1. n \in Nat /\ n > 0 /\ p \in Nat
    BY EmptySeq, LenProperties
  <1>2. /\ Tail(words) \in Seq(Words) /\ Len(Tail(words)) = n - 1
        /\ \A i \in 1 .. n - 1 : Tail(words)[i] = words[i + 1]
    BY HeadTailProperties
  <1>3. ToneOf(words[1]) \in Tones
    BY DEF ToneOf, Tones
  <1>4. /\ one \in Seq(Tones) /\ Len(one) = p + 1
        /\ \A i \in 1 .. p : one[i] = played[i]
        /\ one[p + 1] = ToneOf(words[1])
    BY <1>3, AppendProperties
  <1>5. /\ r \in Seq(Tones) /\ Len(r) = n - 1
        /\ \A i \in 1 .. n - 1 : r[i] = ToneOf(words[i + 1])
    BY <1>2, TonesOfWords
  <1>6. /\ w \in Seq(Tones) /\ Len(w) = n
        /\ \A i \in 1 .. n : w[i] = ToneOf(words[i])
    BY TonesOfWords
  <1> HIDE DEF one, r, w, n, p
  <1>7. /\ l \in Seq(Tones) /\ Len(l) = (p + 1) + (n - 1)
        /\ \A i \in 1 .. (p + 1) + (n - 1) :
             l[i] = IF i <= p + 1 THEN one[i] ELSE r[i - (p + 1)]
    <2>1. /\ l \in Seq(Tones) /\ Len(l) = Len(one) + Len(r)
          /\ \A i \in 1 .. Len(one) + Len(r) :
               l[i] = IF i <= Len(one) THEN one[i] ELSE r[i - Len(one)]
      BY <1>4, <1>5, ConcatProperties
    <2> HIDE DEF l
    <2> QED
      BY <1>4, <1>5, <2>1
  <1>8. /\ q \in Seq(Tones) /\ Len(q) = p + n
        /\ \A i \in 1 .. p + n : q[i] = IF i <= p THEN played[i] ELSE w[i - p]
    BY <1>6, ConcatProperties DEF p
  <1> HIDE DEF l, q
  <1>9. Len(l) = Len(q) /\ Len(l) = p + n
    BY <1>1, <1>7, <1>8
  <1>10. \A i \in 1 .. p + n : l[i] = q[i]
    <2> SUFFICES ASSUME NEW i \in 1 .. p + n PROVE l[i] = q[i]
      OBVIOUS
    <2>1. i \in 1 .. (p + 1) + (n - 1)
      BY <1>1
    <2>2. CASE i <= p
      <3>1. i \in 1 .. p /\ i <= p + 1
        BY <1>1, <2>2
      <3> QED
        BY <1>4, <1>7, <1>8, <2>1, <2>2, <3>1
    <2>3. CASE i = p + 1
      <3>1. ~(i <= p) /\ i - p = 1 /\ 1 \in 1 .. n /\ i <= p + 1
        BY <1>1, <2>3
      <3> QED
        BY <1>4, <1>6, <1>7, <1>8, <2>1, <2>3, <3>1
    <2>4. CASE i > p + 1
      <3>1. /\ ~(i <= p) /\ ~(i <= p + 1) /\ i - p \in 1 .. n
            /\ i - (p + 1) \in 1 .. n - 1 /\ (i - (p + 1)) + 1 = i - p
        BY <1>1, <2>4
      <3> QED
        BY <1>5, <1>6, <1>7, <1>8, <2>1, <3>1
    <2> QED
      BY <1>1, <2>2, <2>3, <2>4
  <1>11. l = q
    BY <1>7, <1>8, <1>9, <1>10, SeqEqual
  <1> QED
    BY <1>11 DEF l, q, one, r, w

LEMMA InitIInv == Init => IInv
  <1> SUFFICES ASSUME Init PROVE IInv
    OBVIOUS
  <1>1. PICK n \in 0 .. MaxWords : args \in [1 .. n -> Words]
    BY DEF Init
  <1>2. args \in Seq(Words)
    BY <1>1, WordAssumption, SeqDef
  <1>3. tones \in Seq(Tones)
    BY EmptySeq DEF Init
  <1> QED
    BY <1>2, <1>3 DEF Init, IInv

\* A call of the test that the first word stands for.
LEMMA TakeIInv ==
  ASSUME IInv, NEW t, Take(t),
         ToneOf(argv[1]) = IF t = "gsensor" THEN "gsensor pass" ELSE "wifi fail"
  PROVE  IInv'
  <1>1. /\ argv # <<>> /\ argv' = Tail(argv) /\ ran' = t /\ pc = "loop"
        /\ pc' = "tone" /\ UNCHANGED <<args, tones>>
    BY DEF Take
  <1>2. Tail(argv) \in Seq(Words)
    BY <1>1, HeadTailProperties DEF IInv
  <1>3. Append(tones, ToneOf(argv[1])) \o TonesOf(Tail(argv)) = Wanted
    BY <1>1, NextTone DEF IInv
  <1>4. Wanted' = Wanted /\ ToneOfRan' = ToneOf(argv[1])
    BY <1>1 DEF Wanted, ToneOfRan
  <1> QED
    BY <1>1, <1>2, <1>3, <1>4 DEF IInv, TonesOf

\* Every step; what the WiFi test does on its thread changes nothing of this.
LEMMA NextIInv == IInv /\ [Next]_vars => IInv'
  <1> SUFFICES ASSUME IInv, [Next]_vars
               PROVE  IInv'
    OBVIOUS
  <1>1. CASE Start
    <2>1. CASE args = <<>>
      BY <1>1, <2>1 DEF Start, IInv
    <2>2. CASE args # <<>>
      <3>1. /\ argv' = Tail(args) /\ tones' = <<>> /\ args' = args
            /\ pc' = "loop"
        BY <1>1, <2>2 DEF Start, IInv
      <3>2. Tail(args) \in Seq(Words) /\ Tail(args) = SubSeq(args, 2, Len(args))
        BY <2>2, HeadTailProperties, TailIsSubSeq DEF IInv
      <3>3. <<>> \o TonesOf(Tail(args)) = TonesOf(Tail(args))
        BY <3>2, TonesOfWords, ConcatEmptySeq
      <3>4. tones' \in Seq(Tones)
        BY <3>1, EmptySeq
      <3> QED
        BY <3>1, <3>2, <3>3, <3>4 DEF IInv, Wanted, TonesOf
    <2> QED
      BY <2>1, <2>2
  <1>2. CASE SensorTest
    <2>1. ToneOf(argv[1]) = "gsensor pass"
      BY <1>2 DEF SensorTest, Chosen, ToneOf
    <2> QED
      BY <1>2, <2>1, TakeIInv DEF SensorTest
  <1>3. CASE WifiTest
    <2>1. ToneOf(argv[1]) = "wifi fail"
      BY <1>3 DEF WifiTest, Chosen, ToneOf
    <2> QED
      BY <1>3, <2>1, TakeIInv DEF WifiTest
  <1>4. CASE PlayTone
    <2>1. /\ tones' = Append(tones, ToneOfRan) /\ pc = "tone" /\ pc' = "loop"
          /\ UNCHANGED <<args, argv>>
      BY <1>4 DEF PlayTone, ToneOfRan
    <2>2. tones' \in Seq(Tones)
      <3>1. ToneOfRan \in Tones
        BY DEF ToneOfRan, Tones
      <3> QED
        BY <2>1, <3>1, AppendProperties DEF IInv
    <2> QED
      BY <2>1, <2>2 DEF IInv, Wanted, TonesOf
  <1>5. CASE Return
    BY <1>5 DEF Return, IInv
  <1>6. CASE WifiThread \/ UNCHANGED vars
    BY <1>6 DEF WifiThread, vars, IInv, Wanted, ToneOfRan, TonesOf
  <1> QED
    BY <1>1, <1>2, <1>3, <1>4, <1>5, <1>6 DEF Next, MainStep

\* The tones of main are fixed by its options, for all words and however many:
\* no verdict of a test, whenever it comes, changes what is played.
THEOREM TonesForAllWords == Spec => []TonesFixed
  <1>1. IInv => TonesFixed
    BY DEF IInv, TonesFixed, Wanted
  <1> QED
    BY <1>1, InitIInv, NextIInv, PTL DEF Spec

-----------------------------------------------------------------------------
(* Why main returns.                                                       *)

\* Whatever its options, main has a step to take: a word for which no branch
\* of the chain were taken would stay at hand for ever.
NeverStuck ==
  Running =>
    \/ pc \in {"start", "tone"}
    \/ pc = "loop" /\ (argv = <<>> \/ Chosen("-g") \/ Chosen("-w"))

\* The steps main has left: two for each option, and the return.
StepsLeft ==
  CASE pc = "start" -> 2 * Len(argv) + 2
    [] pc = "loop" -> 2 * Len(argv) + 1
    [] pc = "tone" -> 2 * Len(argv) + 2
    [] pc = "exited" -> 0

\* Every step of main uses up one of them, and the WiFi test's thread none.
StepsUsedUp ==
  [][/\ StepsLeft \in Nat
     /\ MainStep => StepsLeft' < StepsLeft
     /\ WifiThread => StepsLeft' = StepsLeft]_vars

\* main works off any options in a bounded number of steps, whatever the
\* verdict of a WiFi test that is still running (main.cpp 36-113).
THEOREM MainReturns == Spec => []NeverStuck /\ StepsUsedUp
  <1> DEFINE PcTyped == pc \in {"start", "loop", "tone", "exited"}
  <1>1. Init => PcTyped
    BY DEF Init
  <1>2. PcTyped /\ [Next]_vars => PcTyped'
    BY DEF Next, MainStep, Start, SensorTest, WifiTest, Take, PlayTone, Return,
       WifiThread, vars
  <1>3. PcTyped => NeverStuck
    BY DEF NeverStuck, Running, Chosen
  <1>4. PcTyped /\ IInv /\ [Next]_vars =>
          [/\ StepsLeft \in Nat
           /\ MainStep => StepsLeft' < StepsLeft
           /\ WifiThread => StepsLeft' = StepsLeft]_vars
    <2> SUFFICES ASSUME PcTyped, IInv
                 PROVE  /\ StepsLeft \in Nat
                        /\ MainStep => StepsLeft' < StepsLeft
                        /\ WifiThread => StepsLeft' = StepsLeft
      OBVIOUS
    <2>0. argv \in Seq(Words) /\ Len(argv) \in Nat
      BY LenProperties DEF IInv
    <2>1. StepsLeft \in Nat
      BY <2>0 DEF StepsLeft
    <2>2. ASSUME argv # <<>>, argv' = Tail(argv)
          PROVE  Len(argv) >= 1 /\ Len(argv') = Len(argv) - 1
      BY <2>0, <2>2, HeadTailProperties, EmptySeq
    <2>3. ASSUME Start PROVE StepsLeft' < StepsLeft
      <3>1. pc = "start" /\ argv = args
        BY <2>3 DEF Start, IInv
      <3>2. CASE args = <<>>
        BY <2>0, <2>3, <3>1, <3>2 DEF Start, StepsLeft
      <3>3. CASE args # <<>>
        BY <2>0, <2>2, <2>3, <3>1, <3>3 DEF Start, StepsLeft
      <3> QED
        BY <3>2, <3>3
    <2>4. ASSUME SensorTest \/ WifiTest PROVE StepsLeft' < StepsLeft
      <3>1. /\ pc = "loop" /\ pc' = "tone"
            /\ argv # <<>> /\ argv' = Tail(argv)
        BY <2>4 DEF SensorTest, WifiTest, Take
      <3> QED
        BY <2>0, <2>2, <3>1 DEF StepsLeft
    <2>5. ASSUME PlayTone \/ Return PROVE StepsLeft' < StepsLeft
      <3>1. CASE PlayTone
        <4>1. pc = "tone" /\ pc' = "loop" /\ argv' = argv
          BY <3>1 DEF PlayTone
        <4>2. StepsLeft = 2 * Len(argv) + 2
          BY <4>1 DEF StepsLeft
        <4>3. StepsLeft' = 2 * Len(argv) + 1
          BY <4>1 DEF StepsLeft
        <4> QED
          BY <2>0, <4>2, <4>3
      <3>2. CASE Return
        BY <2>0, <3>2 DEF Return, StepsLeft
      <3> QED
        BY <2>5, <3>1, <3>2
    <2>6. ASSUME WifiThread PROVE StepsLeft' = StepsLeft
      BY <2>6 DEF WifiThread, StepsLeft
    <2> QED
      BY <2>1, <2>3, <2>4, <2>5, <2>6 DEF MainStep
  <1> HIDE DEF PcTyped
  <1> QED
    BY <1>1, <1>2, <1>3, <1>4, InitIInv, NextIInv, PTL DEF Spec, StepsUsedUp
=============================================================================
