------------------------------ MODULE TelCodec ------------------------------
(***************************************************************************)
(* The answers of the phone service, as src/tel_test/ls_telephony_util.cpp *)
(* takes them apart: RIL_onRequestComplete with handleIccCardStatus,       *)
(* handleGetCurrentCallList and smsc_to_pdu, called by ls_api_getSimStatus,*)
(* ls_api_getCurrentCalls and ls_api_getSMSC.                              *)
(*                                                                         *)
(* The texts of an answer are copied into static buffers, and what the     *)
(* caller gets are pointers to these: every application of a card and      *)
(* every call of a list has the same text, whatever is in the buffer when  *)
(* it is read.  app_label_ptr is treated as aid_ptr, name as number, and   *)
(* both are left out; so are the numbers in an answer, which are copied as *)
(* they are, and IMSI and AT answers, copied into the caller's buffer.     *)
(***************************************************************************)
EXTENDS Integers, Sequences, FiniteSetsExt

CONSTANTS RIL_MAX_CALLS,    \* the length of the caller's array of calls
          Texts,            \* the texts in answers
          MaxTexts,         \* bound: applications or calls in an answer
          SMSCs             \* the service centre numbers in answers

\* strdupReadString finds no text; the first character of most SMSCs; the
\* filler of smsc_to_pdu.
NoText == <<-1>>
Plus == 10
Filler == 15

ASSUME CallAssumption == RIL_MAX_CALLS \in Nat \ {0} /\ MaxTexts \in Nat

ASSUME TextAssumption == Texts \subseteq Seq(Nat)

ASSUME SmscAssumption == SMSCs \subseteq Seq(0 .. Plus) \ {<<>>}

Answers == UNION {[1 .. n -> Texts \cup {NoText}] : n \in 0 .. MaxTexts}

VARIABLES
  aid_ptr, number,  \* the static buffers
  apps, callList,   \* the texts of the last card status, of the last call list
  longest,          \* the length of the longest text aid_ptr has held
  written,          \* the elements of the array that list was written to
  smsc, pdu         \* the last SMSC answered, and what the caller got

cardVars == <<aid_ptr, apps, longest>>
listVars == <<number, callList, written>>
smscVars == <<smsc, pdu>>
codecVars == <<cardVars, listVars, smscVars>>

CodecInit ==
  /\ aid_ptr = <<>> /\ apps = <<>> /\ longest = 0
  /\ number = <<>> /\ callList = <<>> /\ written = {}
  /\ smsc = <<>> /\ pdu = <<>>

-----------------------------------------------------------------------------
\* Mutant of Copied: the text is appended.
Appended(text, buffer) == buffer \o text

\* memcpy of a text without its end: what is behind it in the buffer stays.
Copied(text, buffer) == text \o SubSeq(buffer, Len(text) + 1, Len(buffer))

\* aid_ptr after the applications' texts have been copied one by one.
AidsCopied(texts) ==
  LET after[n \in 0 .. Len(texts)] ==
        IF n = 0 THEN aid_ptr
        ELSE IF texts[n] = NoText THEN after[n - 1]
        ELSE Copied(texts[n], after[n - 1])
  IN  after[Len(texts)]

\* handleIccCardStatus.
SimStatus ==
  /\ apps' \in Answers
  /\ aid_ptr' = AidsCopied(apps')
  /\ longest' = Max({longest} \cup {Len(t) : t \in {apps'[i] : i \in DOMAIN apps'} \ {NoText}})
  /\ UNCHANGED <<listVars, smscVars>>

\* The places of the texts there are.
TextsAt(texts) == {i \in DOMAIN texts : texts[i] # NoText}

\* Mutant of ElementOf: the calls are written one after the other.
ElementAt(i) == i - 1

\* ril_rp[i] is row i of an array of arrays: one call fills a row.
ElementOf(i) == (i - 1) * RIL_MAX_CALLS

\* number after a list: it is cleared before each copy, so the last text stays.
LastNumber(texts) ==
  IF TextsAt(texts) = {} THEN number ELSE texts[Max(TextsAt(texts))]

\* handleGetCurrentCallList, of RIL_MAX_CALLS calls at most.
CurrentCalls ==
  /\ \E answer \in Answers :
       callList' = SubSeq(answer, 1, Min({Len(answer), RIL_MAX_CALLS}))
  /\ number' = LastNumber(callList')
  /\ written' = {ElementOf(i) : i \in DOMAIN callList'}
  /\ UNCHANGED <<cardVars, smscVars>>

\* Mutant of Padded: no filler.
Unpadded(digits) == IF Len(digits) % 2 = 0 THEN digits ELSE digits \o <<0>>

Padded(digits) ==
  IF Len(digits) % 2 = 0 THEN digits ELSE Append(digits, Filler)

Swapped(digits) ==
  [i \in DOMAIN digits |-> digits[IF i % 2 = 1 THEN i + 1 ELSE i - 1]]

\* smsc_to_pdu drops a character, pads, swaps and puts "0891" in front.
smsc_to_pdu(text) == <<0, 8, 9, 1>> \o Swapped(Padded(Tail(text)))

\* The answer to RIL_REQUEST_GET_SMSC_ADDRESS.
SmscAddress ==
  /\ smsc' \in SMSCs
  /\ pdu' = smsc_to_pdu(smsc')
  /\ UNCHANGED <<cardVars, listVars>>

\* An answer with an error changes nothing.
Answer == SimStatus \/ CurrentCalls \/ SmscAddress

CodecSpec == CodecInit /\ [][Answer]_codecVars

-----------------------------------------------------------------------------
(* Properties.                                                             *)

\* The aid of a card's last application is read back as a prefix of aid_ptr.
\* It is all of it as long as no longer text has been there; then the end of
\* that text follows it (handleIccCardStatus).
LastAidRead ==
  apps # <<>> /\ apps[Len(apps)] # NoText =>
    LET aid == apps[Len(apps)]
    IN  /\ SubSeq(aid_ptr, 1, Len(aid)) = aid
        /\ Len(aid_ptr) = longest

\* The number read for the last call is its own, however long the ones before
\* were; and only the first call of a list gets into the caller's array.
CallsRead ==
  /\ callList # <<>> /\ callList[Len(callList)] # NoText =>
       number = callList[Len(callList)]
  /\ written \cap (0 .. RIL_MAX_CALLS - 1) = IF callList = <<>> THEN {} ELSE {0}

\* What a reader of the PDU makes of it: the first octet is the length of the
\* rest in octets, the second the type, and digits come in swapped pairs, with
\* a filler at the end of an odd number.
PduDigits(p) ==
  LET semi == 2 * (16 * p[1] + p[2] - 1)
      body == Swapped(SubSeq(p, 5, Len(p)))
  IN  IF Len(body) # semi THEN NoText
      ELSE IF body[semi] = Filler THEN SubSeq(body, 1, semi - 1) ELSE body

\* The number of the SMSC without its plus.
Number(text) == IF text[1] = Plus THEN Tail(text) ELSE text

\* The PDU carries the number of the SMSC exactly if that is international and
\* of 13 or 14 digits: "0891" is the length of no other, and the character
\* dropped is taken for a plus without a look (smsc_to_pdu).
SmscDecodes ==
  smsc # <<>> =>
    (PduDigits(pdu) = Number(smsc) <=> smsc[1] = Plus /\ Len(smsc) \in {14, 15})
=============================================================================
