------------------------------- MODULE Report -------------------------------
(***************************************************************************)
(* What a report holds of the inputs.  The tick hook looks at the pins and *)
(* writes what changed into SMS_Value, the converter's callback writes the *)
(* supply voltage, and init copies SMS_Value and sends it.  The copy is not*)
(* atomic, and the request is taken down only when the report has gone out,*)
(* more than two seconds after the copy: several looks at the pins fall    *)
(* into that time.                                                         *)
(***************************************************************************)
EXTENDS Encoding, FiniteSets

CONSTANTS
    Pins,       \* the digital inputs
    Samples,    \* what the converter may read
    Numbers     \* 256: PosQ_No is a byte

ASSUME SampleAssumption == Samples \subseteq 0..MaxSample
ASSUME NumberAssumption == Numbers \in 1..256

VARIABLES
    pins,       \* the level of each input: the set of those that are high
    sms_flag, cnt2_flag,
    MessageID, IO, AD1, PosQ_No,    \* these fields of SMS_Value
    pc,         \* where init stands with a report
    copy,       \* SmsStr: the bytes of the report that is being sent
    enabled,    \* the converter's channels that are enabled
    converting, \* whether a conversion goes on
    last,       \* history: the inputs in the last report's copy
    late,       \* history: a change was found after they were copied
    dropped,    \* history: a change's request was taken down without a report
    overlap     \* history: a round was started while another went on

flagVars == <<sms_flag, cnt2_flag>>
valueVars == <<MessageID, IO, AD1, PosQ_No>>
adcVars == <<enabled, converting>>
history == <<last, late, dropped, overlap>>
vars == <<pins, flagVars, valueVars, pc, copy, adcVars, history>>

Init ==
    /\ pins \in SUBSET Pins
    /\ sms_flag = FALSE /\ cnt2_flag = FALSE
    /\ MessageID = 4 /\ IO = {} /\ AD1 = 0 /\ PosQ_No = 0
    /\ pc = "loop"
    /\ copy = [MessageID |-> 0, IO |-> {}, AD1 |-> 0, PosQ_No |-> 0]
    /\ enabled = {2} /\ converting = FALSE
    /\ last = {} /\ late = FALSE /\ dropped = FALSE /\ overlap = FALSE

----------------------------------------------------------------------------
(* The tick hook.  IO_status, which it keeps, and SMS_Value.IO are equal   *)
(* outside it.  A pin that changed asks for a report of its own.           *)
CheckInputsRisen ==
    /\ IF pins \ IO = {} THEN UNCHANGED <<sms_flag, MessageID, late>>
       ELSE /\ sms_flag' = TRUE /\ MessageID' = 6
            /\ late' = (late \/ pc \notin {"loop", "head", "tail"})
    /\ IO' = pins
    /\ UNCHANGED <<pins, cnt2_flag, AD1, PosQ_No, pc, copy, adcVars, last, dropped, overlap>>
CheckInputs ==
    /\ IF pins = IO THEN UNCHANGED <<sms_flag, MessageID, late>>
       ELSE /\ sms_flag' = TRUE /\ MessageID' = 6
            /\ late' = (late \/ pc \notin {"loop", "head", "tail"})
    /\ IO' = pins
    /\ UNCHANGED <<pins, cnt2_flag, AD1, PosQ_No, pc, copy, adcVars, last, dropped, overlap>>

(* The two minutes of the periodic reports have passed.                    *)
TimerReport ==
    /\ MessageID' = 2 /\ cnt2_flag' = TRUE
    /\ UNCHANGED <<pins, sms_flag, IO, AD1, PosQ_No, pc, copy, adcVars, history>>

(* Every second a round of conversions starts at channel 2, whatever the   *)
(* round before has left.                                                  *)
StartRound ==
    /\ enabled' = enabled \union {2} /\ converting' = TRUE
    /\ overlap' = (overlap \/ converting)
    /\ UNCHANGED <<pins, flagVars, valueVars, pc, copy, last, late, dropped>>

(* adc0_callback: the next channel, and after the last one the voltage.    *)
(* Which of several enabled channels has been converted, and whether those *)
(* that are left still are, is the converter's affair.                     *)
NextChannel == [c \in {2, 1, 0, 3} |->
    CASE c = 2 -> 1 [] c = 1 -> 0 [] c = 0 -> 3 [] c = 3 -> 5]
Continue(c) ==
    /\ enabled' = (enabled \ {c}) \union {NextChannel[c]}
    /\ UNCHANGED <<converting, AD1>>
FinishOn(c) ==
    /\ converting' = FALSE
    /\ \E vin \in Samples : AD1' = Voltage(vin) % 256
    /\ UNCHANGED enabled
Finish(c) ==
    /\ enabled' = enabled \ {c}
    /\ converting' \in {FALSE, enabled' # {}}
    /\ \E vin \in Samples : AD1' = Voltage(vin) % 256
adc0_callback ==
    /\ converting
    /\ \E c \in enabled :
          \/ c \in DOMAIN NextChannel /\ Continue(c)
          \/ c = 5 /\ Finish(c)
    /\ UNCHANGED <<pins, flagVars, MessageID, IO, PosQ_No, pc, copy, history>>

Interrupt == CheckInputs \/ TimerReport \/ StartRound \/ adc0_callback

----------------------------------------------------------------------------
(* init.  memcpy goes through the 44 bytes in order: MessageID is in the   *)
(* first words, PosQ_No, IO and AD1 in the last.                           *)
Step(from, to) == pc = from /\ pc' = to /\ UNCHANGED <<pins, adcVars>>

Begin ==
    /\ Step("loop", "head")
    /\ sms_flag \/ cnt2_flag
    /\ UNCHANGED <<flagVars, valueVars, copy, history>>
CopyHead ==
    /\ Step("head", "tail")
    /\ copy' = [copy EXCEPT !.MessageID = MessageID]
    /\ UNCHANGED <<flagVars, valueVars, history>>
CopyTail ==
    /\ Step("tail", "count")
    /\ copy' = [copy EXCEPT !.IO = IO, !.AD1 = AD1, !.PosQ_No = PosQ_No]
    /\ last' = IO /\ late' = FALSE /\ dropped' = FALSE
    /\ UNCHANGED <<flagVars, valueVars, overlap>>

(* A byte is never greater than 255: the code's test is never true.        *)
CountReport ==
    /\ Step("count", "sending")
    /\ PosQ_No' = (PosQ_No + 1) % Numbers
    /\ UNCHANGED <<flagVars, MessageID, IO, AD1, copy, history>>

(* The AT commands and their delays; then both requests are taken down.    *)
ReportSent ==
    /\ Step("sending", "sent")
    /\ cnt2_flag' = FALSE
    /\ UNCHANGED <<sms_flag, valueVars, copy, history>>
RequestDone ==
    /\ Step("sent", "loop")
    /\ sms_flag' = FALSE
    /\ UNCHANGED <<cnt2_flag, valueVars, copy, history>>

(* GSM's entry takes the request down, a reset both; neither sends.        *)
Drop ==
    /\ Step("loop", "loop")
    /\ sms_flag' = FALSE /\ cnt2_flag' \in {cnt2_flag, FALSE}
    /\ dropped' = (dropped \/ last # IO)
    /\ UNCHANGED <<valueVars, copy, last, late, overlap>>

(* Key 4 of the GSM mode.                                                  *)
Ask ==
    /\ Step("loop", "loop")
    /\ sms_flag' = TRUE
    /\ UNCHANGED <<cnt2_flag, valueVars, copy, history>>

Task == Begin \/ CopyHead \/ CopyTail \/ CountReport \/ ReportSent
        \/ RequestDone \/ Drop \/ Ask

(* An input changes.                                                       *)
Move ==
    /\ \E p \in Pins : pins' = (pins \ {p}) \union ({p} \ pins)
    /\ UNCHANGED <<flagVars, valueVars, pc, copy, adcVars, history>>

Next == Interrupt \/ Task \/ Move

Spec == Init /\ [][Next]_vars

----------------------------------------------------------------------------
Label == {"loop", "head", "tail", "count", "sending", "sent"}

TypeOK ==
    /\ pins \subseteq Pins /\ IO \subseteq Pins /\ last \subseteq Pins
    /\ sms_flag \in BOOLEAN /\ cnt2_flag \in BOOLEAN
    /\ MessageID \in {2, 4, 6} /\ AD1 \in Byte /\ PosQ_No \in 0..Numbers - 1
    /\ pc \in Label
    /\ copy \in [MessageID : {0, 2, 4, 6}, IO : SUBSET Pins, AD1 : Byte,
                 PosQ_No : 0..Numbers - 1]
    /\ enabled \subseteq {0, 1, 2, 3, 5} /\ converting \in BOOLEAN
    /\ late \in BOOLEAN /\ dropped \in BOOLEAN /\ overlap \in BOOLEAN

(* What the gateway believes the inputs are is what the tracker last saw,  *)
(* or a report is asked for, unless the change came between the copy of a  *)
(* report and the end of its request, or a request was dropped.            *)
ChangeReported == last # IO => sms_flag \/ late \/ dropped

(* As long as every round was over before the next one started, one        *)
(* channel is converted at a time, and after a round none is left on but   *)
(* the first, which main enables.  A round that starts within another has  *)
(* two of them on, and nothing in the code looks.                          *)
OneChannel == ~overlap => /\ Cardinality(enabled) <= 1
                          /\ converting => enabled # {}
                          /\ ~converting => enabled \subseteq {2}

(* The letters of a report give each of its bytes back: those of the      *)
(* numbers it holds now, and of any bytes in reports of its size.          *)
DecodesTo(letters, bytes) ==
    /\ Len(letters) = 2 * Len(bytes)
    /\ \A i \in DOMAIN bytes :
          Decode(letters[2 * i - 1], letters[2 * i]) = bytes[i]
Held == <<copy.MessageID, copy.AD1, copy.PosQ_No>>
EveryByte(k) == [i \in 1..44 |-> (44 * k + i) % 256]
EveryByteDecodes ==
    \A k \in 0..5 : DecodesTo(UDP2SMS(EveryByte(k)), EveryByte(k))
LettersDecode == DecodesTo(UDP2SMS(Held), Held) /\ EveryByteDecodes

(* Digits make the number they are; a field that is empty, whose characters*)
(* are zero, makes no number that a latitude or a longitude could be,      *)
(* though nine of them overflow.                                           *)
Digits(n) == [1..n -> {Zero, Zero + 1, Zero + 9}]
Empty(n) == [i \in 1..n |-> 0]
Zeros == <<Zero, Zero, Zero, Zero>>
PlaceValue(d) == (d[1] - Zero) * 10000 + (d[2] - Zero) * 1000
                 + (d[3] - Zero) * 100 + (d[4] - Zero) * 10 + (d[5] - Zero)
NumberRight ==
    /\ \A d \in Digits(5) : Number(Zeros \o d) = PlaceValue(d)
                            /\ Number(d \o Zeros) = PlaceValue(d) * 10000
    /\ Number(Empty(8)) < 0 /\ Number(Empty(9)) < 0

(* The date and the time come apart again, at the ends of the year and of  *)
(* the day.                                                                *)
TimeRight == \A ddmm \in {101, 3112}, hhmmss \in {0, 235959} :
    LET t == TimeField(ddmm, hhmmss)
    IN  t \div 262144 = ddmm /\ t % 262144 = hhmmss

(* The voltage's byte is the rounded voltage and never overflows.          *)
VoltageRight == \A vin \in 0..MaxSample :
    LET error == Millivolts(vin) * 34 - Voltage(vin) * 19700
    IN  Voltage(vin) \in Byte /\ -9850 <= error /\ error <= 9849

(* What a report's bytes stand for can be read off them.                   *)
EncodingRight == LettersDecode /\ NumberRight /\ TimeRight /\ VoltageRight
=============================================================================
