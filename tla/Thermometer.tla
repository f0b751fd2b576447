----------------------------- MODULE Thermometer -----------------------------
(***************************************************************************)
(* The temperature in the report.  Every twenty seconds the tick hook looks*)
(* for the 1-Wire slave and starts a conversion; init's loop, if the       *)
(* tracker is in init, waits and reads the slave's scratchpad.  The two use*)
(* the bus and OWI_test_dev without a lock, so a tick may search and start *)
(* again in the middle of the reading.  Time passes in steps of one tick;  *)
(* the tick hook's search (SearchBuses) is one step, OneWire has its inside*)
(***************************************************************************)
EXTENDS Integers

CONSTANTS
    SearchAt,   \* 20000: the count of ticks the slave is searched at
    Delay,      \* 1500: ticks that init waits before it reads
    Conversion, \* ticks a slave's conversion takes at most (external)
    Tries,      \* 10: conversions that are repeated
    Rest,       \* bound: ticks that the rest of init's loop takes at most
    Measurable  \* what the slave may measure, in sixteenths of a degree

ASSUME TimeAssumption ==
    SearchAt \in Nat \ {0} /\ Delay \in Nat \ {0} /\ Conversion \in Nat \ {0}
    /\ Tries \in Nat /\ Rest \in Nat

DS18S20_ERROR == -1000      \* no slave answers, or none is known
DS18S20_CRC_ERROR == -2000
TEMP_RESET_VALUE_B == 1360  \* 85 degrees: a slave's scratchpad at power-up
Suspicious == {TEMP_RESET_VALUE_B, 170, 2047}

(* A DS18B20 measures from -55 to 125 degrees.                             *)
Measured == -880..2000
ASSUME MeasurableAssumption ==
    Measurable \subseteq Measured \ {TEMP_RESET_VALUE_B, 0}

VARIABLES
    active,     \* whether init's loop runs (Modes has the other modes)
    pc,         \* "idle", "delay", "presence", "match", "first", "rest", "take"
    sleep,      \* ticks until the task goes on by itself
    late,       \* whether a tick came before the task's step
    ow_cnt,
    ConversionStarted,
    known,      \* whether OWI_test_dev holds the slave's identifier
    Counter,
    Temp,
    BootType,   \* the byte of the report that holds the temperature
    present,    \* the slave is connected
    pad,        \* its scratchpad's temperature
    busy,       \* ticks until its conversion ends
    bus,        \* what it does on the bus: "none", "reset" or "sends"
    cut         \* history: a search fell into the reading of Temp

taskVars == <<active, pc>>
slaveVars == <<present, pad, busy, bus>>
vars == <<taskVars, sleep, late, ow_cnt, ConversionStarted, known, Counter,
          Temp, BootType, slaveVars, cut>>

Init ==
    /\ active = TRUE /\ pc = "idle" /\ sleep = 0 /\ late = FALSE
    /\ ow_cnt = 0 /\ ConversionStarted = FALSE /\ known = FALSE
    /\ Counter = 0 /\ Temp = 0 /\ BootType = 0
    /\ present \in BOOLEAN /\ pad = TEMP_RESET_VALUE_B /\ busy = 0
    /\ bus = "none" /\ cut = FALSE

(* int32_t Temp32 = Temp * 625 / 10000, cut to its lowest eight bits; C's  *)
(* division goes toward zero.                                              *)
Quotient(a, b) == IF a < 0 THEN -((-a) \div b) ELSE a \div b
TempByteHalves(t) == Quotient(t * 625, 5000) % 256
TempByte(t) == Quotient(t * 625, 10000) % 256
Celsius(byte) == IF byte > 127 THEN byte - 256 ELSE byte

----------------------------------------------------------------------------
(* The 1-Wire bus.  The slave that is matched starts a conversion; every    *)
(* reset of the bus ends what the slave was sending.                       *)
Convert == busy' = Conversion /\ bus' = "none"
DS1820_StartConversion ==
    IF ~present THEN UNCHANGED <<busy, bus>>
    ELSE IF known THEN Convert
    ELSE bus' = "none" /\ UNCHANGED busy

(* What comes while the master reads: the scratchpad if the slave was asked*)
(* for it and no reset followed, zeros while it converts, or else ones.    *)
Sent == IF present /\ bus = "sends" THEN "pad"
        ELSE IF present /\ busy > 0 THEN "zeros" ELSE "ones"

----------------------------------------------------------------------------
(* test_task, init_case.                                                   *)
At(from) == pc = from /\ sleep = 0 /\ late' = FALSE
Step(from) == At(from) /\ UNCHANGED <<ow_cnt, known, present, pad>>

(* The rest of the loop; other modes run between two visits of init, which *)
(* may begin with the reset block (main.c:298-331).                        *)
Leave ==
    /\ Step("idle") /\ active
    /\ active' = FALSE
    /\ UNCHANGED <<pc, sleep, ConversionStarted, Counter, Temp, BootType, busy, bus, cut>>
Enter ==
    /\ At("idle") /\ ~active
    /\ active' = TRUE
    /\ ow_cnt' \in {0, ow_cnt}
    /\ UNCHANGED <<pc, sleep, ConversionStarted, known, Counter, Temp, BootType,
                   slaveVars, cut>>

Look ==
    /\ Step("idle") /\ active /\ ConversionStarted
    /\ pc' = "delay" /\ sleep' = Delay
    /\ UNCHANGED <<active, ConversionStarted, Counter, Temp, BootType, busy, bus, cut>>

(* The loop goes round: the rest of it takes its time.                     *)
Idle == pc' = "idle" /\ sleep' \in 0..Rest

AfterDelay ==
    /\ Step("delay")
    /\ ConversionStarted' = FALSE
    /\ Temp' = 0 /\ cut' = FALSE
    /\ IF known THEN pc' = "presence" /\ UNCHANGED sleep ELSE Idle
    /\ UNCHANGED <<active, Counter, BootType, busy, bus>>

(* DS1820_ReadTemperature.                                                 *)
DetectPresence ==
    /\ Step("presence")
    /\ IF present THEN pc' = "match" /\ bus' = "reset" /\ Temp' = Temp
       ELSE pc' = "take" /\ bus' = bus /\ Temp' = DS18S20_ERROR
    /\ UNCHANGED <<active, sleep, ConversionStarted, Counter, BootType, busy, cut>>

(* MatchRom, the family of the identifier and the command to send.         *)
MatchRom ==
    /\ Step("match")
    /\ IF known THEN pc' = "first" /\ Temp' = Temp
                     /\ bus' = IF present /\ bus = "reset" THEN "sends" ELSE bus
       ELSE pc' = "take" /\ Temp' = DS18S20_ERROR /\ bus' = bus
    /\ UNCHANGED <<active, sleep, ConversionStarted, Counter, BootType, busy, cut>>

(* The two bytes of the temperature, and the seven after it: the CRC of    *)
(* nine bytes is right for the scratchpad and for zeros, and wrong for ones*)
(* and for a scratchpad that turns into zeros or ones.                     *)
ReadFirst ==
    /\ Step("first")
    /\ pc' = "rest"
    /\ Temp' = CASE Sent = "pad" -> pad [] Sent = "zeros" -> 0
                 [] Sent = "ones" -> -1
    /\ UNCHANGED <<active, sleep, ConversionStarted, Counter, BootType, busy, bus, cut>>
ReadRestUnchecked ==
    /\ Step("rest")
    /\ pc' = "take"
    /\ UNCHANGED <<active, sleep, ConversionStarted, Counter, Temp, BootType, busy,
                   bus, cut>>
ReadRest ==
    /\ Step("rest")
    /\ pc' = "take"
    /\ Temp' = IF \/ Sent = "pad" /\ Temp = pad
                  \/ Sent = "zeros" /\ Temp = 0
               THEN Temp ELSE DS18S20_CRC_ERROR
    /\ UNCHANGED <<active, sleep, ConversionStarted, Counter, BootType, busy, bus, cut>>

(* A value the slave has at power-up is measured again, so many times.     *)
TakeUncounted ==
    /\ Step("take")
    /\ IF Temp \in Suspicious /\ Counter < Tries
       THEN /\ DS1820_StartConversion
            /\ ConversionStarted' = (ConversionStarted \/ present)
            /\ UNCHANGED <<Counter, BootType>>
       ELSE /\ BootType' = TempByte(Temp)
            /\ UNCHANGED <<Counter, ConversionStarted, busy, bus>>
    /\ Idle
    /\ UNCHANGED <<active, Temp, cut>>
Take ==
    /\ Step("take")
    /\ IF Temp \in Suspicious /\ Counter < Tries
       THEN /\ DS1820_StartConversion
            /\ IF present THEN Counter' = Counter + 1 /\ ConversionStarted' = TRUE
               ELSE Counter' = 0 /\ UNCHANGED ConversionStarted
            /\ BootType' = BootType
       ELSE /\ BootType' = TempByte(Temp)
            /\ UNCHANGED <<Counter, ConversionStarted, busy, bus>>
    /\ Idle
    /\ UNCHANGED <<active, Temp, cut>>

Read == DetectPresence \/ MatchRom \/ ReadFirst \/ ReadRest
Go == Look \/ AfterDelay \/ Read \/ Take
Task == Go \/ Leave \/ Enter

----------------------------------------------------------------------------
(* vApplicationTickHook.  A task that can go on does so before the next    *)
(* tick but one.                                                           *)
Reading == pc \in {"presence", "match", "first", "rest"}

(* The slave's conversion goes on; it leaves what it measured in the pad.  *)
Converting ==
    /\ busy' = IF busy > 0 THEN busy - 1 ELSE 0
    /\ pad' \in IF busy = 1 THEN Measurable ELSE {pad}
    /\ UNCHANGED bus

(* SearchBuses, and the conversion of the slave it finds.                  *)
Search ==
    /\ known' = present
    /\ ConversionStarted' = (ConversionStarted \/ present)
    /\ IF present THEN Convert ELSE UNCHANGED <<busy, bus>>
    /\ UNCHANGED pad
    /\ cut' = (cut \/ Reading)

CountOnce(n) == IF n = SearchAt THEN n ELSE n + 1
Count(n) == IF n + 1 = SearchAt THEN 0 ELSE n + 1

Ready == sleep = 0 /\ (pc = "idle" => active /\ ConversionStarted)

Tick ==
    /\ ~(Ready /\ late)
    /\ sleep' = IF sleep > 0 THEN sleep - 1 ELSE 0
    /\ late' = Ready
    /\ ow_cnt' = Count(ow_cnt)
    /\ IF ow_cnt + 1 = SearchAt THEN Search
       ELSE Converting /\ UNCHANGED <<known, ConversionStarted, cut>>
    /\ UNCHANGED <<taskVars, Counter, Temp, BootType, present>>

(* The slave is unplugged, or plugged in and powers up.                    *)
Move ==
    /\ present' = ~present
    /\ pad' = TEMP_RESET_VALUE_B /\ busy' = 0 /\ bus' = "none"
    /\ UNCHANGED <<taskVars, sleep, late, ow_cnt, ConversionStarted, known,
                   Counter, Temp, BootType, cut>>

Next == Task \/ Tick \/ Move

Spec == Init /\ [][Next]_vars

(* The timer does not stop and init's loop, while it runs, goes on; nothing*)
(* makes the user leave init or plug the slave.                            *)
FairSpec == Spec /\ WF_vars(Tick) /\ WF_vars(Go)

----------------------------------------------------------------------------
FlagsOK ==
    /\ active \in BOOLEAN /\ late \in BOOLEAN /\ ConversionStarted \in BOOLEAN
    /\ known \in BOOLEAN /\ present \in BOOLEAN /\ cut \in BOOLEAN
ValuesOK ==
    /\ pc \in {"idle", "delay", "presence", "match", "first", "rest", "take"}
    /\ sleep \in Nat /\ ow_cnt \in 0..SearchAt - 1
    /\ Counter \in 0..Tries
    /\ Temp \in -2000..2047 /\ BootType \in 0..255
    /\ pad \in Measurable \cup {TEMP_RESET_VALUE_B}
    /\ busy \in 0..Conversion /\ bus \in {"none", "reset", "sends"}
TypeOK == FlagsOK /\ ValuesOK

(* A reading that no search of the tick hook fell into gives what a slave  *)
(* measured, its power-up value or an error, though the slave is unplugged *)
(* and plugged in and conversions run into each other: never the zeros of  *)
(* a slave that is converting, which have a right CRC.                     *)
Errors == {DS18S20_ERROR, DS18S20_CRC_ERROR}
ReadingRight ==
    pc = "take" /\ ~cut => Temp \in Measurable \cup {TEMP_RESET_VALUE_B} \cup Errors

(* The byte of the report is the temperature in whole degrees, or one of   *)
(* two values outside the thermometer's range for the two errors.          *)
ByteRight ==
    /\ Temp \in Measured => /\ Celsius(TempByte(Temp)) = Quotient(Temp, 16)
                            /\ TempByte(Temp) \notin {TempByte(e) : e \in Errors}
    /\ Temp \in Errors => Celsius(TempByte(Temp)) < -55

(* While the tracker stays in init with the slave connected, the report    *)
(* follows the temperature the slave measures: the twenty seconds between  *)
(* two searches leave time for the reading, so that none is cut in the end,*)
(* a value that is read again is accepted in the end, and none is skipped. *)
Settled == <>[](active /\ present)
TemperatureFollows ==
    \A t \in Measurable :
        Settled /\ <>[](pad = t) => <>[](BootType = TempByte(t))
=============================================================================
