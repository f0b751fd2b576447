-------------------------- MODULE ThermometerProofs --------------------------
(***************************************************************************)
(* Proofs about Thermometer: the byte of the report for every temperature, *)
(* and the reading for every timing, every slave and every number of       *)
(* retries.                                                                *)
(***************************************************************************)
EXTENDS Thermometer, TLAPS

(* Temp * 625 / 10000 is Temp / 16, with C's division on either side.      *)
LEMMA WholeDegrees ==
  ASSUME NEW t \in Measured
  PROVE  /\ Quotient(t * 625, 10000) = Quotient(t, 16)
         /\ Quotient(t, 16) \in -55..125
<1>1. CASE t >= 0
  BY <1>1 DEF Measured, Quotient
<1>2. CASE t < 0
  BY <1>2 DEF Measured, Quotient
<1> QED
  BY <1>1, <1>2 DEF Measured

(* A number from -128 to 127 survives the cast to uint8_t.                 *)
LEMMA CastBack ==
  ASSUME NEW n \in -128..127
  PROVE  n % 256 \in 0..255 /\ Celsius(n % 256) = n
BY DEF Celsius

(* The report's byte is the temperature in whole degrees for all that the  *)
(* thermometer measures, and neither of the two error codes, converted in  *)
(* the same way, is a temperature it measures.                             *)
THEOREM ByteDecodes == Spec => []ByteRight
<1>1. \A t \in Measured : Celsius(TempByte(t)) = Quotient(t, 16)
  BY WholeDegrees, CastBack DEF TempByte
<1>2. \A t \in Measured : Celsius(TempByte(t)) >= -55
  BY <1>1, WholeDegrees
<1>3. \A e \in Errors : Celsius(TempByte(e)) < -55
  BY DEF Errors, DS18S20_ERROR, DS18S20_CRC_ERROR, TempByte, Quotient, Celsius
<1>4. \A t \in Measured : Celsius(TempByte(t)) \in Int
  BY <1>1, WholeDegrees
<1>5. ByteRight
  BY <1>1, <1>2, <1>3, <1>4 DEF ByteRight
<1> QED
  BY <1>5, PTL

(***************************************************************************)
(* ReadingRight is inductive with what it rests on: as long as no search   *)
(* cuts the reading, the slave that answers sends its scratchpad, or it was*)
(* unplugged since and is not converting.                                  *)
(***************************************************************************)
Asked(step, b) ==
    pc = step /\ ~cut => \/ bus = b
                         \/ bus = "none" /\ busy = 0
ReadingOK ==
    /\ Asked("match", "reset") /\ Asked("first", "sends") /\ Asked("rest", "sends")
    /\ bus # "none" => present
    /\ pc = "rest" /\ ~cut => Temp \in Measurable \cup {TEMP_RESET_VALUE_B, -1}
    /\ ReadingRight
Values == ValuesOK /\ ReadingOK
IInv == FlagsOK /\ Values

LEMMA Constants ==
  /\ SearchAt \in Nat \ {0} /\ Delay \in Nat \ {0} /\ Conversion \in Nat \ {0}
  /\ Tries \in Nat /\ Rest \in Nat
  /\ Measurable \subseteq -880..2000 /\ 0 \notin Measurable
BY TimeAssumption, MeasurableAssumption DEF Measured

(* What comes from the slave fits the variable, as do the error codes.     *)
LEMMA Fits ==
  ASSUME ValuesOK
  PROVE  /\ pad \in -2000..2047 /\ Temp \in -2000..2047
         /\ 0 \in -2000..2047 /\ -1 \in -2000..2047
         /\ DS18S20_CRC_ERROR \in -2000..2047
<1>1. pad \in Measurable \/ pad = TEMP_RESET_VALUE_B
  BY DEF ValuesOK
<1>2. \A t \in Measurable : t \in -880..2000
  BY MeasurableAssumption DEF Measured
<1>3. ASSUME pad \in Measurable PROVE pad \in -2000..2047
  <2>1. pad \in -880..2000
    BY <1>2, <1>3
  <2> QED
    BY <2>1
<1>4. ASSUME pad = TEMP_RESET_VALUE_B PROVE pad \in -2000..2047
  BY <1>4 DEF TEMP_RESET_VALUE_B
<1>5. pad \in -2000..2047
  BY <1>1, <1>3, <1>4
<1>6. Temp \in -2000..2047
  BY DEF ValuesOK
<1> QED
  BY <1>5, <1>6 DEF DS18S20_CRC_ERROR

LEMMA ByteInRange ==
  ASSUME NEW t \in Int PROVE TempByte(t) \in 0..255
<1>1. Quotient(t * 625, 10000) \in Int
  BY DEF Quotient
<1> QED
  BY <1>1 DEF TempByte

(* The flags: each step leaves them Boolean.                               *)
LEMMA FlagsKept ==
  ASSUME FlagsOK, [Next]_vars PROVE FlagsOK'
<1> USE DEF FlagsOK, At, Step, Idle, taskVars, slaveVars
<1>1. CASE Leave \/ Enter \/ Look \/ AfterDelay
  BY <1>1 DEF Leave, Enter, Look, AfterDelay
<1>2. CASE Read
  BY <1>2 DEF Read, DetectPresence, MatchRom, ReadFirst, ReadRest
<1>3. CASE Take
  BY <1>3 DEF Take
<1>4. CASE Tick
  BY <1>4 DEF Tick, Search, Ready, Reading
<1>5. CASE Move
  BY <1>5 DEF Move
<1>6. CASE UNCHANGED vars
  BY <1>6 DEF vars
<1> QED
  BY <1>1, <1>2, <1>3, <1>4, <1>5, <1>6 DEF Next, Task, Go

(* The values, one part of the next-state relation after the other.        *)
LEMMA InitHolds ==
  ASSUME Init PROVE IInv
<1>1. FlagsOK
  BY DEF Init, FlagsOK
<1>2. ValuesOK
  BY Constants DEF Init, ValuesOK, TEMP_RESET_VALUE_B
<1>3. ReadingOK
  BY DEF Init, ReadingOK, Asked, ReadingRight
<1> QED
  BY <1>1, <1>2, <1>3 DEF IInv, Values

LEMMA LoopKeeps ==
  ASSUME Values, Leave \/ Enter \/ Look \/ AfterDelay PROVE Values'
<1> USE Constants DEF At, Step, Values, ValuesOK, ReadingOK, Asked, ReadingRight
<1>1. CASE Leave
  BY <1>1 DEF Leave
<1>2. CASE Enter
  BY <1>2 DEF Enter, slaveVars
<1>3. CASE Look
  BY <1>3 DEF Look
<1>4. CASE AfterDelay
  <2>1. /\ UNCHANGED <<ow_cnt, present, pad, Counter, BootType, busy, bus>>
        /\ pc' \in {"presence", "idle"} /\ sleep' \in Nat /\ Temp' = 0
    BY <1>4 DEF AfterDelay, Idle
  <2>2. ValuesOK'
    BY <2>1
  <2>3. ReadingOK'
    BY <2>1
  <2> QED
    BY <2>2, <2>3
<1> HIDE DEF Values
<1> QED
  BY <1>1, <1>2, <1>3, <1>4

LEMMA ReadKeeps ==
  ASSUME Values, Read PROVE Values'
<1> USE Constants DEF At, Step, Values, ValuesOK, ReadingOK, Asked, ReadingRight,
                      Errors, TEMP_RESET_VALUE_B, DS18S20_ERROR, DS18S20_CRC_ERROR
<1>1. CASE DetectPresence
  <2>1. /\ pc = "presence" /\ UNCHANGED <<sleep, ow_cnt, present, pad>>
        /\ UNCHANGED <<Counter, BootType, busy, cut>>
    BY <1>1 DEF DetectPresence
  <2>2. CASE present
    BY <1>1, <2>1, <2>2 DEF DetectPresence
  <2>3. CASE ~present
    BY <1>1, <2>1, <2>3 DEF DetectPresence
  <2> QED
    BY <2>2, <2>3
<1>2. CASE MatchRom
  <2>1. /\ pc = "match" /\ UNCHANGED <<sleep, ow_cnt, present, pad>>
        /\ UNCHANGED <<Counter, BootType, busy, cut>>
    BY <1>2 DEF MatchRom
  <2>2. CASE known /\ present /\ bus = "reset"
    BY <1>2, <2>1, <2>2 DEF MatchRom
  <2>3. CASE known /\ ~(present /\ bus = "reset")
    BY <1>2, <2>1, <2>3 DEF MatchRom
  <2>4. CASE ~known
    BY <1>2, <2>1, <2>4 DEF MatchRom
  <2> QED
    BY <2>2, <2>3, <2>4
<1>3. CASE ReadFirst
  <2>1. /\ pc = "first" /\ pc' = "rest" /\ UNCHANGED <<sleep, ow_cnt, present, pad>>
        /\ UNCHANGED <<Counter, BootType, busy, bus, cut>>
    BY <1>3 DEF ReadFirst
  <2>2. /\ Sent = "pad" => Temp' = pad
        /\ Sent = "zeros" => Temp' = 0
        /\ Sent = "ones" => Temp' = -1
    BY <1>3 DEF ReadFirst, Sent
  <2>3. /\ Sent \in {"pad", "zeros", "ones"}
        /\ ~cut => Sent # "zeros"
    BY <2>1 DEF Sent
  <2>4. Temp' \in -2000..2047
    <3> HIDE DEF ValuesOK
    <3> QED
      BY <2>2, <2>3, Fits DEF Values
  <2>5. ValuesOK'
    BY <2>1, <2>4
  <2>6. ReadingOK'
    BY <2>1, <2>2, <2>3
  <2> QED
    BY <2>5, <2>6
<1>4. CASE ReadRest
  <2>1. /\ pc = "rest" /\ pc' = "take" /\ UNCHANGED <<sleep, ow_cnt, present, pad>>
        /\ UNCHANGED <<Counter, BootType, busy, bus, cut>>
    BY <1>4 DEF ReadRest
  <2>2. \/ Sent = "pad" /\ Temp = pad /\ Temp' = Temp
        \/ Sent = "zeros" /\ Temp' = Temp
        \/ Temp' = DS18S20_CRC_ERROR
    BY <1>4 DEF ReadRest
  <2>3. ~cut => Sent # "zeros"
    BY <2>1 DEF Sent
  <2>4. Temp' \in -2000..2047
    <3>1. Temp' \in {Temp, DS18S20_CRC_ERROR}
      BY <2>2
    <3>2. Temp \in -2000..2047 /\ DS18S20_CRC_ERROR \in -2000..2047
      OBVIOUS
    <3> HIDE DEF ValuesOK, DS18S20_CRC_ERROR
    <3> QED
      BY <3>1, <3>2
  <2>5. ValuesOK'
    BY <2>1, <2>4
  <2>6. ReadingOK'
    BY <2>1, <2>2, <2>3
  <2> QED
    BY <2>5, <2>6
<1> HIDE DEF Values
<1> QED
  BY <1>1, <1>2, <1>3, <1>4 DEF Read

LEMMA TakeKeeps ==
  ASSUME Values, Take PROVE Values'
<1> USE Constants DEF Values, ValuesOK, ReadingOK, Asked, ReadingRight
<1>1. /\ pc = "take" /\ pc' = "idle" /\ sleep' \in 0..Rest
      /\ UNCHANGED <<ow_cnt, present, pad, Temp, cut>>
  BY DEF Take, At, Step, Idle
<1>2. CASE Temp \in Suspicious /\ Counter < Tries
  <2>1. DS1820_StartConversion /\ Counter' \in 0..Tries /\ BootType' = BootType
    BY <1>2 DEF Take
  <2> QED
    BY <1>1, <2>1 DEF DS1820_StartConversion, Convert
<1>3. CASE ~(Temp \in Suspicious /\ Counter < Tries)
  <2>1. BootType' = TempByte(Temp)
    BY <1>3 DEF Take
  <2>2. UNCHANGED <<Counter, busy, bus>>
    BY <1>3 DEF Take
  <2>3. TempByte(Temp) \in 0..255
    <3>1. Temp \in Int
      OBVIOUS
    <3> QED
      BY <3>1, ByteInRange
  <2> QED
    BY <1>1, <2>1, <2>2, <2>3
<1> HIDE DEF Values
<1> QED
  BY <1>2, <1>3

LEMMA SearchCuts ==
  ASSUME Search
  PROVE  /\ pc \in {"match", "first", "rest"} => cut'
         /\ cut => cut'
BY DEF Search, Reading

LEMMA TickKeeps ==
  ASSUME Values, Tick PROVE Values'
<1> USE Constants DEF Values, ValuesOK, ReadingOK, Asked, ReadingRight
<1>1. sleep' \in Nat /\ UNCHANGED <<pc, Counter, Temp, BootType, present>>
  BY DEF Tick, taskVars
<1>2. ow_cnt' \in 0..SearchAt - 1
  BY DEF Tick, Count
<1>3. CASE ow_cnt + 1 = SearchAt
  <2>1. Search
    BY <1>3 DEF Tick
  <2> QED
    BY <1>1, <1>2, <2>1, SearchCuts DEF Search, Convert
<1>4. CASE ow_cnt + 1 # SearchAt
  <2>1. Converting /\ UNCHANGED cut
    BY <1>4 DEF Tick
  <2> QED
    BY <1>1, <1>2, <2>1 DEF Converting
<1> HIDE DEF Values
<1> QED
  BY <1>3, <1>4

LEMMA MoveKeeps ==
  ASSUME Values, Move PROVE Values'
BY Constants DEF Move, taskVars, Values, ValuesOK, ReadingOK, Asked, ReadingRight

THEOREM ReadingInvariant == Spec => []IInv
<1>1. Init => IInv
  BY InitHolds
<1>2. IInv /\ [Next]_vars => IInv'
  <2> SUFFICES ASSUME IInv, [Next]_vars PROVE IInv'
    OBVIOUS
  <2>1. CASE UNCHANGED vars
    BY <2>1 DEF vars, taskVars, slaveVars, IInv, FlagsOK, Values, ValuesOK,
                ReadingOK, Asked, ReadingRight
  <2> QED
    BY <2>1, FlagsKept, LoopKeeps, ReadKeeps, TakeKeeps, TickKeeps, MoveKeeps
       DEF Next, Task, Go, IInv
<1> QED
  BY <1>1, <1>2, PTL DEF Spec

(* Types: the retries are counted to their limit and no further, and the   *)
(* report's byte is a byte.                                                *)
THEOREM TypeCorrect == Spec => []TypeOK
<1>1. IInv => TypeOK
  BY DEF IInv, Values, TypeOK
<1> QED
  BY <1>1, ReadingInvariant, PTL

(* Only a search of the tick hook in the middle of it can make a reading   *)
(* the zeros of a slave that is converting; that the slave is unplugged,   *)
(* plugged in or read too early cannot.                                    *)
THEOREM ReadingSafe == Spec => []ReadingRight
<1>1. IInv => ReadingRight
  BY DEF IInv, Values, ReadingOK
<1> QED
  BY <1>1, ReadingInvariant, PTL
=============================================================================
