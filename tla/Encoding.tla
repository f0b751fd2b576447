------------------------------ MODULE Encoding ------------------------------
(***************************************************************************)
(* How a report is written: UDP2SMS makes two letters of every byte of the *)
(* 44, the fields of an NMEA sentence become numbers digit by digit, the   *)
(* time of the fix is packed into one word and the supply voltage into one *)
(* byte.  All numbers are the code's 32-bit int.                           *)
(***************************************************************************)
EXTENDS Integers, Sequences

Byte == 0..255
Zero == 48      \* the character '0'
DigitChar == Zero..Zero + 9

(* UDP2SMS: the high four bits from 'A', the low four from 'a'.            *)
HighLetter(b) == (b \div 16) + 65
LowLetter(b) == (b % 16) + 97
(* Its index j is a byte: behind 128 bytes it is at the string's begin     *)
(* again, and what was written is written over.                            *)
UDP2SMS(bytes) ==
    LET kept == Len(bytes) % 128
        skipped == Len(bytes) - kept
    IN  [j \in 1..2 * kept |->
            LET b == bytes[skipped + (j + 1) \div 2]
            IN  IF j % 2 = 1 THEN HighLetter(b) ELSE LowLetter(b)]

(* What the gateway does with the letters.                                 *)
Decode(high, low) == (high - 65) * 16 + (low - 97)

(* Value *= 10; Value += c - 0x30, in 32 bits: the high and the low half.  *)
Half == 65536
Signed(h) == IF h >= Half \div 2 THEN h - Half ELSE h
TimesTenPlusNarrow(v, c) == (v * 10 + (c - Zero)) % Half
TimesTenPlus(v, c) ==
    LET low == (v % Half) * 10 + (c - Zero)
        high == ((v \div Half) * 10 + (low \div Half)) % Half
    IN  Signed(high) * Half + (low % Half)

(* The number a field's characters make, without its point.                *)
Number(chars) ==
    LET n[i \in 0..Len(chars)] ==
            IF i = 0 THEN 0 ELSE TimesTenPlus(n[i - 1], chars[i])
    IN  n[Len(chars)]

(* Time: the day and the month above the eighteen bits of the time of day. *)
TimeUnit == 262144
TimeField(ddmm, hhmmss) == ddmm * TimeUnit + hhmmss

(* AD1: the supply from the converter's twelve bits, to a step of 19700.   *)
MaxSample == 4095
Millivolts(vin) == (vin * 3191) \div 1000
Voltage(vin) == (Millivolts(vin) * 34 + 9850) \div 19700
=============================================================================
