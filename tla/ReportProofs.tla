---------------------------- MODULE ReportProofs ----------------------------
(***************************************************************************)
(* Proofs about Report and Encoding: for every set of inputs, every range  *)
(* of samples and every width of the report number, the types, the chain   *)
(* of channels and that no change of an input is forgotten; and what the   *)
(* gateway reads is what was written, for every byte and every time.       *)
(***************************************************************************)
EXTENDS Report, FiniteSetTheorems, SequenceTheorems, TLAPS

----------------------------------------------------------------------------
(* The numbers of a report.                                                *)

(* Two letters give their byte back, whatever the byte.                    *)
LEMMA LettersOfByte ==
    ASSUME NEW b \in Byte
    PROVE  /\ HighLetter(b) \in 65..80 /\ LowLetter(b) \in 97..112
           /\ Decode(HighLetter(b), LowLetter(b)) = b
<1>1. b = (b \div 16) * 16 + (b % 16) /\ b \div 16 \in 0..15 /\ b % 16 \in 0..15
  BY SMT DEF Byte
<1> QED BY <1>1 DEF HighLetter, LowLetter, Decode, Byte

LEMMA Places ==
    ASSUME NEW n \in Nat, NEW i \in 1..n
    PROVE  /\ 2 * i - 1 \in 1..2 * n /\ 2 * i \in 1..2 * n
           /\ (2 * i - 1) % 2 = 1 /\ (2 * i) % 2 = 0
           /\ ((2 * i - 1) + 1) \div 2 = i /\ (2 * i + 1) \div 2 = i
BY SMT

LEMMA Halves ==
    ASSUME NEW n \in Nat, NEW j \in 1..2 * n PROVE (j + 1) \div 2 \in 1..n
BY SMT

LEMMA Below128 ==
    ASSUME NEW n \in Nat, n < 128 PROVE n % 128 = n /\ n - n = 0
BY SMT

LEMMA Letters ==
    ASSUME NEW b \in Byte PROVE HighLetter(b) \in Nat /\ LowLetter(b) \in Nat
BY LettersOfByte

(* The letters of a report of up to 127 bytes give all its bytes back: the *)
(* code's index of the letters is a byte, and a report has 44.             *)
THEOREM ReportDecodes ==
    ASSUME NEW bytes \in Seq(Byte), Len(bytes) < 128
    PROVE  DecodesTo(UDP2SMS(bytes), bytes)
<1> DEFINE letters == UDP2SMS(bytes)
           n == Len(bytes)
           Letter(j) == LET b == bytes[(j + 1) \div 2]
                        IN  IF j % 2 = 1 THEN HighLetter(b) ELSE LowLetter(b)
<1>1. n \in Nat /\ 2 * n \in Nat /\ DOMAIN bytes = 1..n
  OBVIOUS
<1>2. letters = [j \in 1..2 * n |-> Letter(j)]
  <2>1. n % 128 = n /\ n - n = 0
    BY <1>1, Below128, Zenon
  <2>2. \A j \in 1..2 * n : 0 + (j + 1) \div 2 = (j + 1) \div 2
    BY <1>1, SMT
  <2>3. letters = [j \in 1..2 * n |->
            LET b == bytes[0 + (j + 1) \div 2]
            IN  IF j % 2 = 1 THEN HighLetter(b) ELSE LowLetter(b)]
    BY <2>1, Zenon DEF UDP2SMS
  <2> HIDE DEF n, letters
  <2> QED BY <2>2, <2>3, Zenon
<1>3. ASSUME NEW j \in 1..2 * n PROVE Letter(j) \in Nat
  <2>1. (j + 1) \div 2 \in 1..n
    BY <1>1, Halves
  <2>2. bytes[(j + 1) \div 2] \in Byte
    BY <2>1, <1>1
  <2> QED BY <2>2, Letters, Zenon
<1>4. letters \in Seq(Nat) /\ Len(letters) = 2 * n
  <2> HIDE DEF Letter
  <2> QED BY <1>1, <1>2, <1>3
<1>5. ASSUME NEW i \in DOMAIN bytes
      PROVE  Decode(letters[2 * i - 1], letters[2 * i]) = bytes[i]
  <2>1. /\ 2 * i - 1 \in 1..2 * n /\ 2 * i \in 1..2 * n
        /\ (2 * i - 1) % 2 = 1 /\ (2 * i) % 2 = 0
        /\ ((2 * i - 1) + 1) \div 2 = i /\ (2 * i + 1) \div 2 = i
    BY <1>1, Places, Zenon
  <2>2. /\ letters[2 * i - 1] = Letter(2 * i - 1)
        /\ letters[2 * i] = Letter(2 * i)
    <3> HIDE DEF Letter
    <3> QED BY <1>2, <2>1
  <2>3. /\ Letter(2 * i - 1) = HighLetter(bytes[i])
        /\ Letter(2 * i) = LowLetter(bytes[i])
    <3>1. Letter(2 * i - 1) = HighLetter(bytes[i])
      BY <2>1, Zenon
    <3>2. Letter(2 * i) = LowLetter(bytes[i])
      <4>1. (2 * i) % 2 # 1
        BY <2>1
      <4> QED BY <2>1, <4>1, Zenon
    <3> QED BY <3>1, <3>2
  <2>4. bytes[i] \in Byte
    BY <1>1
  <2> QED BY <2>2, <2>3, <2>4, LettersOfByte
<1> QED BY <1>4, <1>5 DEF DecodesTo

(* The values of a 32-bit word. *)
Word == 4294967296

(* The arithmetic of int, as long as the result fits: the code's steps.    *)
Fits(n) == -2147483648 <= n /\ n < 2147483648

LEMMA HalvesOf ==
    ASSUME NEW n \in Int
    PROVE  /\ n \div Half \in Int /\ n % Half \in Nat /\ n % Half < Half
           /\ n = (n \div Half) * Half + (n % Half)
BY SMT DEF Half

LEMMA TimesTenPlusFits ==
    ASSUME NEW v \in Int, NEW c \in Int, Fits(v * 10 + (c - Zero))
    PROVE  TimesTenPlus(v, c) = v * 10 + (c - Zero)
<1> DEFINE k == c - Zero
           q == v \div Half
           r == v % Half
           low == r * 10 + k
           l == low \div Half
           m == low % Half
<1>1. k \in Int
  BY DEF Zero
<1>2. q \in Int /\ r \in Nat /\ v = q * Half + r
  BY HalvesOf, Zenon
<1>3. low \in Int
  <2> HIDE DEF k, r
  <2> QED BY <1>1, <1>2
<1>4. l \in Int /\ m \in Nat /\ m < Half /\ low = l * Half + m
  <2> HIDE DEF low
  <2> QED BY <1>3, HalvesOf, Zenon
<1>5. TimesTenPlus(v, c) = Signed((q * 10 + l) % Half) * Half + m
  BY Zenon DEF TimesTenPlus
<1>6. Fits(v * 10 + k) /\ low = r * 10 + k
  OBVIOUS
<1> HIDE DEF k, q, r, low, l, m
<1>7. q * 10 + l \in Int /\ v * 10 + k = (q * 10 + l) * Half + m
  BY <1>1, <1>2, <1>4, <1>6, SMT DEF Half
<1>8. -32768 <= q * 10 + l /\ q * 10 + l < 32768
  BY <1>2, <1>4, <1>6, <1>7, SMT DEF Fits, Half
<1>9. Signed((q * 10 + l) % Half) = q * 10 + l
  BY <1>7, <1>8, SMT DEF Signed, Half
<1> QED BY <1>5, <1>7, <1>9, Zenon DEF k

(* The values after each character, for the up to nine of a field. *)
LEMMA NumberIs ==
    ASSUME NEW chars, NEW len \in 0..9, Len(chars) = len,
           NEW v, v[0] = 0,
           \A i \in 1..len : v[i] = TimesTenPlus(v[i - 1], chars[i])
    PROVE  Number(chars) = v[len]
<1> DEFINE After(f, i) == IF i = 0 THEN 0 ELSE TimesTenPlus(f[i - 1], chars[i])
           n == CHOOSE f : f = [i \in 0..len |-> After(f, i)]
           w == [i \in 0..len |-> v[i]]
<1> HIDE DEF After
<1>1. w = [i \in 0..len |-> After(w, i)]
  <2>1. ASSUME NEW i \in 0..len PROVE v[i] = After(w, i)
    <3>1. CASE i = 0
      BY <3>1 DEF After
    <3>2. CASE i # 0
      <4>1. i \in 1..len /\ i - 1 \in 0..len
        BY <3>2
      <4>2. w[i - 1] = v[i - 1]
        BY <4>1
      <4> QED BY <3>2, <4>1, <4>2 DEF After
    <3> QED BY <3>1, <3>2
  <2> QED BY <2>1
<1>2. n = [i \in 0..len |-> After(n, i)]
  <2> HIDE DEF w
  <2> QED BY <1>1
<1>3. Number(chars) = n[len]
  BY DEF Number, After
<1> HIDE DEF n
<1>4. \A i \in 0..len : n[i] = After(n, i)
  BY <1>2
<1>5. n[0] = v[0]
  BY <1>4 DEF After
<1>6. \A i \in 1..len : n[i - 1] = v[i - 1] => n[i] = v[i]
  BY <1>4 DEF After
<1>7. /\ len >= 1 => n[1] = v[1]
  BY <1>5, <1>6
<1>8. len >= 2 => n[2] = v[2]
  BY <1>7, <1>6
<1>9. len >= 3 => n[3] = v[3]
  BY <1>8, <1>6
<1>10. len >= 4 => n[4] = v[4]
  BY <1>9, <1>6
<1>11. len >= 5 => n[5] = v[5]
  BY <1>10, <1>6
<1>12. len >= 6 => n[6] = v[6]
  BY <1>11, <1>6
<1>13. len >= 7 => n[7] = v[7]
  BY <1>12, <1>6
<1>14. len >= 8 => n[8] = v[8]
  BY <1>13, <1>6
<1>15. len = 9 => n[9] = v[9]
  BY <1>14, <1>6
<1>16. n[len] = v[len]
  <2>1. \/ len = 0 \/ len = 1 \/ len = 2 \/ len = 3 \/ len = 4
        \/ len = 5 \/ len = 6 \/ len = 7 \/ len = 8 \/ len = 9
    OBVIOUS
  <2> QED BY <2>1, <1>5, <1>7, <1>8, <1>9, <1>10, <1>11, <1>12, <1>13, <1>14, <1>15
<1> QED BY <1>3, <1>16

(* A step of a field's first nine digits. *)
LEMMA DigitStep ==
    ASSUME NEW v \in Nat, v < 100000000, NEW c \in DigitChar
    PROVE  TimesTenPlus(v, c) = v * 10 + (c - Zero)
<1>1. c \in Int /\ c - Zero \in Nat /\ c - Zero < 10
  BY SMT DEF DigitChar, Zero
<1>2. Fits(v * 10 + (c - Zero))
  BY <1>1, SMT DEF Fits
<1> QED BY <1>1, <1>2, TimesTenPlusFits, SMT

(* Nine digits, the most a field has, make the number they are: each of the*)
(* code's steps stays within an int.                                       *)
THEOREM NumberReads ==
    ASSUME NEW d, Len(d) = 9, \A i \in 1..9 : d[i] \in DigitChar
    PROVE  Number(d) = (d[1] - Zero) * 100000000 + (d[2] - Zero) * 10000000
                       + (d[3] - Zero) * 1000000 + (d[4] - Zero) * 100000
                       + (d[5] - Zero) * 10000 + (d[6] - Zero) * 1000
                       + (d[7] - Zero) * 100 + (d[8] - Zero) * 10 + (d[9] - Zero)
<1> DEFINE D(i) == d[i] - Zero
           v1 == D(1)
           v2 == v1 * 10 + D(2)
           v3 == v2 * 10 + D(3)
           v4 == v3 * 10 + D(4)
           v5 == v4 * 10 + D(5)
           v6 == v5 * 10 + D(6)
           v7 == v6 * 10 + D(7)
           v8 == v7 * 10 + D(8)
           v9 == v8 * 10 + D(9)
           v == [i \in 0..9 |-> IF i = 0 THEN 0
                               ELSE <<v1, v2, v3, v4, v5, v6, v7, v8, v9>>[i]]
<1>1. \A i \in 1..9 : d[i] \in Int /\ D(i) \in Nat /\ D(i) < 10
  BY SMT DEF DigitChar, Zero
<1> HIDE DEF D
<1>2. v1 \in Nat /\ v1 < 10
  BY <1>1, SMT
<1>3. v2 \in Nat /\ v2 < 100
  <2> HIDE DEF v1
  <2> QED BY <1>1, <1>2, SMT
<1>4. v3 \in Nat /\ v3 < 1000
  <2> HIDE DEF v2
  <2> QED BY <1>1, <1>3, SMT
<1>5. v4 \in Nat /\ v4 < 10000
  <2> HIDE DEF v3
  <2> QED BY <1>1, <1>4, SMT
<1>6. v5 \in Nat /\ v5 < 100000
  <2> HIDE DEF v4
  <2> QED BY <1>1, <1>5, SMT
<1>7. v6 \in Nat /\ v6 < 1000000
  <2> HIDE DEF v5
  <2> QED BY <1>1, <1>6, SMT
<1>8. v7 \in Nat /\ v7 < 10000000
  <2> HIDE DEF v6
  <2> QED BY <1>1, <1>7, SMT
<1>9. v8 \in Nat /\ v8 < 100000000
  <2> HIDE DEF v7
  <2> QED BY <1>1, <1>8, SMT
<1>10. v9 \in Nat /\ v9 < 1000000000
  <2> HIDE DEF v8
  <2> QED BY <1>1, <1>9, SMT
<1> HIDE DEF v1, v2, v3, v4, v5, v6, v7, v8, v9
<1>11. /\ v[0] = 0 /\ v[1] = v1 /\ v[2] = v2 /\ v[3] = v3 /\ v[4] = v4
       /\ v[5] = v5 /\ v[6] = v6 /\ v[7] = v7 /\ v[8] = v8 /\ v[9] = v9
  OBVIOUS
<1>12. v[1] = TimesTenPlus(v[0], d[1])
  BY <1>1, <1>11, DigitStep, SMT DEF v1, D
<1>13. v[2] = TimesTenPlus(v[1], d[2])
  BY <1>2, <1>11, DigitStep, SMT DEF v2, D
<1>14. v[3] = TimesTenPlus(v[2], d[3])
  BY <1>3, <1>11, DigitStep, SMT DEF v3, D
<1>15. v[4] = TimesTenPlus(v[3], d[4])
  BY <1>4, <1>11, DigitStep, SMT DEF v4, D
<1>16. v[5] = TimesTenPlus(v[4], d[5])
  BY <1>5, <1>11, DigitStep, SMT DEF v5, D
<1>17. v[6] = TimesTenPlus(v[5], d[6])
  BY <1>6, <1>11, DigitStep, SMT DEF v6, D
<1>18. v[7] = TimesTenPlus(v[6], d[7])
  BY <1>7, <1>11, DigitStep, SMT DEF v7, D
<1>19. v[8] = TimesTenPlus(v[7], d[8])
  BY <1>8, <1>11, DigitStep, SMT DEF v8, D
<1>20. v[9] = TimesTenPlus(v[8], d[9])
  BY <1>9, <1>11, DigitStep, SMT DEF v9, D
<1>21. \A i \in 1..9 : v[i] = TimesTenPlus(v[i - 1], d[i])
  <2> HIDE DEF v
  <2> QED BY <1>12, <1>13, <1>14, <1>15, <1>16, <1>17, <1>18, <1>19, <1>20, SMT
<1>22. Number(d) = v9
  <2> HIDE DEF v
  <2> QED BY <1>11, <1>21, NumberIs, SMT
<1>23. /\ {D(1), D(2), D(3), D(4), D(5), D(6), D(7), D(8), D(9)} \subseteq Int
       /\ {v1, v2, v3, v4, v5, v6, v7, v8} \subseteq Int
  BY <1>1, <1>2, <1>3, <1>4, <1>5, <1>6, <1>7, <1>8, <1>9
<1>24. v4 = D(1) * 1000 + D(2) * 100 + D(3) * 10 + D(4)
  BY <1>23, SMT DEF v1, v2, v3, v4
<1>25. v9 = v4 * 100000 + D(5) * 10000 + D(6) * 1000 + D(7) * 100 + D(8) * 10 + D(9)
  BY <1>23, SMT DEF v5, v6, v7, v8, v9
<1>26. v9 = D(1) * 100000000 + D(2) * 10000000 + D(3) * 1000000 + D(4) * 100000
            + D(5) * 10000 + D(6) * 1000 + D(7) * 100 + D(8) * 10 + D(9)
  BY <1>23, <1>24, <1>25, SMT
<1> QED
  BY <1>22, <1>26, SMT DEF D

(* Five digits before or behind four zeros. *)
LEMMA FiveDigits ==
    ASSUME NEW d \in Digits(5)
    PROVE  /\ Number(Zeros \o d) = PlaceValue(d)
           /\ Number(d \o Zeros) = PlaceValue(d) * 10000
<1>1. /\ d \in Seq(Int) /\ Len(d) = 5 /\ \A i \in 1..5 : d[i] \in DigitChar
      /\ Zeros \in Seq(Int) /\ Len(Zeros) = 4 /\ Zero \in DigitChar
  <2>1. /\ d \in [1..5 -> Int] /\ \A i \in 1..5 : d[i] \in DigitChar
    BY SMT DEF Digits, DigitChar, Zero
  <2>2. d \in Seq(Int) /\ Len(d) = 5
    <3>1. \A n \in Nat : d \in [1..n -> Int] => d \in Seq(Int) /\ Len(d) = n
      <4> TAKE n \in Nat
      <4> QED OBVIOUS
    <3> QED BY <2>1, <3>1
  <2>3. Zeros \in Seq(Int) /\ Len(Zeros) = 4 /\ Zero \in DigitChar
    BY SMT DEF Zeros, Zero, DigitChar
  <2> QED BY <2>1, <2>2, <2>3
<1>2. /\ Zeros[1] = Zero /\ Zeros[2] = Zero /\ Zeros[3] = Zero /\ Zeros[4] = Zero
  BY DEF Zeros
<1> DEFINE D(i) == d[i] - Zero
<1>3. Zero - Zero = 0 /\ {D(1), D(2), D(3), D(4), D(5)} \subseteq Int
  <2>1. \A c \in DigitChar : c - Zero \in Int
    BY SMT DEF DigitChar, Zero
  <2>2. Zero - Zero = 0
    BY SMT DEF Zero
  <2> QED BY <1>1, <2>1, <2>2
<1>4. PlaceValue(d) = D(1) * 10000 + D(2) * 1000 + D(3) * 100 + D(4) * 10 + D(5)
  BY SMT DEF PlaceValue
<1>5. Number(Zeros \o d) = PlaceValue(d)
  <2> DEFINE s == Zeros \o d
  <2>0. /\ Len(s) = Len(Zeros) + Len(d)
        /\ \A i \in 1..Len(Zeros) + Len(d) :
              s[i] = IF i <= Len(Zeros) THEN Zeros[i] ELSE d[i - Len(Zeros)]
    BY <1>1, ConcatProperties
  <2> HIDE DEF s
  <2>1. /\ Len(s) = 9 /\ s[1] = Zero /\ s[2] = Zero /\ s[3] = Zero /\ s[4] = Zero
        /\ s[5] = d[1] /\ s[6] = d[2] /\ s[7] = d[3] /\ s[8] = d[4] /\ s[9] = d[5]
    BY <1>1, <1>2, <2>0
  <2>2. \A i \in 1..9 : s[i] \in DigitChar
    BY <1>1, <2>1
  <2>3. Number(s) = 0 * 100000000 + 0 * 10000000 + 0 * 1000000 + 0 * 100000
            + D(1) * 10000 + D(2) * 1000 + D(3) * 100 + D(4) * 10 + D(5)
    BY <1>3, <2>1, <2>2, NumberReads, SMT
  <2> HIDE DEF D
  <2>4. Number(s) = PlaceValue(d)
    BY <1>3, <1>4, <2>3, SMT
  <2> QED BY <2>4 DEF s
<1>6. Number(d \o Zeros) = PlaceValue(d) * 10000
  <2> DEFINE s == d \o Zeros
  <2>0. /\ Len(s) = Len(d) + Len(Zeros)
        /\ \A i \in 1..Len(d) + Len(Zeros) :
              s[i] = IF i <= Len(d) THEN d[i] ELSE Zeros[i - Len(d)]
    BY <1>1, ConcatProperties
  <2> HIDE DEF s
  <2>1. /\ Len(s) = 9 /\ s[6] = Zero /\ s[7] = Zero /\ s[8] = Zero /\ s[9] = Zero
        /\ s[1] = d[1] /\ s[2] = d[2] /\ s[3] = d[3] /\ s[4] = d[4] /\ s[5] = d[5]
    BY <1>1, <1>2, <2>0
  <2>2. \A i \in 1..9 : s[i] \in DigitChar
    BY <1>1, <2>1
  <2>3. Number(s) = D(1) * 100000000 + D(2) * 10000000 + D(3) * 1000000 + D(4) * 100000
            + D(5) * 10000 + 0 * 1000 + 0 * 100 + 0 * 10 + 0
    BY <1>3, <2>1, <2>2, NumberReads, SMT
  <2> HIDE DEF D
  <2>4. Number(s) = PlaceValue(d) * 10000
    BY <1>3, <1>4, <2>3, SMT
  <2> QED BY <2>4 DEF s
<1> QED BY <1>5, <1>6

(* A character of an empty field is a zero byte: the steps of the code.    *)
LEMMA EmptyStep ==
    ASSUME NEW v \in Int, Fits(v * 10 - 48)
    PROVE  TimesTenPlus(v, 0) = v * 10 - 48
<1>1. v * 10 + (0 - Zero) = v * 10 - 48
  BY SMT DEF Zero
<1> QED BY <1>1, TimesTenPlusFits, SMT

(* Eight of them still fit an int; the ninth overflows and leaves one      *)
(* that is negative all the same.                                          *)
LEMMA EmptyValues ==
    /\ Number(Empty(4)) = -53328 /\ Number(Empty(6)) = -5333328
    /\ Number(Empty(8)) = -533333328 /\ Number(Empty(9)) = -1038366032
<1> DEFINE w == <<-48, -528, -5328, -53328, -533328, -5333328, -53333328, -533333328,
                  -1038366032>>
           v == [i \in 0..9 |-> IF i = 0 THEN 0 ELSE w[i]]
<1>1. /\ v[0] = 0 /\ v[1] = -48 /\ v[2] = -528 /\ v[3] = -5328 /\ v[4] = -53328
      /\ v[5] = -533328 /\ v[6] = -5333328 /\ v[7] = -53333328
      /\ v[8] = -533333328 /\ v[9] = -1038366032
  BY SMT
<1> HIDE DEF v
<1>2. v[1] = TimesTenPlus(v[0], 0)
  BY <1>1, EmptyStep, SMT DEF Fits
<1>3. v[2] = TimesTenPlus(v[1], 0)
  BY <1>1, EmptyStep, SMT DEF Fits
<1>4. v[3] = TimesTenPlus(v[2], 0)
  BY <1>1, EmptyStep, SMT DEF Fits
<1>5. v[4] = TimesTenPlus(v[3], 0)
  BY <1>1, EmptyStep, SMT DEF Fits
<1>6. v[5] = TimesTenPlus(v[4], 0)
  BY <1>1, EmptyStep, SMT DEF Fits
<1>7. v[6] = TimesTenPlus(v[5], 0)
  BY <1>1, EmptyStep, SMT DEF Fits
<1>8. v[7] = TimesTenPlus(v[6], 0)
  BY <1>1, EmptyStep, SMT DEF Fits
<1>9. v[8] = TimesTenPlus(v[7], 0)
  BY <1>1, EmptyStep, SMT DEF Fits
<1>10. v[9] = TimesTenPlus(v[8], 0)
  BY <1>1, SMT DEF TimesTenPlus, Signed, Half, Zero
<1>11. \A i \in 1..9 : v[i] = TimesTenPlus(v[i - 1], 0)
  BY <1>2, <1>3, <1>4, <1>5, <1>6, <1>7, <1>8, <1>9, <1>10, SMT
<1>12. /\ Len(Empty(4)) = 4 /\ \A i \in 1..4 : Empty(4)[i] = 0
       /\ Len(Empty(6)) = 6 /\ \A i \in 1..6 : Empty(6)[i] = 0
       /\ Len(Empty(8)) = 8 /\ \A i \in 1..8 : Empty(8)[i] = 0
       /\ Len(Empty(9)) = 9 /\ \A i \in 1..9 : Empty(9)[i] = 0
  BY SMT DEF Empty
<1>13. Number(Empty(4)) = v[4]
  BY <1>1, <1>11, <1>12, NumberIs, SMT
<1>14. Number(Empty(6)) = v[6]
  BY <1>1, <1>11, <1>12, NumberIs, SMT
<1>15. Number(Empty(8)) = v[8]
  BY <1>1, <1>11, <1>12, NumberIs, SMT
<1>16. Number(Empty(9)) = v[9]
  BY <1>1, <1>11, <1>12, NumberIs, SMT
<1> QED BY <1>1, <1>13, <1>14, <1>15, <1>16, SMT

(* Five digits with four zeros before or behind them make their number,    *)
(* and an empty field makes none that a position could be.                 *)
THEOREM NumbersRight == NumberRight
<1>1. Number(Empty(8)) < 0 /\ Number(Empty(9)) < 0
  BY EmptyValues, SMT
<1> QED BY <1>1, FiveDigits DEF NumberRight

(* Whatever day and month and whatever time of day the digits of a         *)
(* sentence made, they come apart again: the time fits its eighteen bits,  *)
(* 235959 does, and the word its 32.                                       *)
THEOREM TimeComesApart ==
    ASSUME NEW ddmm \in Nat, NEW hhmmss \in Nat,
           ddmm < 10000, hhmmss < 235960
    PROVE  /\ TimeField(ddmm, hhmmss) \in Nat /\ TimeField(ddmm, hhmmss) < Word
           /\ TimeField(ddmm, hhmmss) \div TimeUnit = ddmm
           /\ TimeField(ddmm, hhmmss) % TimeUnit = hhmmss
<1>1. TimeField(ddmm, hhmmss) \in Nat /\ TimeField(ddmm, hhmmss) < Word
  BY SMT DEF TimeField, TimeUnit, Word
<1>2. /\ TimeField(ddmm, hhmmss) \div TimeUnit = ddmm
      /\ TimeField(ddmm, hhmmss) % TimeUnit = hhmmss
  BY SMT DEF TimeField, TimeUnit
<1> QED BY <1>1, <1>2, SMT

(* Without a time and a date in the sentence, a receiver that has none yet,*)
(* the characters are zeros and the report holds the 121st of month 87: no *)
(* reader takes the word for a date.                                       *)
THEOREM NoTimeIsNoDate ==
    ASSUME NEW t,
           t = TimeField(Number(Empty(4)), Number(Empty(6))) % Word
    PROVE  t \div TimeUnit = 12187 /\ t % TimeUnit = 171696
<1>1. t = 3194920624
  BY EmptyValues, SMT DEF TimeField, TimeUnit, Word
<1> QED BY <1>1, SMT DEF TimeUnit

(* So they do at the ends of the year and of the day.                      *)
THEOREM TimesRight == TimeRight
<1>1. ASSUME NEW ddmm \in {101, 3112}, NEW hhmmss \in {0, 235959}
      PROVE  /\ TimeField(ddmm, hhmmss) \div 262144 = ddmm
             /\ TimeField(ddmm, hhmmss) % 262144 = hhmmss
  BY SMT DEF TimeField, TimeUnit
<1> QED BY <1>1, SMT DEF TimeRight

LEMMA Rounding ==
    ASSUME NEW mv \in Nat, mv < 13068
    PROVE  /\ (mv * 34 + 9850) \div 19700 \in Nat
           /\ (mv * 34 + 9850) \div 19700 < 256
           /\ -9850 <= mv * 34 - ((mv * 34 + 9850) \div 19700) * 19700
           /\ mv * 34 - ((mv * 34 + 9850) \div 19700) * 19700 <= 9849
BY SMT

(* The voltage's byte is the nearest step to the voltage and never more    *)
(* than a byte, for all the samples of twelve bits.                        *)
THEOREM VoltageFits == VoltageRight
<1> SUFFICES ASSUME NEW vin \in 0..MaxSample
             PROVE  LET error == Millivolts(vin) * 34 - Voltage(vin) * 19700
                    IN  Voltage(vin) \in Byte /\ -9850 <= error /\ error <= 9849
  BY DEF VoltageRight
<1>1. vin \in Nat /\ vin < 4096
  BY SMT DEF MaxSample
<1>2. Millivolts(vin) \in Nat /\ Millivolts(vin) < 13068
  BY <1>1, SMT DEF Millivolts
<1>3. /\ Voltage(vin) \in Nat /\ Voltage(vin) < 256
      /\ -9850 <= Millivolts(vin) * 34 - Voltage(vin) * 19700
      /\ Millivolts(vin) * 34 - Voltage(vin) * 19700 <= 9849
  BY <1>2, Rounding, SMT DEF Voltage
<1> QED BY <1>2, <1>3, SMT DEF Byte

----------------------------------------------------------------------------
(* Types.                                                                  *)

LEMMA ByteOfVoltage ==
    ASSUME NEW vin \in Samples PROVE Voltage(vin) % 256 \in Byte
<1>1. vin \in 0..MaxSample
  BY SampleAssumption
<1>2. Voltage(vin) \in Byte
  BY <1>1, VoltageFits DEF VoltageRight
<1> QED BY <1>2 DEF Byte

LEMMA TypeStep == TypeOK /\ [Next]_vars => TypeOK'
<1> SUFFICES ASSUME TypeOK, [Next]_vars PROVE TypeOK'
  OBVIOUS
<1> USE NumberAssumption DEF TypeOK, Label, flagVars, valueVars, adcVars,
        history
<1>1. CASE CheckInputs
  <2>1. /\ IO' = pins
        /\ UNCHANGED <<pins, cnt2_flag, AD1, PosQ_No, pc, copy, adcVars, last, dropped, overlap>>
    BY <1>1 DEF CheckInputs
  <2>2. sms_flag' \in BOOLEAN /\ MessageID' \in {2, 4, 6} /\ late' \in BOOLEAN
    <3>1. CASE pins = IO
      BY <1>1, <3>1 DEF CheckInputs
    <3>2. CASE pins # IO
      BY <1>1, <3>2 DEF CheckInputs
    <3> QED BY <3>1, <3>2
  <2> QED BY <2>1, <2>2
<1>2. CASE TimerReport
  BY <1>2 DEF TimerReport
<1>3. CASE StartRound
  <2>1. enabled' \subseteq {0, 1, 2, 3, 5} /\ overlap' \in BOOLEAN
    BY <1>3 DEF StartRound
  <2> QED BY <1>3, <2>1 DEF StartRound
<1>4. CASE adc0_callback
  <2>1. PICK c \in enabled : \/ c \in DOMAIN NextChannel /\ Continue(c)
                             \/ c = 5 /\ Finish(c)
    BY <1>4 DEF adc0_callback
  <2>2. /\ UNCHANGED <<pins, flagVars, MessageID, IO, PosQ_No, pc, copy, history>>
    BY <1>4 DEF adc0_callback
  <2>3. CASE c \in DOMAIN NextChannel /\ Continue(c)
    BY <2>2, <2>3 DEF Continue, NextChannel
  <2>4. CASE c = 5 /\ Finish(c)
    <3>1. AD1' \in Byte
      BY <2>4, ByteOfVoltage DEF Finish
    <3>2. enabled' \subseteq {0, 1, 2, 3, 5} /\ converting' \in BOOLEAN
      BY <2>4 DEF Finish
    <3> QED BY <2>2, <3>1, <3>2
  <2> QED BY <2>1, <2>3, <2>4
<1>5. CASE Begin
  BY <1>5 DEF Begin, Step
<1>6. CASE CopyHead
  BY <1>6 DEF CopyHead, Step
<1>7. CASE CopyTail
  BY <1>7 DEF CopyTail, Step
<1>8. CASE CountReport
  <2>1. (PosQ_No + 1) % Numbers \in 0..Numbers - 1
    OBVIOUS
  <2> QED BY <1>8, <2>1 DEF CountReport, Step
<1>9. CASE ReportSent
  BY <1>9 DEF ReportSent, Step
<1>10. CASE RequestDone
  BY <1>10 DEF RequestDone, Step
<1>11. CASE Drop
  BY <1>11 DEF Drop, Step
<1>12. CASE Ask
  BY <1>12 DEF Ask, Step
<1>13. CASE Move
  BY <1>13 DEF Move
<1>14. CASE UNCHANGED vars
  BY <1>14 DEF vars
<1> QED BY <1>1, <1>2, <1>3, <1>4, <1>5, <1>6, <1>7, <1>8, <1>9, <1>10,
           <1>11, <1>12, <1>13, <1>14 DEF Next, Interrupt, Task

(* Every field of the report and of its copy keeps its type.               *)
THEOREM TypeCorrect == Spec => []TypeOK
<1>1. Init => TypeOK
  <2> SUFFICES ASSUME Init PROVE TypeOK
    OBVIOUS
  <2>1. /\ 0 \in Byte /\ 0 \in 0..Numbers - 1
    BY NumberAssumption DEF Byte
  <2>2. copy \in [MessageID : {0, 2, 4, 6}, IO : SUBSET Pins, AD1 : Byte,
                  PosQ_No : 0..Numbers - 1]
    BY <2>1 DEF Init
  <2> QED BY <2>1, <2>2 DEF Init, TypeOK, Label
<1> QED BY <1>1, TypeStep, PTL DEF Spec

LEMMA HeldLength == Len(Held) < 128
BY DEF Held

(* At any time the letters of the copy's numbers give them back.           *)
THEOREM LettersCorrect == Spec => []LettersDecode
<1>1. TypeOK => DecodesTo(UDP2SMS(Held), Held)
  <2> SUFFICES ASSUME TypeOK PROVE Held \in Seq(Byte)
    BY ReportDecodes, HeldLength
  <2>1. /\ copy.MessageID \in Byte /\ copy.AD1 \in Byte
        /\ copy.PosQ_No \in Byte
    BY NumberAssumption DEF TypeOK, Byte
  <2> QED BY <2>1 DEF Held
<1>2. EveryByteDecodes
  <2> SUFFICES ASSUME NEW k \in 0..5
               PROVE  DecodesTo(UDP2SMS(EveryByte(k)), EveryByte(k))
    BY DEF EveryByteDecodes
  <2>1. \A i \in 1..44 : (44 * k + i) % 256 \in Byte
    BY SMT DEF Byte
  <2>2. EveryByte(k) \in Seq(Byte) /\ Len(EveryByte(k)) = 44
    BY <2>1 DEF EveryByte
  <2>3. Len(EveryByte(k)) < 128
    BY <2>2
  <2> QED BY <2>2, <2>3, ReportDecodes, Zenon
<1>3. TypeOK => LettersDecode
  BY <1>1, <1>2 DEF LettersDecode
<1> QED BY <1>3, TypeCorrect, PTL

(* What a report's bytes stand for can be read off them, at any time.      *)
THEOREM EncodingCorrect == Spec => []EncodingRight
<1>1. LettersDecode => EncodingRight
  BY NumbersRight, TimesRight, VoltageFits DEF EncodingRight
<1> QED BY <1>1, LettersCorrect, PTL

----------------------------------------------------------------------------
(* The converter's channels: until rounds overlap one is enabled while a   *)
(* conversion goes on, and none or the first one when none does.           *)
ChannelInv ==
    overlap \/ IF converting THEN \E c \in {0, 1, 2, 3, 5} : enabled = {c}
                             ELSE enabled \in {{}, {2}}

LEMMA ChannelStep == ChannelInv /\ TypeOK /\ [Next]_vars => ChannelInv'
<1> SUFFICES ASSUME ChannelInv, TypeOK, [Next]_vars PROVE ChannelInv'
  OBVIOUS
<1> USE DEF ChannelInv
<1>1. CASE StartRound
  <2>1. CASE overlap \/ converting
    BY <1>1, <2>1 DEF StartRound
  <2>2. CASE ~(overlap \/ converting)
    <3>1. enabled \in {{}, {2}}
      BY <2>2
    <3>2. enabled' = {2} /\ converting'
      BY <1>1, <3>1 DEF StartRound
    <3> QED BY <3>2
  <2> QED BY <2>1, <2>2
<1>2. CASE adc0_callback
  <2>0. overlap' = overlap
    BY <1>2 DEF adc0_callback, history
  <2>1. CASE overlap
    BY <2>0, <2>1
  <2>2. CASE ~overlap
    <3>1. PICK c \in enabled : \/ c \in DOMAIN NextChannel /\ Continue(c)
                               \/ c = 5 /\ Finish(c)
      BY <1>2 DEF adc0_callback
    <3>2. converting /\ enabled = {c}
      BY <1>2, <2>2, <3>1 DEF adc0_callback
    <3>3. CASE c \in DOMAIN NextChannel /\ Continue(c)
      <4>1. enabled' = {NextChannel[c]} /\ converting' = converting
        BY <3>2, <3>3 DEF Continue
      <4>2. NextChannel[c] \in {0, 1, 2, 3, 5}
        BY <3>3 DEF NextChannel
      <4> QED BY <3>2, <4>1, <4>2
    <3>4. CASE c = 5 /\ Finish(c)
      <4>1. enabled' = {} /\ converting' = FALSE
        BY <3>2, <3>4 DEF Finish
      <4> QED BY <4>1
    <3> QED BY <3>1, <3>3, <3>4
  <2> QED BY <2>1, <2>2
<1>3. CASE UNCHANGED <<adcVars, overlap>>
  BY <1>3 DEF adcVars
<1> QED BY <1>1, <1>2, <1>3 DEF Next, Interrupt, Task, CheckInputs,
      TimerReport, Begin, CopyHead, CopyTail, CountReport, ReportSent,
      RequestDone, Drop, Ask, Move, Step, vars, adcVars, history

(* As long as rounds do not overlap the chain of channels never enables    *)
(* two, and it leaves none on.                                             *)
THEOREM OneChannelAtATime == Spec => []OneChannel
<1>1. Init => ChannelInv
  BY DEF Init, ChannelInv
<1>2. ChannelInv /\ TypeOK => OneChannel
  <2> SUFFICES ASSUME ChannelInv, TypeOK, ~overlap PROVE
                  /\ Cardinality(enabled) <= 1
                  /\ converting => enabled # {}
                  /\ ~converting => enabled \subseteq {2}
    BY DEF OneChannel
  <2>1. CASE enabled = {}
    BY <2>1, FS_EmptySet DEF ChannelInv
  <2>2. CASE enabled # {}
    <3>1. PICK c : enabled = {c} /\ (~converting => c = 2)
      BY <2>2 DEF ChannelInv
    <3>2. Cardinality(enabled) = 1
      BY <3>1, FS_Singleton
    <3> QED BY <3>1, <3>2
  <2> QED BY <2>1, <2>2
<1> QED BY <1>1, <1>2, ChannelStep, TypeCorrect, PTL DEF Spec

----------------------------------------------------------------------------
(* No change is forgotten.  While a report is on its way its request is    *)
(* still up, so what is to hold when the request goes down is kept apart:  *)
(* from the copy on, a difference to it was found late.                    *)
InFlight == pc \in {"count", "sending", "sent"}
ChangeInv == /\ ChangeReported
             /\ InFlight /\ last # IO => late

LEMMA ChangeStep == ChangeInv /\ TypeOK /\ [Next]_vars => ChangeInv'
<1> SUFFICES ASSUME ChangeInv, TypeOK, [Next]_vars PROVE ChangeInv'
  OBVIOUS
<1> USE DEF ChangeInv, ChangeReported, InFlight, TypeOK, Label, flagVars,
        valueVars, adcVars, history
<1>1. CASE CheckInputs
  <2>1. CASE pins = IO
    BY <1>1, <2>1 DEF CheckInputs
  <2>2. CASE pins # IO
    <3>1. sms_flag' = TRUE /\ pc' = pc /\ last' = last
      BY <1>1, <2>2 DEF CheckInputs
    <3>2. pc \in {"count", "sending", "sent"} => late' = TRUE
      BY <1>1, <2>2 DEF CheckInputs
    <3> QED BY <3>1, <3>2
  <2> QED BY <2>1, <2>2
<1>2. CASE TimerReport
  BY <1>2 DEF TimerReport
<1>3. CASE StartRound
  BY <1>3 DEF StartRound
<1>4. CASE adc0_callback
  BY <1>4 DEF adc0_callback
<1>5. CASE Begin
  BY <1>5 DEF Begin, Step
<1>6. CASE CopyHead
  BY <1>6 DEF CopyHead, Step
<1>7. CASE CopyTail
  BY <1>7 DEF CopyTail, Step
<1>8. CASE CountReport
  BY <1>8 DEF CountReport, Step
<1>9. CASE ReportSent
  BY <1>9 DEF ReportSent, Step
<1>10. CASE RequestDone
  BY <1>10 DEF RequestDone, Step
<1>11. CASE Drop
  BY <1>11 DEF Drop, Step
<1>12. CASE Ask
  BY <1>12 DEF Ask, Step
<1>13. CASE Move
  BY <1>13 DEF Move
<1>14. CASE UNCHANGED vars
  BY <1>14 DEF vars
<1> QED BY <1>1, <1>2, <1>3, <1>4, <1>5, <1>6, <1>7, <1>8, <1>9, <1>10,
           <1>11, <1>12, <1>13, <1>14 DEF Next, Interrupt, Task

(* What the gateway believes of the inputs is what the tracker saw, or a   *)
(* report is asked for, or the change fell between a report's copy and the *)
(* end of its request, or a request was dropped.                           *)
THEOREM ChangesReported == Spec => []ChangeReported
<1>1. Init => ChangeInv
  BY DEF Init, ChangeInv, ChangeReported, InFlight
<1>2. ChangeInv => ChangeReported
  BY DEF ChangeInv
<1> QED BY <1>1, <1>2, ChangeStep, TypeCorrect, PTL DEF Spec
=============================================================================
