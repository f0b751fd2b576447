----------------------------- MODULE NmeaProofs -----------------------------
(***************************************************************************)
(* Proofs about Nmea for every ring size, every sentence and every way the *)
(* ring is overwritten while it is scanned.                                *)
(*                                                                         *)
(* TypeOK is not inductive by itself: that the index stays in the ring     *)
(* when a field's byte is read rests on the place in the scan, which       *)
(* InRange states; the two together are.                                   *)
(*                                                                         *)
(* ScanRight rests on what the ring's bytes are from, HistoryInv, and on   *)
(* how far an undisturbed scan has got in them, ScanGood.                  *)
(***************************************************************************)
EXTENDS Nmea, TLAPS, FiniteSetTheorems

IInv == TypeOK /\ InRange

(* What the assumptions say of a sentence that is looked for.              *)
LEMMA Sentence ==
  ASSUME NEW k \in DOMAIN Order
  PROVE  /\ Order[k] \in Kind
         /\ Len(Order) \in Nat
         /\ DOMAIN Order = 1..Len(Order)
         /\ Len(Sign[Order[k]]) \in Nat \ {0}
         /\ Len(Skip[Order[k]]) \in Nat \ {0}
         /\ \A i \in 1..Len(Skip[Order[k]]) : Skip[Order[k]][i] \in Nat \ {0}
<1>1. Order[k] \in Kind
  BY DEF Kind
<1>2. Len(Order) \in Nat /\ DOMAIN Order = 1..Len(Order)
  BY SentenceAssumption
<1>3. Sign[Order[k]] \in Seq(Byte) /\ Sign[Order[k]] # <<>>
  BY <1>1, SentenceAssumption
<1>4. Skip[Order[k]] \in Seq(Nat \ {0}) /\ Skip[Order[k]] # <<>>
  BY <1>1, SentenceAssumption
<1> QED
  BY <1>1, <1>2, <1>3, <1>4

(* The index taken back is one of the ring.                                *)
LEMMA WrapInRing ==
  ASSUME NEW i \in 0..N
  PROVE  Wrap(i) \in 0..N - 1
BY RingAssumption DEF Wrap

LEMMA WrapNext ==
  ASSUME NEW i \in 0..N - 1
  PROVE  Wrap(i + 1) \in 0..N - 1
BY RingAssumption DEF Wrap

(* Leaving a sentence, from a place in the ring.                           *)
LEMMA LeaveKeeps ==
  ASSUME TypeOK, ndx \in 0..N - 1, Leave
  PROVE  /\ ndx' \in 0..N /\ (pc' = "sign" => ndx' < N)
         /\ kind' \in DOMAIN Order
         /\ at' = 1
         /\ pc' \in {"sign", "test"}
<1>1. kind \in 1..Len(Order) /\ Len(Order) \in Nat /\ DOMAIN Order = 1..Len(Order)
  BY Sentence DEF TypeOK
<1>2. N \in Nat \ {0}
  BY RingAssumption
<1>3. 1 \in DOMAIN Order
  BY <1>1
<1> QED
  BY <1>1, <1>2, <1>3 DEF Leave, LookFor

(* Every text that is sent is a sequence of bytes with something in it.    *)
LEMMA SentTexts ==
  ASSUME NEW t \in Sent
  PROVE  t \in Seq(Byte) /\ t # <<>> /\ Len(t) \in Nat \ {0} /\ DOMAIN t = 1..Len(t)
<1>1. t \in Seq(Byte) /\ t # <<>>
  <2>1. CASE t \in Others
    BY <2>1, SentenceAssumption
  <2>2. CASE t \in UNION {Texts[k] : k \in Kind}
    BY <2>2, SentenceAssumption
  <2> QED
    BY <2>1, <2>2 DEF Sent
<1> QED
  BY <1>1

LEMMA InitTypes ==
  ASSUME Init PROVE IInv
<1>1. Order # <<>> /\ Len(Order) \in Nat /\ DOMAIN Order = 1..Len(Order)
  BY SentenceAssumption
<1>2. 1 \in DOMAIN Order
  BY <1>1, SentenceAssumption
<1>3. N \in Nat \ {0} /\ Burst \in Nat
  BY RingAssumption
<1>4. <<>> \in Seq(Byte) /\ <<>> \in Seq(Byte \cup {Empty})
  OBVIOUS
<1> QED
  BY <1>2, <1>3, <1>4 DEF Init, IInv, TypeOK, InRange

(* A byte that arrives is stored in the ring, whatever the scan is at.     *)
LEMMA ArrivalKeeps ==
  ASSUME IInv, UART1 PROVE IInv'
<1>1. PICK t \in IF out # <<>> THEN {out} ELSE Sent :
        Store(Head(t)) /\ out' = Tail(t)
  BY DEF UART1
<1>2. t \in Seq(Byte) /\ t # <<>>
  <2>1. CASE out # <<>>
    BY <2>1 DEF IInv, TypeOK
  <2>2. CASE out = <<>>
    BY <2>2, SentTexts
  <2> QED
    BY <2>1, <2>2
<1>3. Head(t) \in Byte /\ Tail(t) \in Seq(Byte)
  BY <1>2
<1>4. /\ ring' \in [0..N - 1 -> Byte \cup {Empty}]
      /\ wptr' \in 0..N - 1
  BY <1>1, <1>3, WrapNext DEF Store, IInv, TypeOK
<1>5. arrived' \in 0..Burst
  BY RingAssumption DEF UART1, IInv, TypeOK
<1> QED
  BY <1>1, <1>3, <1>4, <1>5 DEF UART1, scanVars, IInv, TypeOK, InRange

(* The scan's steps, one by one.                                           *)
LEMMA StartKeeps ==
  ASSUME IInv, Start PROVE IInv'
<1>1. <<>> \in Seq(Byte \cup {Empty}) /\ N \in Nat \ {0} /\ Burst \in Nat
  BY RingAssumption
<1> QED
  BY <1>1 DEF Start, IInv, TypeOK, InRange

LEMMA TestKeeps ==
  ASSUME IInv, Test PROVE IInv'
<1>1. CASE ndx = wptr
  BY <1>1 DEF Test, IInv, TypeOK, InRange
<1>2. CASE ndx # wptr
  <2>1. kind \in DOMAIN Order /\ 1 \in DOMAIN Order
    BY Sentence DEF IInv, TypeOK
  <2>2. 1 <= Len(Sign[Order[1]])
    BY <2>1, Sentence
  <2>3. Wrap(ndx) \in 0..N - 1
    BY WrapInRing DEF IInv, TypeOK
  <2>4. N \in Nat
    BY RingAssumption
  <2> QED
    BY <1>2, <2>1, <2>2, <2>3, <2>4 DEF Test, LookFor, IInv, TypeOK, InRange
<1> QED
  BY <1>1, <1>2

LEMMA EndKeeps ==
  ASSUME IInv, End PROVE IInv'
BY RingAssumption DEF End, IInv, TypeOK, InRange

LEMMA SignLetterKeeps ==
  ASSUME IInv, SignLetter PROVE IInv'
<1>1. /\ kind \in DOMAIN Order /\ ndx \in 0..N - 1 /\ at <= Len(Sign[Order[kind]])
      /\ at \in Nat \ {0} /\ N \in Nat /\ pc = "sign" /\ sepcnt = 0
  BY RingAssumption DEF SignLetter, IInv, TypeOK, InRange
<1>2. UNCHANGED <<ring, wptr, rptr, sepcnt, buf, fix, out, arrived>>
  BY DEF SignLetter
<1>3. PICK same \in Letter(ndx + at - 1) :
        IF ~same THEN Leave
        ELSE IF at < Len(Sign[Order[kind]])
        THEN at' = at + 1 /\ UNCHANGED <<ndx, pc, kind>>
        ELSE at' = 1 /\ ndx' = Wrap(ndx + 1) /\ pc' = "skip" /\ UNCHANGED kind
  BY DEF SignLetter
<1>4. CASE ~same
  <2>1. /\ ndx' \in 0..N /\ (pc' = "sign" => ndx' < N)
        /\ kind' \in DOMAIN Order /\ at' = 1 /\ pc' \in {"sign", "test"}
    BY <1>1, <1>3, <1>4, LeaveKeeps DEF IInv
  <2>2. 1 <= Len(Sign[Order[kind']])
    BY <2>1, Sentence
  <2> QED
    BY <1>1, <1>2, <2>1, <2>2 DEF IInv, TypeOK, InRange
<1>5. CASE same /\ at < Len(Sign[Order[kind]])
  <2>1. Len(Sign[Order[kind]]) \in Nat
    BY <1>1, Sentence
  <2> QED
    BY <1>1, <1>2, <1>3, <1>5, <2>1 DEF IInv, TypeOK, InRange
<1>6. CASE same /\ ~(at < Len(Sign[Order[kind]]))
  <2>1. at' = 1 /\ ndx' = Wrap(ndx + 1) /\ pc' = "skip" /\ kind' = kind
    BY <1>3, <1>6
  <2>2. ndx' \in 0..N - 1
    BY <1>1, <2>1, WrapNext
  <2>3. 1 <= Len(Skip[Order[kind]]) /\ Skip[Order[kind]][1] \in Nat \ {0}
    BY <1>1, Sentence
  <2>4. TypeOK'
    BY <1>1, <1>2, <2>1, <2>2 DEF IInv, TypeOK
  <2>5. at' <= Len(Skip[Order[kind']]) /\ sepcnt' < Skip[Order[kind']][at']
    BY <1>1, <1>2, <2>1, <2>3
  <2>6. InRange'
    BY <2>1, <2>5 DEF InRange
  <2> QED
    BY <2>4, <2>6 DEF IInv
<1> QED
  BY <1>4, <1>5, <1>6

LEMMA SeparatorKeeps ==
  ASSUME IInv, Separator PROVE IInv'
<1> DEFINE i == Wrap(ndx)
           seps == sepcnt + (IF ring[i] = Sep THEN 1 ELSE 0)
<1>1. /\ kind \in DOMAIN Order /\ at \in Nat \ {0} /\ sepcnt \in Nat
      /\ at <= Len(Skip[Order[kind]]) /\ sepcnt < Skip[Order[kind]][at]
      /\ N \in Nat \ {0} /\ pc = "skip"
  BY RingAssumption DEF Separator, IInv, TypeOK, InRange
<1>2. Skip[Order[kind]][at] \in Nat \ {0}
  BY <1>1, Sentence
<1>3. i \in 0..N - 1 /\ Wrap(i + 1) \in 0..N - 1
  BY WrapInRing, WrapNext DEF IInv, TypeOK
<1>4. seps \in Nat /\ seps <= Skip[Order[kind]][at]
  BY <1>1, <1>2
<1>5. UNCHANGED <<ring, wptr, rptr, kind, at, buf, fix, out, arrived>>
  BY DEF Separator
<1>6. CASE seps = Skip[Order[kind]][at]
  <2>1. sepcnt' = 0 /\ ndx' = Wrap(i + 1) /\ pc' = "field"
    BY <1>6 DEF Separator
  <2> QED
    BY <1>1, <1>3, <1>5, <2>1 DEF IInv, TypeOK, InRange
<1>7. CASE seps # Skip[Order[kind]][at]
  <2>1. sepcnt' = seps /\ ndx' = i + 1 /\ pc' = pc
    BY <1>7 DEF Separator
  <2>2. ndx' \in 0..N /\ sepcnt' \in Nat /\ sepcnt' < Skip[Order[kind]][at]
    BY <1>1, <1>2, <1>3, <1>4, <1>7, <2>1
  <2> QED
    BY <1>1, <1>5, <2>1, <2>2 DEF IInv, TypeOK, InRange
<1> QED
  BY <1>6, <1>7

LEMMA FieldByteKeeps ==
  ASSUME IInv, FieldByte PROVE IInv'
<1>1. ndx \in 0..N - 1 /\ N \in Nat
  BY RingAssumption DEF FieldByte, IInv, TypeOK, InRange
<1>2. Wrap(ndx + 1) \in 0..N - 1
  BY <1>1, WrapNext
<1>3. Append(buf, ring[ndx]) \in Seq(Byte \cup {Empty})
  BY <1>1 DEF FieldByte, IInv, TypeOK
<1> QED
  BY <1>1, <1>2, <1>3 DEF FieldByte, IInv, TypeOK, InRange

LEMMA FieldEndKeeps ==
  ASSUME IInv, FieldEnd PROVE IInv'
<1>1. /\ kind \in DOMAIN Order /\ ndx \in 0..N - 1 /\ sepcnt = 0
      /\ at \in Nat \ {0} /\ N \in Nat /\ pc = "field"
      /\ Order[kind] \in Kind
  BY RingAssumption, Sentence DEF FieldEnd, IInv, TypeOK, InRange
<1>2. UNCHANGED <<ring, wptr, rptr, sepcnt, out, arrived>>
  BY DEF FieldEnd
<1>3. CASE at < Len(Skip[Order[kind]])
  <2>1. at' = at + 1 /\ pc' = "skip" /\ UNCHANGED <<ndx, kind, buf, fix>>
    BY <1>3 DEF FieldEnd
  <2>2. at + 1 \in 1..Len(Skip[Order[kind]])
    BY <1>1, <1>3, Sentence
  <2>3. 0 < Skip[Order[kind]][at + 1]
    BY <1>1, <2>2, Sentence
  <2> QED
    BY <1>1, <1>2, <2>1, <2>2, <2>3 DEF IInv, TypeOK, InRange
<1>4. CASE ~(at < Len(Skip[Order[kind]]))
  <2>1. fix' = [fix EXCEPT ![Order[kind]] = buf] /\ buf' = <<>> /\ Leave
    BY <1>4 DEF FieldEnd
  <2>2. /\ ndx' \in 0..N /\ (pc' = "sign" => ndx' < N)
        /\ kind' \in DOMAIN Order /\ at' = 1 /\ pc' \in {"sign", "test"}
    BY <1>1, <2>1, LeaveKeeps DEF IInv
  <2>3. 1 <= Len(Sign[Order[kind']])
    BY <2>2, Sentence
  <2>4. /\ fix' \in [Kind -> Seq(Byte \cup {Empty})]
        /\ buf' \in Seq(Byte \cup {Empty})
    BY <1>1, <2>1 DEF IInv, TypeOK
  <2> QED
    BY <1>1, <1>2, <2>2, <2>3, <2>4 DEF IInv, TypeOK, InRange
<1> QED
  BY <1>3, <1>4

(***************************************************************************)
(* The inductive invariant, and what it is for.                            *)
(***************************************************************************)
THEOREM ScanInvariant == Spec => []IInv
<1>1. Init => IInv
  BY InitTypes
<1>2. IInv /\ [Next]_vars => IInv'
  <2> SUFFICES ASSUME IInv, [Next]_vars PROVE IInv'
    OBVIOUS
  <2>1. CASE UART1
    BY <2>1, ArrivalKeeps
  <2>2. CASE Start
    BY <2>2, StartKeeps
  <2>3. CASE Test
    BY <2>3, TestKeeps
  <2>4. CASE End
    BY <2>4, EndKeeps
  <2>5. CASE SignLetter
    BY <2>5, SignLetterKeeps
  <2>6. CASE Separator
    BY <2>6, SeparatorKeeps
  <2>7. CASE FieldByte
    BY <2>7, FieldByteKeeps
  <2>8. CASE FieldEnd
    BY <2>8, FieldEndKeeps
  <2>9. CASE UNCHANGED vars
    BY <2>9 DEF vars, scanVars, IInv, TypeOK, InRange
  <2> QED
    BY <2>1, <2>2, <2>3, <2>4, <2>5, <2>6, <2>7, <2>8, <2>9 DEF Next, Scan
<1> QED
  BY <1>1, <1>2, PTL DEF Spec

(* The ring, the pointers and the fields have their types: UART1_Handler   *)
(* never stores outside instring_GPS, and the scan's index is at most one  *)
(* past its end when the loop's condition compares it with wptr_GPS.       *)
THEOREM TypeCorrect == Spec => []TypeOK
<1>1. IInv => TypeOK
  BY DEF IInv
<1> QED
  BY <1>1, ScanInvariant, PTL

(* No byte of a field is read outside the ring, and no separator is counted*)
(* for a field that the sentence does not have, whatever arrives when.     *)
THEOREM ScanStaysInRange == Spec => []InRange
<1>1. IInv => InRange
  BY DEF IInv
<1> QED
  BY <1>1, ScanInvariant, PTL
----------------------------------------------------------------------------
(***************************************************************************)
(* That a scan finds the newest sentence rests on where each byte of the   *)
(* ring is from.  Which text that is, and which byte of it, the program    *)
(* keeps nowhere: the invariant says that functions T and P from the age   *)
(* of the ring's bytes, the oldest first, to texts and places exist.       *)
(***************************************************************************)
Dist(p, q) == (p - q) % N
Rot(p, i) == (p + i - 1) % N
W == Dist(wptr, rptr)

(* Within a text the bytes follow each other.                              *)
Follows(T, P, n) ==
    \A a, b \in 1..n : a < b =>
        /\ P[a] + (b - a) <= Len(T[a]) => T[b] = T[a] /\ P[b] = P[a] + (b - a)
        /\ P[b] > b - a => T[a] = T[b] /\ P[a] = P[b] - (b - a)

(* A 0 stands for a byte that nothing was stored in.                       *)
Stored(T, P, a) ==
    /\ P[a] <= Len(T[a])
    /\ P[a] = 0 => T[a] = <<>>
    /\ P[a] # 0 => ring[Rot(wptr, a)] = T[a][P[a]]
    /\ a > N - W => P[a] # 0
Sending(T, P) ==
    /\ Len(out) = Len(T[N]) - P[N]
    /\ \A i \in 1..Len(out) : out[i] = T[N][P[N] + i]
History(T, P) ==
    /\ T \in [1..N -> Sent \cup {<<>>}] /\ P \in [1..N -> Nat]
    /\ \A a \in 1..N : Stored(T, P, a)
    /\ Follows(T, P, N)
    /\ Sending(T, P)

HistoryInv == \E T, P : History(T, P)

(* The ring's arithmetic.                                                  *)
LEMMA Mod ==
  ASSUME NEW x \in Int, -N <= x, x < 2 * N
  PROVE  x % N = IF x < 0 THEN x + N ELSE IF x < N THEN x ELSE x - N
<1>1. N \in Nat \ {0}
  BY RingAssumption
<1>2. CASE x < 0
  <2>1. x = (-1) * N + (x + N) /\ x + N \in 0..N - 1
    BY <1>1, <1>2
  <2> QED
    BY <1>1, <1>2, <2>1
<1>3. CASE 0 <= x /\ x < N
  BY <1>1, <1>3
<1>4. CASE N <= x
  <2>1. x = 1 * N + (x - N) /\ x - N \in 0..N - 1
    BY <1>1, <1>4
  <2> QED
    BY <1>1, <1>4, <2>1
<1> QED
  BY <1>1, <1>2, <1>3, <1>4

LEMMA WrapIsRot ==
  ASSUME NEW i \in 0..N - 1
  PROVE  Wrap(i + 1) = Rot(i, 2)
BY Mod, RingAssumption DEF Wrap, Rot

LEMMA Rotated ==
  ASSUME NEW p \in 0..N - 1, NEW i \in 1..N
  PROVE  Rot(p, i) = IF p + i - 1 < N THEN p + i - 1 ELSE p + i - 1 - N
<1>1. PICK x \in Int : x = p + i - 1
  BY RingAssumption
<1> QED
  BY <1>1, Mod, RingAssumption DEF Rot

LEMMA Distance ==
  ASSUME NEW p \in 0..N, NEW q \in 0..N - 1
  PROVE  Dist(p, q) = IF p < q THEN p - q + N ELSE IF p - q < N THEN p - q ELSE 0
<1>1. PICK x \in Int : x = p - q
  BY RingAssumption
<1> QED
  BY <1>1, Mod, RingAssumption DEF Dist

LEMMA SentLen ==
  ASSUME NEW t \in Sent \cup {<<>>}
  PROVE  Len(t) \in Nat
BY SentTexts

LEMMA HistoryInit ==
  ASSUME Init PROVE HistoryInv
<1> DEFINE T == [a \in 1..N |-> <<>>]
           P == [a \in 1..N |-> 0]
<1>1. N \in Nat \ {0} /\ Len(<<>>) = 0 /\ N \in 1..N
  BY RingAssumption
<1>2. T \in [1..N -> Sent \cup {<<>>}] /\ P \in [1..N -> Nat]
  OBVIOUS
<1>3. W = 0
  BY <1>1, Distance DEF Init, W
<1>4. \A a \in 1..N : Stored(T, P, a)
  BY <1>1, <1>3 DEF Stored
<1>5. Follows(T, P, N)
  BY <1>1 DEF Follows
<1>6. Sending(T, P)
  BY <1>1 DEF Init, Sending
<1>7. History(T, P)
  BY <1>2, <1>4, <1>5, <1>6 DEF History
<1> QED
  BY <1>7 DEF HistoryInv

(* A byte is stored: all others grow older by one.                         *)
Older(F, x) == [a \in 1..N |-> IF a < N THEN F[a + 1] ELSE x]

LEMMA HistoryShifts ==
  ASSUME NEW T, NEW P, History(T, P), NEW u \in Sent, NEW q \in 1..Len(u),
         q = 1 => Len(T[N]) = P[N],
         q # 1 => T[N] = u /\ P[N] = q - 1
  PROVE  Follows(Older(T, u), Older(P, q), N)
<1> DEFINE T1 == Older(T, u)
           P1 == Older(P, q)
<1>1. N \in Nat \ {0} /\ q \in Nat \ {0} /\ Len(u) \in Nat /\ q <= Len(u)
  BY RingAssumption, SentTexts
<1>2. /\ \A a \in 1..N : P[a] \in Nat /\ Len(T[a]) \in Nat
      /\ Follows(T, P, N)
  BY SentLen DEF History
<1>3. SUFFICES ASSUME NEW a \in 1..N, NEW b \in 1..N, a < b
               PROVE  /\ P1[a] + (b - a) <= Len(T1[a])
                            => T1[b] = T1[a] /\ P1[b] = P1[a] + (b - a)
                      /\ P1[b] > b - a => T1[a] = T1[b] /\ P1[a] = P1[b] - (b - a)
  BY DEF Follows
<1>4. a < N /\ T1[a] = T[a + 1] /\ P1[a] = P[a + 1] /\ a + 1 \in 1..N
  BY <1>1, <1>3 DEF Older
<1>5. CASE b < N
  <2>1. T1[b] = T[b + 1] /\ P1[b] = P[b + 1] /\ b + 1 \in 1..N
        /\ a + 1 < b + 1 /\ (b + 1) - (a + 1) = b - a
    BY <1>1, <1>3, <1>5 DEF Older
  <2> QED
    BY <1>2, <1>4, <2>1 DEF Follows
<1>6. CASE b = N
  <2>1. T1[b] = u /\ P1[b] = q
    BY <1>1, <1>6 DEF Older
  <2>2. CASE a + 1 = N
    BY <1>1, <1>2, <1>4, <1>6, <2>1, <2>2
  <2>3. CASE a + 1 < N
    <3> DEFINE d == N - (a + 1)
    <3>1. d \in Nat \ {0} /\ b - a = d + 1 /\ N \in 1..N
      BY <1>1, <1>4, <1>6, <2>3
    <3>2. /\ P[a + 1] + d <= Len(T[a + 1])
                => T[N] = T[a + 1] /\ P[N] = P[a + 1] + d
          /\ P[N] > d => T[a + 1] = T[N] /\ P[a + 1] = P[N] - d
      BY <1>2, <1>4, <2>3, <3>1 DEF Follows
    <3>3. P[a + 1] \in Nat /\ Len(T[a + 1]) \in Nat /\ P[N] \in Nat
          /\ Len(T[N]) \in Nat
      BY <1>2, <1>4, <3>1
    <3>6. PICK p \in Nat : p = P[a + 1]
      BY <3>3
    <3>7. PICK n \in Nat : n = Len(T[a + 1])
      BY <3>3
    <3> HIDE DEF d, T1, P1
    <3>4. ASSUME P1[a] + (b - a) <= Len(T1[a])
          PROVE  T1[b] = T1[a] /\ P1[b] = P1[a] + (b - a)
      <4>1. P1[a] = p /\ Len(T1[a]) = n /\ b - a = d + 1
        BY <1>4, <3>1, <3>6, <3>7
      <4>2. p + (d + 1) <= n /\ p + d <= n
        <5>1. p + (d + 1) <= n
          BY <3>4, <4>1
        <5> QED
          BY <3>1, <5>1
      <4>3. T[N] = T[a + 1] /\ P[N] = p + d
        BY <3>2, <3>6, <3>7, <4>2
      <4>4. q # 1
        <5>1. Len(T[N]) = n /\ P[N] < n
          BY <3>1, <3>7, <4>2, <4>3
        <5> QED
          BY <5>1
      <4>5. u = T[a + 1] /\ q - 1 = p + d
        BY <4>3, <4>4
      <4>6. q = p + (d + 1)
        BY <1>1, <3>1, <4>5
      <4> QED
        BY <1>4, <2>1, <4>1, <4>5, <4>6
    <3>5. ASSUME P1[b] > b - a
          PROVE  T1[a] = T1[b] /\ P1[a] = P1[b] - (b - a)
      <4>1. q > d + 1
        BY <2>1, <3>1, <3>5
      <4>2. q # 1
        BY <1>1, <3>1, <4>1
      <4>3. T[N] = u /\ P[N] = q - 1 /\ P[N] > d
        BY <1>1, <3>1, <4>1, <4>2
      <4>4. T[a + 1] = u /\ P[a + 1] = q - 1 - d
        BY <3>2, <4>3
      <4> QED
        BY <1>1, <1>4, <2>1, <3>1, <4>4
    <3> QED
      BY <3>4, <3>5
  <2> QED
    BY <1>1, <1>4, <2>2, <2>3
<1> QED
  BY <1>1, <1>3, <1>5, <1>6

LEMMA HistoryArrives ==
  ASSUME IInv, HistoryInv, UART1 PROVE HistoryInv'
<1>1. PICK T, P : History(T, P)
  BY DEF HistoryInv
<1>2. PICK t \in IF out # <<>> THEN {out} ELSE Sent :
        Store(Head(t)) /\ out' = Tail(t)
  BY DEF UART1
<1>3. /\ N \in Nat \ {0} /\ N \in 1..N /\ wptr \in 0..N - 1 /\ rptr \in 0..N - 1
      /\ rptr' = rptr
  BY RingAssumption DEF IInv, TypeOK, UART1
<1>0. ring \in [0..N - 1 -> Byte \cup {Empty}] /\ out \in Seq(Byte)
  BY DEF IInv, TypeOK
<1>4. /\ \A a \in 1..N : P[a] \in Nat /\ T[a] \in Sent \cup {<<>>} /\ Len(T[a]) \in Nat
      /\ \A a \in 1..N : Stored(T, P, a)
      /\ Sending(T, P)
  BY <1>1, SentLen DEF History
<1>u. PICK u : u = IF out # <<>> THEN T[N] ELSE t
  OBVIOUS
<1>q. PICK q : q = IF out # <<>> THEN P[N] + 1 ELSE 1
  OBVIOUS
<1> DEFINE T1 == Older(T, u)
           P1 == Older(P, q)
<1>5. /\ u \in Sent /\ q \in 1..Len(u) /\ Len(u) \in Nat
      /\ q = 1 => Len(T[N]) = P[N]
      /\ q # 1 => T[N] = u /\ P[N] = q - 1
      /\ Head(t) = u[q]
      /\ Len(Tail(t)) = Len(u) - q
      /\ \A i \in 1..Len(Tail(t)) : Tail(t)[i] = u[q + i]
  <2>1. CASE out # <<>>
    <3>1. t = out /\ u = T[N] /\ q = P[N] + 1
      BY <1>2, <1>u, <1>q, <2>1
    <3>2. Len(out) \in Nat \ {0}
      BY <1>0, <2>1
    <3>3. Len(out) = Len(T[N]) - P[N] /\ P[N] \in Nat /\ Len(T[N]) \in Nat
      BY <1>3, <1>4 DEF Sending
    <3>4. T[N] # <<>> /\ P[N] # 0
      <4>1. Len(T[N]) # 0
        BY <3>2, <3>3
      <4>2. T[N] # <<>>
        BY <4>1
      <4> QED
        BY <1>3, <1>4, <4>2 DEF Stored
    <3>5. Head(out) = out[1] /\ Len(Tail(out)) = Len(out) - 1
          /\ \A i \in 1..Len(Tail(out)) : Tail(out)[i] = out[i + 1]
      BY <1>0, <2>1
    <3>6. \A i \in 1..Len(out) : out[i] = T[N][P[N] + i]
      BY <1>4 DEF Sending
    <3>7. u \in Sent /\ Len(u) \in Nat /\ q \in 1..Len(u) /\ q # 1
      BY <1>3, <1>4, <3>1, <3>2, <3>3, <3>4
    <3>8. Head(t) = u[q]
      BY <3>1, <3>2, <3>5, <3>6
    <3>9. Len(Tail(t)) = Len(u) - q
      BY <3>1, <3>2, <3>3, <3>5
    <3>10. ASSUME NEW i \in 1..Len(Tail(t)) PROVE Tail(t)[i] = u[q + i]
      <4>1. i \in Nat /\ i + 1 \in 1..Len(out) /\ Tail(t)[i] = out[i + 1]
        BY <3>1, <3>2, <3>5
      <4>2. out[i + 1] = T[N][P[N] + (i + 1)]
        BY <3>6, <4>1
      <4>3. P[N] + (i + 1) = q + i
        <5>1. P[N] \in Nat /\ q = P[N] + 1 /\ i \in Nat
          BY <3>1, <3>3, <4>1
        <5> QED
          BY <5>1
      <4> QED
        BY <3>1, <4>1, <4>2, <4>3
    <3> QED
      BY <3>1, <3>3, <3>7, <3>8, <3>9, <3>10
  <2>2. CASE out = <<>>
    <3>1. t \in Sent /\ u = t /\ q = 1
      BY <1>2, <1>u, <1>q, <2>2
    <3>2. t \in Seq(Byte) /\ t # <<>> /\ Len(t) \in Nat \ {0}
      BY <3>1, SentTexts
    <3>3. Len(out) = 0 /\ Len(T[N]) = P[N]
      BY <1>3, <1>4, <2>2 DEF Sending
    <3>4. Head(t) = t[1] /\ Len(Tail(t)) = Len(t) - 1
          /\ \A i \in 1..Len(Tail(t)) : Tail(t)[i] = t[1 + i]
      BY <3>2
    <3> QED
      BY <3>1, <3>2, <3>3, <3>4
  <2> QED
    BY <2>1, <2>2
<1>6. Follows(T1, P1, N)
  BY <1>1, <1>5, HistoryShifts
<1>7. T1 \in [1..N -> Sent \cup {<<>>}] /\ P1 \in [1..N -> Nat]
  <2>1. \A a \in 1..N : a < N => a + 1 \in 1..N
    BY <1>3
  <2>2. \A a \in 1..N : (IF a < N THEN T[a + 1] ELSE u) \in Sent \cup {<<>>}
    BY <1>4, <1>5, <2>1
  <2>3. \A a \in 1..N : (IF a < N THEN P[a + 1] ELSE q) \in Nat
    BY <1>4, <1>5, <2>1
  <2> QED
    BY <2>2, <2>3 DEF Older
<1>8. ring' = [ring EXCEPT ![wptr] = u[q]] /\ wptr' = Rot(wptr, 2)
  <2>1. ring' = [ring EXCEPT ![wptr] = Head(t)] /\ wptr' = Wrap(wptr + 1)
    BY <1>2 DEF Store
  <2>2. Wrap(wptr + 1) = Rot(wptr, 2)
    BY <1>3, WrapIsRot
  <2> QED
    BY <1>5, <2>1, <2>2
<1>9. ASSUME NEW a \in 1..N PROVE Stored(T1, P1, a)'
  <2>0. wptr' = IF wptr + 1 < N THEN wptr + 1 ELSE 0
    <3>1. CASE N = 1
      BY <1>2, <1>3, <3>1 DEF Store, Wrap
    <3>2. CASE N # 1
      BY <1>2, <1>3, <3>2 DEF Store, Wrap
    <3> QED
      BY <3>1, <3>2
  <2>1. Rot(wptr', a) = IF a = N THEN wptr ELSE Rot(wptr, a + 1)
    <3>1. wptr' \in 0..N - 1
      BY <1>3, <2>0
    <3>2. Rot(wptr', a) = IF wptr' + a - 1 < N THEN wptr' + a - 1 ELSE wptr' + a - 1 - N
      BY <3>1, Rotated
    <3>3. CASE a = N
      BY <1>3, <2>0, <3>2, <3>3
    <3>4. CASE a # N
      <4>1. a + 1 \in 1..N
        BY <1>3, <3>4
      <4>2. Rot(wptr, a + 1) = IF wptr + a < N THEN wptr + a ELSE wptr + a - N
        <5>1. Rot(wptr, a + 1) = IF wptr + (a + 1) - 1 < N THEN wptr + (a + 1) - 1
                                 ELSE wptr + (a + 1) - 1 - N
          BY <1>3, <4>1, Rotated
        <5> QED
          BY <1>3, <5>1
      <4> QED
        BY <1>3, <2>0, <3>2, <3>4, <4>2
    <3> QED
      BY <3>3, <3>4
  <2>2. W' = IF W = N - 1 THEN 0 ELSE W + 1
    <3>1. W = IF wptr < rptr THEN wptr - rptr + N ELSE wptr - rptr
      BY <1>3, Distance DEF W
    <3>2. PICK w \in Int : w = wptr'
      BY <1>3, <2>0
    <3>3. w \in 0..N - 1 /\ w = IF wptr + 1 < N THEN wptr + 1 ELSE 0
      BY <1>3, <2>0, <3>2
    <3>4. W' = Dist(w, rptr)
      BY <1>3, <3>2 DEF W, Dist
    <3>5. Dist(w, rptr) = IF w < rptr THEN w - rptr + N ELSE w - rptr
      BY <1>3, <3>3, Distance
    <3> QED
      BY <1>3, <3>1, <3>3, <3>4, <3>5
  <2>3. W \in 0..N - 1
    <3>1. wptr \in 0..N /\ wptr < N
      BY <1>3
    <3>2. W = IF wptr < rptr THEN wptr - rptr + N
              ELSE IF wptr - rptr < N THEN wptr - rptr ELSE 0
      BY <1>3, <3>1, Distance DEF W
    <3> QED
      BY <1>3, <3>1, <3>2
  <2>4. CASE a = N
    <3>1. T1[a] = u /\ P1[a] = q
      BY <1>3, <2>4 DEF Older
    <3>2. ring'[wptr] = u[q]
      BY <1>0, <1>3, <1>8
    <3>3. P1[a] <= Len(T1[a]) /\ P1[a] # 0 /\ ring'[Rot(wptr', a)] = T1[a][P1[a]]
      BY <1>5, <2>1, <2>4, <3>1, <3>2
    <3> HIDE DEF T1, P1
    <3> QED
      BY <3>3 DEF Stored, Rot
  <2>5. CASE a # N
    <3>1. a + 1 \in 1..N /\ T1[a] = T[a + 1] /\ P1[a] = P[a + 1]
      BY <1>3, <2>5 DEF Older
    <3>2. Stored(T, P, a + 1)
      BY <1>4, <3>1
    <3>3. Rot(wptr, a + 1) \in 0..N - 1 /\ Rot(wptr, a + 1) # wptr
      <4>1. Rot(wptr, a + 1) = IF wptr + (a + 1) - 1 < N THEN wptr + (a + 1) - 1
                               ELSE wptr + (a + 1) - 1 - N
        BY <1>3, <3>1, Rotated
      <4> QED
        BY <1>3, <2>5, <4>1
    <3>4. ring'[Rot(wptr, a + 1)] = ring[Rot(wptr, a + 1)]
      BY <1>0, <1>3, <1>8, <3>3
    <3>5. a > N - W' => a + 1 > N - W
      BY <1>3, <2>2, <2>3, <2>5
    <3>6. /\ P1[a] <= Len(T1[a])
          /\ P1[a] = 0 => T1[a] = <<>>
          /\ P1[a] # 0 => ring'[Rot(wptr', a)] = T1[a][P1[a]]
          /\ a > N - W' => P1[a] # 0
      BY <2>1, <2>5, <3>1, <3>2, <3>4, <3>5 DEF Stored
    <3> HIDE DEF T1, P1
    <3> QED
      BY <3>6 DEF Stored, Rot
  <2> QED
    BY <2>4, <2>5
<1>10. Sending(T1, P1)'
  <2>1. T1[N] = u /\ P1[N] = q /\ out' = Tail(t)
    BY <1>2, <1>3 DEF Older
  <2> HIDE DEF T1, P1
  <2> QED
    BY <1>5, <2>1 DEF Sending
<1> HIDE DEF T1, P1
<1>11. History(T1, P1)'
  BY <1>6, <1>7, <1>9, <1>10 DEF History, Follows
<1> QED
  BY <1>11 DEF HistoryInv

(* The scan's steps leave the ring, and what is still to come, as it is.   *)
LEMMA HistoryStays ==
  ASSUME IInv, HistoryInv, Scan \/ UNCHANGED vars PROVE HistoryInv'
<1>1. PICK T, P : History(T, P)
  BY DEF HistoryInv
<1>2. ring' = ring /\ wptr' = wptr /\ out' = out
  BY DEF Scan, Start, Test, End, SignLetter, Separator, FieldByte, FieldEnd,
         vars, scanVars
<1>3. N \in Nat \ {0} /\ wptr \in 0..N - 1
  BY RingAssumption DEF IInv, TypeOK
<1>4. W' = W \/ W' = 0
  <2>1. CASE End
    <3>1. W' = Dist(wptr, wptr)
      BY <1>2, <2>1 DEF End, W, Dist
    <3> QED
      BY <1>3, <3>1, Distance
  <2>2. CASE ~End
    <3>1. rptr' = rptr
      BY <2>2 DEF Scan, Start, Test, SignLetter, Separator, FieldByte, FieldEnd,
                  vars, scanVars
    <3> QED
      BY <1>2, <3>1 DEF W
  <2> QED
    BY <2>1, <2>2
<1>5. History(T, P)'
  <2>1. \A a \in 1..N : Stored(T, P, a)'
    BY <1>1, <1>2, <1>3, <1>4 DEF History, Stored
  <2> QED
    BY <1>1, <1>2, <2>1 DEF History, Sending, Follows
<1> QED
  BY <1>5 DEF HistoryInv

----------------------------------------------------------------------------
(***************************************************************************)
(* What arrived since the last scan, when it ends with a whole text: the w *)
(* bytes from r on are those of the texts and places T and P.              *)
(***************************************************************************)
Parsed(T, P, w) ==
    /\ \A i \in 1..w : T[i] \in Sent /\ P[i] \in 1..Len(T[i]) /\ Len(T[i]) - P[i] <= w - i
    /\ Follows(T, P, w)
View(T, P, w, r) ==
    /\ w = W /\ r = rptr /\ Parsed(T, P, w)
    /\ \A i \in 1..w : ring[Rot(r, i)] = T[i][P[i]]

(* A sentence's sign is at place i; a text matches from its sign there on. *)
Own(T, P, k, i) == T[i] \in Texts[k] /\ P[i] = Lead + 1
CutAt(r, k, i) == Rot(r, i) + Len(Sign[k]) > N
Matches(T, P, w, t, i) ==
    /\ i + Len(t) - Lead - 1 <= w
    /\ \A c \in Lead + 1..Len(t) :
           T[i + c - Lead - 1][P[i + c - Lead - 1]] = t[c]

LEMMA ViewExists ==
  ASSUME IInv, HistoryInv, out = <<>>
  PROVE  \E T, P : View(T, P, W, rptr)
<1>1. PICK T, P : History(T, P)
  BY DEF HistoryInv
<1>2. N \in Nat \ {0} /\ N \in 1..N /\ wptr \in 0..N - 1 /\ rptr \in 0..N - 1
  BY RingAssumption DEF IInv, TypeOK
<1>3. PICK w : w = W
  OBVIOUS
<1>4. w = IF wptr < rptr THEN wptr - rptr + N ELSE wptr - rptr
  BY <1>2, <1>3, Distance DEF W
<1>5. w \in 0..N - 1
  BY <1>2, <1>4
<1> DEFINE S == [i \in 1..w |-> T[N - w + i]]
           Q == [i \in 1..w |-> P[N - w + i]]
<1>6. /\ \A a \in 1..N : P[a] \in Nat /\ T[a] \in Sent \cup {<<>>} /\ Len(T[a]) \in Nat
      /\ \A a \in 1..N : Stored(T, P, a)
      /\ Follows(T, P, N)
      /\ Len(T[N]) = P[N]
  <2>1. Len(out) = 0
    OBVIOUS
  <2> QED
    BY <1>1, <1>2, <2>1, SentLen DEF History, Sending
<1>7. \A i \in 1..w : /\ N - w + i \in 1..N /\ S[i] = T[N - w + i] /\ Q[i] = P[N - w + i]
  BY <1>2, <1>5
<1> HIDE DEF S, Q
<1>8. ASSUME NEW i \in 1..w
      PROVE  S[i] \in Sent /\ Q[i] \in 1..Len(S[i]) /\ Len(S[i]) - Q[i] <= w - i
  <2>1. PICK a \in 1..N : a = N - w + i
    BY <1>7
  <2>2. S[i] = T[a] /\ Q[i] = P[a] /\ a > N - w /\ N - a = w - i
    BY <1>2, <1>5, <1>7, <2>1
  <2>3. P[a] # 0 /\ P[a] <= Len(T[a])
    BY <1>3, <1>6, <2>1, <2>2 DEF Stored
  <2>4. T[a] \in Sent
    <3>1. Len(T[a]) # 0
      BY <1>6, <2>1, <2>3
    <3> QED
      BY <1>6, <2>1, <3>1
  <2>5. Len(T[a]) - P[a] <= N - a
    <3>1. CASE a = N
      BY <1>2, <1>6, <2>1, <3>1
    <3>2. CASE a # N
      <4>1. a < N
        BY <1>2, <2>1, <3>2
      <4>2. P[a] + (N - a) <= Len(T[a]) => T[N] = T[a] /\ P[N] = P[a] + (N - a)
        BY <1>2, <1>6, <2>1, <4>1 DEF Follows
      <4>3. P[a] \in Nat /\ Len(T[a]) \in Nat /\ N - a \in Nat
        BY <1>2, <1>6, <2>1, <4>1
      <4>4. CASE P[a] + (N - a) <= Len(T[a])
        BY <1>6, <4>2, <4>3, <4>4
      <4>5. CASE ~(P[a] + (N - a) <= Len(T[a]))
        BY <4>3, <4>5
      <4> QED
        BY <4>4, <4>5
    <3> QED
      BY <3>1, <3>2
  <2> QED
    BY <1>6, <2>1, <2>2, <2>3, <2>4, <2>5
<1>9. Follows(S, Q, w)
  <2>1. SUFFICES ASSUME NEW i \in 1..w, NEW j \in 1..w, i < j
                 PROVE  /\ Q[i] + (j - i) <= Len(S[i]) => S[j] = S[i] /\ Q[j] = Q[i] + (j - i)
                        /\ Q[j] > j - i => S[i] = S[j] /\ Q[i] = Q[j] - (j - i)
    BY DEF Follows
  <2>2. PICK a \in 1..N : a = N - w + i
    BY <1>7
  <2>3. PICK b \in 1..N : b = N - w + j
    BY <1>7
  <2>4. a < b /\ b - a = j - i
    BY <1>2, <1>5, <2>1, <2>2, <2>3
  <2>5. /\ P[a] + (b - a) <= Len(T[a]) => T[b] = T[a] /\ P[b] = P[a] + (b - a)
        /\ P[b] > b - a => T[a] = T[b] /\ P[a] = P[b] - (b - a)
    BY <1>6, <2>4 DEF Follows
  <2> QED
    BY <1>7, <2>2, <2>3, <2>4, <2>5
<1>10. ASSUME NEW i \in 1..w PROVE ring[Rot(rptr, i)] = S[i][Q[i]]
  <2>1. PICK a \in 1..N : a = N - w + i
    BY <1>7
  <2>2. Rot(rptr, i) = Rot(wptr, a)
    <3>1. i \in 1..N
      BY <1>2, <1>5
    <3>2. Rot(rptr, i) = IF rptr + i - 1 < N THEN rptr + i - 1 ELSE rptr + i - 1 - N
      BY <1>2, <3>1, Rotated
    <3>3. Rot(wptr, a) = IF wptr + a - 1 < N THEN wptr + a - 1 ELSE wptr + a - 1 - N
      BY <1>2, Rotated
    <3> QED
      BY <1>2, <1>4, <1>5, <2>1, <3>2, <3>3
  <2>3. S[i] = T[a] /\ Q[i] = P[a] /\ a > N - w
    BY <1>2, <1>5, <1>7, <2>1
  <2>4. ring[Rot(wptr, a)] = T[a][P[a]]
    BY <1>3, <1>6, <2>1, <2>3 DEF Stored
  <2> QED
    BY <2>2, <2>3, <2>4
<1>11. Parsed(S, Q, w)
  BY <1>8, <1>9 DEF Parsed
<1>12. View(S, Q, W, rptr)
  BY <1>3, <1>10, <1>11 DEF View
<1> QED
  BY <1>12

LEMMA KindTexts ==
  ASSUME NEW k \in Kind
  PROVE  /\ Sign[k] \in Seq(Byte) /\ Len(Sign[k]) \in Nat \ {0}
         /\ DOMAIN Sign[k] = 1..Len(Sign[k])
         /\ Lead \in Nat
         /\ \A t \in Texts[k] : /\ t \in Sent /\ Len(t) \in Nat /\ DOMAIN t = 1..Len(t)
                                /\ Lead + Len(Sign[k]) < Len(t)
                                /\ LooksLike(t, k, Lead + 1)
<1>1. Sign[k] \in Seq(Byte) /\ Sign[k] # <<>>
  BY SentenceAssumption
<1>2. \A t \in Texts[k] : t \in Sent
  BY DEF Sent
<1>3. Lead \in Nat
  BY SignAssumption
<1>4. \A t \in Texts[k] : Lead + Len(Sign[k]) < Len(t) /\ LooksLike(t, k, Lead + 1)
  BY SignAssumption
<1> QED
  BY <1>1, <1>2, <1>3, <1>4, SentTexts

(* The bytes that follow in a text, as far as it goes.                     *)
LEMMA Onward ==
  ASSUME NEW T, NEW P, NEW w \in Nat, Parsed(T, P, w), NEW i \in 1..w,
         NEW d \in Nat, P[i] + d <= Len(T[i])
  PROVE  i + d \in 1..w /\ T[i + d] = T[i] /\ P[i + d] = P[i] + d
<1>1. /\ T[i] \in Sent /\ P[i] \in 1..Len(T[i]) /\ Len(T[i]) - P[i] <= w - i
      /\ Follows(T, P, w)
  BY DEF Parsed
<1>2. Len(T[i]) \in Nat /\ P[i] \in Nat
  BY <1>1, SentTexts
<1>3. i + d \in 1..w
  BY <1>1, <1>2
<1>4. CASE d = 0
  BY <1>2, <1>3, <1>4
<1>5. CASE d # 0
  <2>1. i < i + d /\ (i + d) - i = d
    BY <1>5
  <2> QED
    BY <1>1, <1>3, <2>1 DEF Follows
<1> QED
  BY <1>4, <1>5

(* Whatever looks like a sign, as far as the text in the ring goes, is one.*)
LEMMA SignIsOwn ==
  ASSUME NEW T, NEW P, NEW w \in Nat, Parsed(T, P, w), NEW k \in Kind, NEW j \in 1..w,
         \A l \in 1..Len(Sign[k]) :
             j + l - 1 <= w => T[j + l - 1][P[j + l - 1]] = Sign[k][l]
  PROVE  Own(T, P, k, j)
<1>1. T[j] \in Sent /\ P[j] \in 1..Len(T[j])
  BY DEF Parsed
<1>2. Len(T[j]) \in Nat /\ DOMAIN T[j] = 1..Len(T[j]) /\ P[j] \in Nat
  BY <1>1, SentTexts
<1>3. DOMAIN Sign[k] = 1..Len(Sign[k]) /\ Len(Sign[k]) \in Nat
  BY KindTexts
<1>4. ASSUME NEW l \in DOMAIN Sign[k], P[j] + l - 1 \in DOMAIN T[j]
      PROVE  T[j][P[j] + l - 1] = Sign[k][l]
  <2>1. PICK d \in Nat : d = l - 1
    BY <1>3
  <2>2. P[j] + d <= Len(T[j]) /\ P[j] + d = P[j] + l - 1 /\ j + d = j + l - 1
    BY <1>2, <1>3, <1>4, <2>1
  <2>3. j + d \in 1..w /\ T[j + d] = T[j] /\ P[j + d] = P[j] + d
    BY <2>2, Onward
  <2>4. T[j + l - 1][P[j + l - 1]] = Sign[k][l]
    BY <1>3, <2>2, <2>3
  <2> QED
    BY <2>2, <2>3, <2>4
<1>5. LooksLike(T[j], k, P[j])
  BY <1>4 DEF LooksLike
<1>6. P[j] = Lead + 1 /\ T[j] \in Texts[k]
  BY <1>1, <1>2, <1>5, SignAssumption
<1> QED
  BY <1>6 DEF Own

(* And a sign is followed by the whole rest of its text.                   *)
LEMMA OwnGoesOn ==
  ASSUME NEW T, NEW P, NEW w \in Nat, Parsed(T, P, w), NEW k \in Kind, NEW j \in 1..w,
         Own(T, P, k, j)
  PROVE  /\ Matches(T, P, w, T[j], j)
         /\ \A l \in 1..Len(Sign[k]) :
                j + l - 1 \in 1..w /\ T[j + l - 1][P[j + l - 1]] = Sign[k][l]
<1>1. /\ T[j] \in Texts[k] /\ P[j] = Lead + 1 /\ Lead \in Nat
      /\ Len(T[j]) \in Nat /\ DOMAIN T[j] = 1..Len(T[j])
      /\ Lead + Len(Sign[k]) < Len(T[j]) /\ LooksLike(T[j], k, Lead + 1)
      /\ Len(Sign[k]) \in Nat /\ DOMAIN Sign[k] = 1..Len(Sign[k])
  BY KindTexts DEF Own
<1>2. ASSUME NEW c \in Lead + 1..Len(T[j])
      PROVE  /\ j + c - Lead - 1 \in 1..w
             /\ T[j + c - Lead - 1][P[j + c - Lead - 1]] = T[j][c]
  <2>1. PICK d \in Nat : d = c - Lead - 1
    BY <1>1
  <2>2. P[j] + d <= Len(T[j]) /\ P[j] + d = c /\ j + d = j + c - Lead - 1
    BY <1>1, <2>1
  <2> QED
    BY <2>2, Onward
<1>3. j + Len(T[j]) - Lead - 1 <= w
  <2>1. Len(T[j]) \in Lead + 1..Len(T[j])
    BY <1>1
  <2> QED
    BY <1>1, <1>2, <2>1
<1>4. ASSUME NEW l \in 1..Len(Sign[k])
      PROVE  j + l - 1 \in 1..w /\ T[j + l - 1][P[j + l - 1]] = Sign[k][l]
  <2>1. PICK c \in Int : c = Lead + l
    BY <1>1
  <2>a. Len(Sign[k]) \in Nat /\ Len(T[j]) \in Nat /\ Lead \in Nat
        /\ Lead + Len(Sign[k]) < Len(T[j])
    BY <1>1
  <2>2. c \in Lead + 1..Len(T[j]) /\ j + c - Lead - 1 = j + l - 1 /\ Lead + 1 + l - 1 = c
    BY <2>1, <2>a
  <2>3. T[j][c] = Sign[k][l]
    <3>1. Lead + 1 + l - 1 \in DOMAIN T[j] /\ l \in DOMAIN Sign[k]
      BY <1>1, <2>2, <2>a
    <3> QED
      BY <1>1, <2>2, <3>1 DEF LooksLike
  <2> QED
    BY <1>2, <2>2, <2>3
<1> QED
  BY <1>2, <1>3, <1>4 DEF Matches

(* A text has the sign of one sentence only.                               *)
LEMMA OwnOne ==
  ASSUME NEW T, NEW P, NEW i, NEW k \in Kind, NEW m \in Kind,
         Own(T, P, k, i), Own(T, P, m, i)
  PROVE  k = m
BY SignAssumption DEF Own

LEMMA Shorter ==
  ASSUME NEW p \in Int, NEW d \in Int, NEW e \in Int, NEW n \in Int, d <= e, p + e <= n
  PROVE  p + d <= n
OBVIOUS

(* In the middle of a text: where its sign is, and that no other follows.  *)
LEMMA Inside ==
  ASSUME NEW T, NEW P, NEW w \in Nat, Parsed(T, P, w), NEW k \in Kind, NEW x \in 1..w,
         T[x] \in Texts[k], P[x] > Lead + 1,
         NEW j, j = x - P[x] + Lead + 1, j >= 1
  PROVE  /\ j \in 1..w /\ j < x /\ Own(T, P, k, j) /\ T[j] = T[x]
         /\ \A i \in 1..w : j < i /\ i <= x => \A m \in Kind : ~Own(T, P, m, i)
<1>1. /\ P[x] \in 1..Len(T[x]) /\ Len(T[x]) \in Nat /\ Lead \in Nat
      /\ Follows(T, P, w)
  BY KindTexts, SentTexts DEF Parsed
<1>2. j \in 1..w /\ j < x /\ P[x] > x - j /\ P[x] - (x - j) = Lead + 1
  BY <1>1
<1>3. T[j] = T[x] /\ P[j] = Lead + 1
  BY <1>1, <1>2 DEF Follows
<1>4. ASSUME NEW i \in 1..w, j < i, i <= x, NEW m \in Kind, Own(T, P, m, i)
      PROVE  FALSE
  <2>0. i - j <= x - j /\ Lead + 1 + (x - j) = P[x] /\ P[x] <= Len(T[x])
    <3>1. PICK p \in Int : p = P[x]
      BY <1>1
    <3>2. p - (x - j) = Lead + 1 /\ p <= Len(T[x])
      BY <1>1, <1>2, <3>1
    <3>3. i \in Int /\ j \in Int /\ x \in Int /\ Lead \in Int /\ i <= x
      BY <1>1, <1>2, <1>4
    <3>4. i - j <= x - j
      BY <3>3
    <3>5. Lead + 1 + (x - j) = p
      BY <3>2, <3>3
    <3> QED
      BY <3>1, <3>2, <3>4, <3>5
  <2>1. P[j] + (i - j) <= Len(T[j])
    <3>0. Lead \in Int /\ Len(T[x]) \in Int /\ i \in Int /\ j \in Int /\ x \in Int
      BY <1>1, <1>2
    <3>1. Lead + 1 \in Int /\ i - j \in Int /\ x - j \in Int /\ Len(T[x]) \in Int
      BY <3>0
    <3>2. i - j <= x - j /\ (Lead + 1) + (x - j) <= Len(T[x])
      BY <2>0
    <3>3. (Lead + 1) + (i - j) <= Len(T[x])
      BY <3>1, <3>2, Shorter, Zenon
    <3> QED
      BY <1>3, <3>3, Zenon
  <2>2. P[i] = P[j] + (i - j)
    BY <1>1, <1>2, <1>4, <2>1 DEF Follows
  <2> QED
    BY <1>1, <1>2, <1>3, <1>4, <2>2 DEF Own
<1> QED
  BY <1>2, <1>3, <1>4 DEF Own

----------------------------------------------------------------------------
(***************************************************************************)
(* A text of sentence k is being read, and the byte that comes next is its *)
(* c-th: ph, m, s and b are pc, at, sepcnt and buf.                        *)
(***************************************************************************)
Reading(k, t, c, ph, m, s, b) ==
    LET f == Layout[t][m]
    IN  /\ m \in 1..Len(Skip[k])
        /\ \A i \in 1..Len(b) : b[i] = Says[t][i]
        /\ ph = "skip" => /\ From(t, m) <= c /\ c < f.from
                          /\ s = Seps(t, From(t, m), c - 1)
                          /\ Len(b) = f.said
        /\ ph = "field" => /\ f.from <= c /\ c <= f.to
                           /\ Len(b) = f.said + c - f.from

(* Counting separators byte by byte.                                       *)
LEMMA SepsFinite ==
  ASSUME NEW t, NEW a \in Int, NEW b \in Int
  PROVE  IsFiniteSet({i \in a..b : t[i] = Sep}) /\ Seps(t, a, b) \in Nat
<1>1. IsFiniteSet(a..b)
  BY FS_Interval
<1>2. IsFiniteSet({i \in a..b : t[i] = Sep})
  BY <1>1, FS_Subset
<1> QED
  BY <1>2, FS_CardinalityType DEF Seps

LEMMA SepsNone ==
  ASSUME NEW t, NEW a \in Int
  PROVE  Seps(t, a, a - 1) = 0
<1>1. {i \in a..a - 1 : t[i] = Sep} = {}
  OBVIOUS
<1> QED
  BY <1>1, FS_EmptySet DEF Seps

LEMMA SepsNext ==
  ASSUME NEW t, NEW a \in Int, NEW b \in Int, a <= b
  PROVE  Seps(t, a, b) = Seps(t, a, b - 1) + (IF t[b] = Sep THEN 1 ELSE 0)
<1> DEFINE S == {i \in a..b - 1 : t[i] = Sep}
<1>1. IsFiniteSet(S) /\ Seps(t, a, b - 1) = Cardinality(S) /\ Cardinality(S) \in Nat
  BY SepsFinite DEF Seps
<1>2. CASE t[b] = Sep
  <2>1. {i \in a..b : t[i] = Sep} = S \cup {b} /\ b \notin S
    BY <1>2
  <2>2. Cardinality(S \cup {b}) = Cardinality(S) + 1
    BY <1>1, <2>1, FS_AddElement
  <2> QED
    BY <1>1, <1>2, <2>1, <2>2 DEF Seps
<1>3. CASE t[b] # Sep
  <2>1. {i \in a..b : t[i] = Sep} = S
    BY <1>3
  <2> QED
    BY <1>1, <1>3, <2>1 DEF Seps
<1> QED
  BY <1>2, <1>3

LEMMA SepsGrow ==
  ASSUME NEW t, NEW a \in Int, NEW b \in Int, NEW c \in Int, b <= c
  PROVE  Seps(t, a, b) <= Seps(t, a, c)
<1>1. {i \in a..b : t[i] = Sep} \subseteq {i \in a..c : t[i] = Sep}
  OBVIOUS
<1>2. IsFiniteSet({i \in a..c : t[i] = Sep})
  BY SepsFinite
<1> QED
  BY <1>1, <1>2, FS_Subset DEF Seps

(* Where a field of a text is.                                             *)
LEMMA FieldLaid ==
  ASSUME NEW k \in Kind, NEW t \in Texts[k], NEW m \in 1..Len(Skip[k])
  PROVE  /\ Layout[t][m].from \in 1..Len(t) /\ Layout[t][m].to \in 1..Len(t)
         /\ Layout[t][m].said \in Nat /\ From(t, m) \in Int
         /\ From(t, m) < Layout[t][m].from /\ Layout[t][m].from <= Layout[t][m].to
         /\ Seps(t, From(t, m), Layout[t][m].from - 1) = Skip[k][m]
         /\ t[Layout[t][m].from - 1] = Sep /\ t[Layout[t][m].to] = Sep
         /\ \A i \in Layout[t][m].from..Layout[t][m].to - 1 :
                /\ t[i] # Sep
                /\ Says[t][Layout[t][m].said + i - Layout[t][m].from + 1] = t[i]
         /\ m = 1 => Layout[t][m].said = 0 /\ From(t, m) = Lead + 2
         /\ m # 1 => /\ Layout[t][m].said = Layout[t][m - 1].said + Layout[t][m - 1].to
                                              - Layout[t][m - 1].from
                     /\ From(t, m) = Layout[t][m - 1].to
         /\ m = Len(Skip[k]) => Len(Says[t]) = Layout[t][m].said + Layout[t][m].to
                                                 - Layout[t][m].from
         /\ Says[t] \in Seq(Byte)
<1>1. WellLaid(t, k)
  BY LayoutAssumption
<1>2. DOMAIN t = 1..Len(t) /\ Lead \in Nat
  BY KindTexts
<1>3. Layout[t] \in [1..Len(Skip[k]) -> [from : DOMAIN t, to : DOMAIN t, said : Nat]]
  BY <1>1 DEF WellLaid
<1>4. /\ Layout[t][m].from \in 1..Len(t) /\ Layout[t][m].to \in 1..Len(t)
      /\ Layout[t][m].said \in Nat
  BY <1>2, <1>3
<1>5. From(t, m) \in Int
  <2>1. Skip[k] \in Seq(Nat \ {0})
    BY SentenceAssumption
  <2>2. m # 1 => m - 1 \in 1..Len(Skip[k])
    BY <2>1
  <2>3. m # 1 => Layout[t][m - 1].to \in DOMAIN t
    BY <1>3, <2>2
  <2> QED
    BY <1>2, <2>3 DEF From
<1> QED
  BY <1>1, <1>4, <1>5 DEF WellLaid, From

LEMMA FieldSays ==
  ASSUME NEW k \in Kind, NEW t \in Texts[k], NEW m \in 1..Len(Skip[k])
  PROVE  \A i \in Layout[t][m].from..Layout[t][m].to - 1 :
             Says[t][Layout[t][m].said + i - Layout[t][m].from + 1] = t[i]
BY LayoutAssumption DEF WellLaid

LEMMA Fields ==
  ASSUME NEW k \in Kind, NEW t \in Texts[k], NEW m \in 1..Len(Skip[k])
  PROVE  /\ Layout[t][m].from \in Nat /\ Layout[t][m].to \in Nat
         /\ Layout[t][m].said \in Nat /\ From(t, m) \in Int /\ Len(t) \in Nat
<1>1. /\ Layout[t][m].from \in 1..Len(t) /\ Layout[t][m].to \in 1..Len(t)
      /\ Layout[t][m].said \in Nat /\ From(t, m) \in Int
  BY FieldLaid
<1>2. Len(t) \in Nat
  BY KindTexts
<1> QED
  BY <1>1, <1>2

(* The steps of the reading.                                               *)
LEMMA ReadingBegins ==
  ASSUME NEW k \in Kind, NEW t \in Texts[k]
  PROVE  Reading(k, t, Lead + 2, "skip", 1, 0, <<>>)
<1>1. 1 \in 1..Len(Skip[k])
  BY SentenceAssumption
<1>2. Lead \in Nat
  BY KindTexts
<1>3. From(t, 1) = Lead + 2 /\ Layout[t][1].said = 0 /\ Lead + 2 < Layout[t][1].from
  BY <1>1, FieldLaid
<1>4. Seps(t, Lead + 2, (Lead + 2) - 1) = 0
  BY <1>2, SepsNone
<1>5. Len(<<>>) = 0
  OBVIOUS
<1> QED
  BY <1>1, <1>2, <1>3, <1>4, <1>5 DEF Reading

LEMMA ReadingSeparator ==
  ASSUME NEW k \in Kind, NEW t \in Texts[k], NEW c \in Nat, NEW m, NEW s, NEW b,
         Reading(k, t, c, "skip", m, s, b), NEW n, n = s + (IF t[c] = Sep THEN 1 ELSE 0)
  PROVE  /\ c + 1 <= Len(t)
         /\ n = Skip[k][m] => Reading(k, t, c + 1, "field", m, 0, b)
         /\ n # Skip[k][m] => Reading(k, t, c + 1, "skip", m, n, b)
<1>1. /\ m \in 1..Len(Skip[k]) /\ \A i \in 1..Len(b) : b[i] = Says[t][i]
      /\ From(t, m) <= c /\ c < Layout[t][m].from
      /\ s = Seps(t, From(t, m), c - 1) /\ Len(b) = Layout[t][m].said
  BY DEF Reading
<1>a. PICK from \in Nat : from = Layout[t][m].from
  BY <1>1, Fields
<1>b. PICK to \in Nat : to = Layout[t][m].to
  BY <1>1, Fields
<1>d. PICK base \in Int : base = From(t, m)
  BY <1>1, Fields
<1>2. from = Layout[t][m].from /\ to = Layout[t][m].to /\ base = From(t, m)
  BY <1>a, <1>b, <1>d
<1>f. /\ Layout[t][m].from \in 1..Len(t) /\ Layout[t][m].from <= Layout[t][m].to
      /\ From(t, m) < Layout[t][m].from
      /\ Seps(t, From(t, m), Layout[t][m].from - 1) = Skip[k][m]
      /\ t[Layout[t][m].from - 1] = Sep
  BY <1>1, FieldLaid
<1>g. Len(t) \in Nat
  BY <1>1, Fields
<1>3. /\ base <= c /\ c < from /\ from <= to /\ base < from
      /\ Seps(t, base, from - 1) = Skip[k][m] /\ t[from - 1] = Sep
      /\ from <= Len(t) /\ Len(t) \in Nat
  BY <1>1, <1>2, <1>f, <1>g
<1>e. from \in Int /\ base \in Int /\ from - 1 \in Int /\ (from - 1) - 1 \in Int /\ c \in Int
      /\ base <= from - 1
  <2>1. from \in Int /\ base \in Int /\ base < from
    BY <1>a, <1>d, <1>3
  <2> QED
    BY <2>1
<1>4. n = Seps(t, base, c)
  BY <1>1, <1>2, <1>3, SepsNext
<1>5. (c + 1) - 1 = c /\ c + 1 <= from /\ c + 1 <= Len(t)
  BY <1>3
<1>6. ASSUME n = Skip[k][m] PROVE Reading(k, t, c + 1, "field", m, 0, b)
  <2>1. c + 1 = from
    <3>1. SUFFICES ASSUME c + 1 < from PROVE FALSE
      BY <1>5
    <3>2. Seps(t, base, from - 1) = Seps(t, base, (from - 1) - 1) + 1
      BY <1>3, <1>e, SepsNext
    <3>3. Seps(t, base, c) <= Seps(t, base, (from - 1) - 1)
      <4>1. c <= (from - 1) - 1
        BY <1>3, <1>e, <3>1
      <4> QED
        BY <1>e, <4>1, SepsGrow
    <3>4. Seps(t, base, c) \in Nat /\ Seps(t, base, (from - 1) - 1) \in Nat
      BY <1>e, SepsFinite
    <3> QED
      BY <1>3, <1>4, <1>6, <3>2, <3>3, <3>4
  <2>2. Len(b) = Layout[t][m].said + (c + 1) - Layout[t][m].from
    <3>1. Layout[t][m].said \in Nat
      BY <1>1, FieldLaid
    <3>2. (c + 1) - Layout[t][m].from = 0
      BY <1>2, <2>1
    <3>3. Layout[t][m].said + (c + 1) - Layout[t][m].from
            = Layout[t][m].said + ((c + 1) - Layout[t][m].from)
      BY <1>2, <3>1
    <3> QED
      BY <1>1, <3>1, <3>2, <3>3
  <2>3. Layout[t][m].from <= c + 1 /\ c + 1 <= Layout[t][m].to
    BY <1>2, <1>3, <2>1
  <2> QED
    BY <1>1, <2>2, <2>3 DEF Reading
<1>7. ASSUME n # Skip[k][m] PROVE Reading(k, t, c + 1, "skip", m, n, b)
  <2>1. c # from - 1
    BY <1>3, <1>4, <1>7
  <2>2. c + 1 < from /\ base <= c + 1
    BY <1>3, <2>1
  <2> QED
    BY <1>1, <1>2, <1>4, <1>5, <2>2 DEF Reading
<1> QED
  BY <1>5, <1>6, <1>7

LEMMA ReadingByte ==
  ASSUME NEW k \in Kind, NEW t \in Texts[k], NEW c \in Nat, NEW m, NEW s,
         NEW S, NEW b \in Seq(S), NEW x \in S,
         Reading(k, t, c, "field", m, s, b), x = t[c], x # Sep
  PROVE  c + 1 <= Len(t) /\ Reading(k, t, c + 1, "field", m, s, Append(b, x))
<1>1. /\ m \in 1..Len(Skip[k]) /\ \A i \in 1..Len(b) : b[i] = Says[t][i]
      /\ Layout[t][m].from <= c /\ c <= Layout[t][m].to
      /\ Len(b) = Layout[t][m].said + c - Layout[t][m].from
  BY DEF Reading
<1>0. Len(t) \in Nat
  BY KindTexts
<1>a. PICK from \in Nat : from = Layout[t][m].from
  BY <1>1, Fields
<1>b. PICK to \in Nat : to = Layout[t][m].to
  BY <1>1, Fields
<1>c. PICK said \in Nat : said = Layout[t][m].said
  BY <1>1, Fields
<1>2. from = Layout[t][m].from /\ to = Layout[t][m].to /\ said = Layout[t][m].said
  BY <1>a, <1>b, <1>c
<1>3. /\ from <= c /\ c < to /\ to <= Len(t) /\ Len(t) \in Nat
      /\ Says[t][said + c - from + 1] = t[c]
  <2>1. t[to] = Sep /\ to <= Len(t) /\ Len(t) \in Nat
    <3>1. t[to] = Sep
      BY <1>1, <1>2, FieldLaid
    <3>2. to \in 1..Len(t)
      BY <1>1, <1>2, FieldLaid
    <3> QED
      BY <1>0, <3>1, <3>2
  <2>2. c \in from..to - 1
    BY <1>1, <1>2, <2>1
  <2>3. Says[t][said + c - from + 1] = t[c]
    <3>0. \A i \in Layout[t][m].from..Layout[t][m].to - 1 :
              Says[t][Layout[t][m].said + i - Layout[t][m].from + 1] = t[i]
      BY <1>1, FieldSays
    <3>1. \A i \in from..to - 1 : Says[t][said + i - from + 1] = t[i]
      BY <1>2, <3>0
    <3> QED
      BY <2>2, <3>1
  <2> QED
    BY <2>1, <2>2, <2>3
<1>4. /\ Len(Append(b, x)) = Len(b) + 1 /\ Len(b) \in Nat
      /\ \A i \in 1..Len(b) : Append(b, x)[i] = b[i]
      /\ Append(b, x)[Len(b) + 1] = x
  OBVIOUS
<1>5. Len(b) + 1 = said + c - from + 1
  BY <1>1, <1>2
<1>6. \A i \in 1..Len(b) + 1 : Append(b, x)[i] = Says[t][i]
  <2> SUFFICES ASSUME NEW i \in 1..Len(b) + 1 PROVE Append(b, x)[i] = Says[t][i]
    OBVIOUS
  <2>1. CASE i \in 1..Len(b)
    BY <1>1, <1>4, <2>1
  <2>2. CASE i = Len(b) + 1
    BY <1>3, <1>4, <1>5, <2>2
  <2> QED
    BY <1>4, <2>1, <2>2
<1>7. Len(b) + 1 = said + (c + 1) - from /\ from <= c + 1 /\ c + 1 <= to
  BY <1>3, <1>5
<1>8. c + 1 <= Len(t)
  BY <1>3
<1>9. /\ \A i \in 1..Len(Append(b, x)) : Append(b, x)[i] = Says[t][i]
      /\ Len(Append(b, x)) = Layout[t][m].said + (c + 1) - Layout[t][m].from
      /\ Layout[t][m].from <= c + 1 /\ c + 1 <= Layout[t][m].to
  BY <1>2, <1>4, <1>6, <1>7
<1> QED
  BY <1>1, <1>8, <1>9 DEF Reading

LEMMA ReadingEnds ==
  ASSUME NEW k \in Kind, NEW t \in Texts[k], NEW c \in Nat, NEW m, NEW s,
         NEW S, NEW b \in Seq(S), Reading(k, t, c, "field", m, s, b), t[c] = Sep
  PROVE  /\ m \in 1..Len(Skip[k])
         /\ m < Len(Skip[k]) => Reading(k, t, c, "skip", m + 1, 0, b)
         /\ ~(m < Len(Skip[k])) => b = Says[t]
<1>1. /\ m \in 1..Len(Skip[k]) /\ \A i \in 1..Len(b) : b[i] = Says[t][i]
      /\ Layout[t][m].from <= c /\ c <= Layout[t][m].to
      /\ Len(b) = Layout[t][m].said + c - Layout[t][m].from
  BY DEF Reading
<1>2. Len(Skip[k]) \in Nat
  BY SentenceAssumption
<1>3. c = Layout[t][m].to
  <2>1. Layout[t][m].from \in Int /\ Layout[t][m].to \in Int
    BY <1>1, Fields
  <2>2. ~(c \in Layout[t][m].from..Layout[t][m].to - 1)
    BY <1>1, FieldLaid
  <2> QED
    BY <1>1, <2>1, <2>2
<1>4. ASSUME m < Len(Skip[k]) PROVE Reading(k, t, c, "skip", m + 1, 0, b)
  <2>1. m + 1 \in 1..Len(Skip[k]) /\ m + 1 # 1 /\ (m + 1) - 1 = m
    BY <1>1, <1>2, <1>4
  <2>2. /\ Layout[t][m + 1].said = Layout[t][m].said + Layout[t][m].to - Layout[t][m].from
        /\ From(t, m + 1) = Layout[t][m].to
        /\ From(t, m + 1) < Layout[t][m + 1].from
    <3> HIDE DEF Reading
    <3>1. PICK n \in 1..Len(Skip[k]) : n = m + 1
      BY <2>1
    <3>2. n # 1 /\ n - 1 = m
      BY <2>1, <3>1
    <3> QED
      BY <3>1, <3>2, FieldLaid
  <2>3. Seps(t, c, c - 1) = 0
    BY SepsNone
  <2> QED
    BY <1>1, <1>3, <2>1, <2>2, <2>3 DEF Reading
<1>5. ASSUME ~(m < Len(Skip[k])) PROVE b = Says[t]
  <2>1. m = Len(Skip[k])
    BY <1>1, <1>2, <1>5
  <2>2. Len(Says[t]) = Layout[t][m].said + Layout[t][m].to - Layout[t][m].from
        /\ Says[t] \in Seq(Byte)
    BY <1>1, <2>1, FieldLaid
  <2>3. Len(b) = Len(Says[t])
    BY <1>1, <1>3, <2>2
  <2> QED
    BY <1>1, <2>2, <2>3
<1> QED
  BY <1>1, <1>4, <1>5

----------------------------------------------------------------------------
(***************************************************************************)
(* The scan in the window: before place y every sign that the ring's end   *)
(* does not cut, and that no later one of its sentence has replaced, has   *)
(* given its fields, f.                                                    *)
(***************************************************************************)
Done(T, P, w, r, f, y) ==
    \A k \in Kind : \A i \in 1..w :
        /\ i < y /\ Own(T, P, k, i) /\ ~CutAt(r, k, i)
        /\ \A j \in 1..w : i < j /\ j < y => ~Own(T, P, k, j)
        => \A t \in Texts[k] : Matches(T, P, w, t, i) => f[k] = Says[t]

LEMMA DoneFirst ==
  ASSUME NEW T, NEW P, NEW w, NEW r, NEW f
  PROVE  Done(T, P, w, r, f, 1)
BY DEF Done

LEMMA DoneNext ==
  ASSUME NEW T, NEW P, NEW w \in Nat, NEW r, NEW f, NEW x \in 1..w,
         Done(T, P, w, r, f, x),
         \A k \in Kind : Own(T, P, k, x) => CutAt(r, k, x)
  PROVE  Done(T, P, w, r, f, x + 1)
<1> SUFFICES ASSUME NEW k \in Kind, NEW i \in 1..w,
                    i < x + 1, Own(T, P, k, i), ~CutAt(r, k, i),
                    \A j \in 1..w : i < j /\ j < x + 1 => ~Own(T, P, k, j),
                    NEW t \in Texts[k], Matches(T, P, w, t, i)
             PROVE  f[k] = Says[t]
  BY DEF Done
<1>1. i < x
  <2>1. i # x
    OBVIOUS
  <2> QED
    BY <2>1
<1>2. \A j \in 1..w : i < j /\ j < x => ~Own(T, P, k, j)
  OBVIOUS
<1> QED
  BY <1>1, <1>2 DEF Done

(* The sentence at j has been read: it alone gets new fields.              *)
LEMMA DoneRead ==
  ASSUME NEW T, NEW P, NEW w \in Nat, NEW r, NEW S, NEW f \in [Kind -> S], NEW b,
         NEW j \in 1..w, NEW x \in 1..w, j < x, NEW k \in Kind,
         Done(T, P, w, r, f, j), Own(T, P, k, j),
         \A i \in 1..w : j < i /\ i <= x => \A m \in Kind : ~Own(T, P, m, i),
         \A t \in Texts[k] : Matches(T, P, w, t, j) => b = Says[t]
  PROVE  Done(T, P, w, r, [f EXCEPT ![k] = b], x)
<1> SUFFICES ASSUME NEW m \in Kind, NEW i \in 1..w,
                    i < x, Own(T, P, m, i), ~CutAt(r, m, i),
                    \A l \in 1..w : i < l /\ l < x => ~Own(T, P, m, l),
                    NEW t \in Texts[m], Matches(T, P, w, t, i)
             PROVE  [f EXCEPT ![k] = b][m] = Says[t]
  BY DEF Done
<1>1. i <= j
  <2>1. ~(j < i)
    OBVIOUS
  <2> QED
    BY <2>1
<1>2. CASE i = j
  <2>1. m = k
    BY <1>2, OwnOne
  <2> QED
    BY <1>2, <2>1
<1>3. CASE i < j
  <2>1. m # k
    BY <1>3
  <2>2. f[m] = Says[t]
    BY <1>3 DEF Done
  <2> QED
    BY <2>1, <2>2
<1> QED
  BY <1>1, <1>2, <1>3

(* The index and the place in the window that it stands for.               *)
LEMMA PlaceNext ==
  ASSUME NEW r \in 0..N - 1, NEW i \in 0..N - 1, NEW w \in 0..N - 1,
         Dist(i, r) + 1 <= w
  PROVE  Dist(i + 1, r) = Dist(i, r) + 1 /\ Dist(Wrap(i + 1), r) = Dist(i, r) + 1
<1>1. N \in Nat \ {0}
  BY RingAssumption
<1>2. Dist(i, r) = IF i < r THEN i - r + N ELSE i - r
  BY <1>1, Distance
<1>3. PICK n \in 0..N : n = i + 1
  BY <1>1
<1>4. Dist(n, r) = IF n < r THEN n - r + N ELSE IF n - r < N THEN n - r ELSE 0
  BY Distance
<1>5. PICK v \in 0..N : v = Wrap(n)
  BY <1>1, <1>3 DEF Wrap
<1>6. Dist(v, r) = IF v < r THEN v - r + N ELSE IF v - r < N THEN v - r ELSE 0
  BY Distance
<1>7. v = IF n > N - 1 THEN 0 ELSE n
  BY <1>5 DEF Wrap
<1>8. Dist(n, r) = Dist(i, r) + 1
  BY <1>1, <1>2, <1>3, <1>4
<1>9. Dist(v, r) = Dist(i, r) + 1
  BY <1>1, <1>2, <1>3, <1>6, <1>7
<1> QED
  BY <1>3, <1>5, <1>8, <1>9

LEMMA PlaceWrapped ==
  ASSUME NEW r \in 0..N - 1, NEW i \in 0..N
  PROVE  /\ Wrap(i) \in 0..N - 1 /\ Dist(Wrap(i), r) = Dist(i, r)
         /\ Dist(i, r) \in 0..N - 1
<1>1. N \in Nat \ {0}
  BY RingAssumption
<1>2. PICK v \in 0..N - 1 : v = Wrap(i)
  BY WrapInRing
<1>3. v = IF i > N - 1 THEN 0 ELSE i
  BY <1>2 DEF Wrap
<1>4. Dist(i, r) = IF i < r THEN i - r + N ELSE IF i - r < N THEN i - r ELSE 0
  BY Distance
<1>5. v \in 0..N
  BY <1>1
<1>6. Dist(v, r) = IF v < r THEN v - r + N ELSE IF v - r < N THEN v - r ELSE 0
  BY <1>5, Distance
<1>7. Dist(v, r) = Dist(i, r) /\ Dist(i, r) \in 0..N - 1
  BY <1>1, <1>3, <1>4, <1>6
<1> QED
  BY <1>2, <1>7

LEMMA PlaceIndex ==
  ASSUME NEW r \in 0..N - 1, NEW i \in 0..N - 1, NEW l \in Nat \ {0},
         Dist(i, r) + l <= N
  PROVE  Rot(r, Dist(i, r) + l) = IF i + l - 1 < N THEN i + l - 1 ELSE i + l - 1 - N
<1>1. N \in Nat \ {0}
  BY RingAssumption
<1>2. Dist(i, r) = IF i < r THEN i - r + N ELSE i - r
  BY <1>1, Distance
<1>3. PICK x \in 1..N : x = Dist(i, r) + l
  BY <1>1, <1>2
<1>4. Rot(r, x) = IF r + x - 1 < N THEN r + x - 1 ELSE r + x - 1 - N
  BY Rotated
<1> QED
  BY <1>1, <1>2, <1>3, <1>4

LEMMA PlaceAtEnd ==
  ASSUME NEW r \in 0..N - 1, NEW i \in 0..N, NEW v \in 1..N - 1
  PROVE  i = v <=> Dist(i, r) = Dist(v, r)
<1>1. N \in Nat \ {0} /\ v \in 0..N
  BY RingAssumption
<1>2. Dist(i, r) = IF i < r THEN i - r + N ELSE IF i - r < N THEN i - r ELSE 0
  BY Distance
<1>3. Dist(v, r) = IF v < r THEN v - r + N ELSE IF v - r < N THEN v - r ELSE 0
  BY <1>1, Distance
<1> QED
  BY <1>1, <1>2, <1>3

----------------------------------------------------------------------------
(***************************************************************************)
(* Where the scan is, x being the place its index stands for, when nothing *)
(* has come in the meantime.                                               *)
(***************************************************************************)
AtTest(T, P, w, r, x) == x <= w + 1 /\ Done(T, P, w, r, fix, x)
AtSign(T, P, w, r, x) ==
    /\ x <= w /\ Done(T, P, w, r, fix, x)
    /\ \A m \in 1..kind - 1 : Own(T, P, Order[m], x) => CutAt(r, Order[m], x)
    /\ \A l \in 1..at - 1 : ndx + l - 1 < N => ring[ndx + l - 1] = Sign[Order[kind]][l]
AtField(T, P, w, r, x, j) ==
    /\ x <= w /\ j = x - P[x] + Lead + 1 /\ j >= 1
    /\ T[x] \in Texts[Order[kind]] /\ P[x] > Lead + 1
    /\ Done(T, P, w, r, fix, j)
    /\ \A t \in Texts[Order[kind]] :
           Matches(T, P, w, t, j) => Reading(Order[kind], t, P[x], pc, at, sepcnt, buf)
ScanAt(T, P, w, r) ==
    /\ pc = "test" => AtTest(T, P, w, r, Dist(ndx, r) + 1)
    /\ pc = "sign" => AtSign(T, P, w, r, Dist(ndx, r) + 1)
    /\ pc \in {"skip", "field"} => \E j : AtField(T, P, w, r, Dist(ndx, r) + 1, j)
    /\ pc = "end" => Done(T, P, w, r, fix, w + 1)

Calm == arrived = 0 /\ out = <<>> /\ wptr # 0
        /\ ~Misleading({(rptr + i - 1) % N : i \in DOMAIN Window})
ScanGood == pc # "idle" /\ Calm =>
                \A T, P, w, r : View(T, P, w, r) => ScanAt(T, P, w, r)

(* datastr is empty between the fields of two sentences.  With the index   *)
(* at 0 and nothing there to read, the scan has only begun.                *)
Fresh ==
    /\ pc \in {"idle", "test", "sign", "end"} => buf = <<>>
    /\ pc = "test" /\ arrived = 0 /\ ndx = 0 => rptr = 0
    /\ pc = "end" /\ arrived = 0 /\ wptr = 0 => rptr = 0

(* A sentence is left at place x, with fields f.                           *)
LEMMA LeaveAt ==
  ASSUME IInv, Leave, ndx \in 0..N - 1,
         NEW T, NEW P, NEW w \in 0..N - 1, NEW r \in 0..N - 1, Dist(ndx, r) + 1 <= w,
         Done(T, P, w, r, fix', Dist(ndx, r) + 1),
         \A m \in 1..kind : Own(T, P, Order[m], Dist(ndx, r) + 1)
                               => CutAt(r, Order[m], Dist(ndx, r) + 1)
  PROVE  ScanAt(T, P, w, r)'
<1>0. PICK x : x = Dist(ndx, r) + 1
  OBVIOUS
<1>f. PICK f : f = fix'
  OBVIOUS
<1>1. kind \in 1..Len(Order) /\ Len(Order) \in Nat /\ N \in Nat \ {0}
  BY Sentence, RingAssumption DEF IInv, TypeOK
<1>2. x \in 1..w /\ Done(T, P, w, r, f, x)
  <2>1. Dist(ndx, r) \in 0..N - 1
    BY <1>1, PlaceWrapped
  <2> QED
    BY <1>0, <1>1, <1>f, <2>1
<1>3. CASE kind < Len(Order)
  <2>1. kind' = kind + 1 /\ at' = 1 /\ ndx' = ndx /\ pc' = "sign"
    BY <1>3 DEF Leave, LookFor
  <2>2. PICK n : n = kind'
    OBVIOUS
  <2>3. n - 1 = kind
    BY <1>1, <2>1, <2>2
  <2>4. \A m \in 1..n - 1 : Own(T, P, Order[m], x) => CutAt(r, Order[m], x)
    BY <1>0, <2>3
  <2>5. AtSign(T, P, w, r, x)'
    BY <1>2, <1>f, <2>1, <2>2, <2>4 DEF AtSign
  <2>6. x = Dist(ndx', r) + 1
    BY <1>0, <2>1
  <2> QED
    BY <2>1, <2>5, <2>6 DEF ScanAt
<1>4. CASE ~(kind < Len(Order))
  <2>1. ndx' = ndx + 1 /\ pc' = "test"
    BY <1>4 DEF Leave
  <2>2. Dist(ndx + 1, r) + 1 = x + 1
    BY <1>0, PlaceNext
  <2>3. ASSUME NEW k \in Kind, Own(T, P, k, x) PROVE CutAt(r, k, x)
    <3>1. PICK m \in DOMAIN Order : k = Order[m]
      BY DEF Kind
    <3>2. m \in 1..kind
      BY <1>1, <1>4, <3>1, Sentence
    <3> QED
      BY <1>0, <2>3, <3>1, <3>2
  <2>4. Done(T, P, w, r, f, x + 1)
    BY <1>1, <1>2, <2>3, DoneNext
  <2>5. PICK y : y = x + 1
    OBVIOUS
  <2>6. y <= w + 1
    BY <1>2, <2>5
  <2>7. AtTest(T, P, w, r, y)'
    BY <1>f, <2>4, <2>5, <2>6 DEF AtTest
  <2>8. y = Dist(ndx', r) + 1
    BY <2>1, <2>2, <2>5
  <2> QED
    BY <2>1, <2>7, <2>8 DEF ScanAt
<1> QED
  BY <1>3, <1>4

LEMMA ViewBounds ==
  ASSUME IInv, NEW T, NEW P, NEW w, NEW r, View(T, P, w, r)
  PROVE  /\ N \in Nat \ {0} /\ w \in 0..N - 1 /\ w \in Nat /\ r \in 0..N - 1
         /\ wptr \in 0..N - 1
         /\ w = Dist(wptr, r) /\ r = rptr /\ Parsed(T, P, w)
         /\ \A i \in 1..w : ring[Rot(r, i)] = T[i][P[i]]
         /\ ndx \in 0..N /\ Dist(ndx, r) \in 0..N - 1 /\ kind \in DOMAIN Order
         /\ Order[kind] \in Kind
<1>1. /\ N \in Nat \ {0} /\ wptr \in 0..N - 1 /\ rptr \in 0..N - 1
      /\ ndx \in 0..N /\ kind \in DOMAIN Order
  BY RingAssumption DEF IInv, TypeOK
<1>2. w = Dist(wptr, rptr) /\ r = rptr
  BY DEF View, W
<1>3. wptr \in 0..N
  BY <1>1
<1>4. Dist(wptr, rptr) \in 0..N - 1 /\ Dist(ndx, rptr) \in 0..N - 1
  BY <1>1, <1>3, PlaceWrapped
<1>5. w \in 0..N - 1 /\ w \in Nat
  BY <1>2, <1>4
<1> QED
  BY <1>1, <1>2, <1>4, <1>5, Sentence DEF View

LEMMA TestScans ==
  ASSUME IInv, Calm, Test, NEW T, NEW P, NEW w, NEW r, View(T, P, w, r),
         ScanAt(T, P, w, r)
  PROVE  ScanAt(T, P, w, r)'
<1>1. /\ N \in Nat \ {0} /\ w \in 0..N - 1 /\ r \in 0..N - 1 /\ wptr \in 1..N - 1
      /\ w = Dist(wptr, r) /\ ndx \in 0..N /\ Dist(ndx, r) \in 0..N - 1
  BY ViewBounds DEF Calm
<1>2. PICK x : x = Dist(ndx, r) + 1
  OBVIOUS
<1>3. x \in 1..w + 1 /\ Done(T, P, w, r, fix, x)
  BY <1>1, <1>2 DEF Test, ScanAt, AtTest
<1>4. fix' = fix /\ ring' = ring
  BY DEF Test
<1>5. ndx = wptr <=> x = w + 1
  <2>1. ndx = wptr <=> Dist(ndx, r) = Dist(wptr, r)
    BY <1>1, PlaceAtEnd
  <2> QED
    BY <1>1, <1>2, <2>1
<1>6. CASE ndx = wptr
  <2>1. pc' = "end" /\ Done(T, P, w, r, fix, w + 1)
    BY <1>3, <1>5, <1>6 DEF Test
  <2> QED
    BY <1>4, <2>1 DEF ScanAt
<1>7. CASE ndx # wptr
  <2>1. pc' = "sign" /\ kind' = 1 /\ at' = 1 /\ ndx' = Wrap(ndx)
    BY <1>7 DEF Test, LookFor
  <2>2. x <= w
    BY <1>1, <1>3, <1>5, <1>7
  <2>3. AtSign(T, P, w, r, x)'
    BY <1>3, <1>4, <2>1, <2>2 DEF AtSign
  <2>4. x = Dist(ndx', r) + 1
    BY <1>1, <1>2, <2>1, PlaceWrapped
  <2> QED
    BY <2>1, <2>3, <2>4 DEF ScanAt
<1> QED
  BY <1>6, <1>7

LEMMA SignScans ==
  ASSUME IInv, Fresh, Calm, SignLetter, NEW T, NEW P, NEW w, NEW r, View(T, P, w, r),
         ScanAt(T, P, w, r)
  PROVE  ScanAt(T, P, w, r)'
<1>1. /\ N \in Nat \ {0} /\ w \in 0..N - 1 /\ r \in 0..N - 1 /\ w \in Nat
      /\ r = rptr /\ w = Dist(wptr, r) /\ Dist(ndx, r) \in 0..N - 1 /\ kind \in DOMAIN Order
      /\ Parsed(T, P, w) /\ Order[kind] \in Kind
      /\ \A i \in 1..w : ring[Rot(r, i)] = T[i][P[i]]
  BY ViewBounds
<1>2. PICK x : x = Dist(ndx, r) + 1
  OBVIOUS
<1>3. PICK k \in Kind : k = Order[kind]
  BY <1>1
<1>4. /\ pc = "sign" /\ ndx \in 0..N - 1 /\ at \in 1..Len(Sign[k]) /\ sepcnt = 0 /\ buf = <<>>
      /\ Len(Sign[k]) \in Nat /\ DOMAIN Sign[k] = 1..Len(Sign[k])
  BY <1>1, <1>3, KindTexts DEF SignLetter, IInv, TypeOK, InRange, Fresh
<1>5. /\ x \in 1..w /\ Done(T, P, w, r, fix, x)
      /\ \A m \in 1..kind - 1 : Own(T, P, Order[m], x) => CutAt(r, Order[m], x)
      /\ \A l \in 1..at - 1 : ndx + l - 1 < N => ring[ndx + l - 1] = Sign[k][l]
  BY <1>1, <1>2, <1>3, <1>4 DEF ScanAt, AtSign
<1>6. fix' = fix /\ ring' = ring /\ sepcnt' = sepcnt /\ buf' = buf
  BY DEF SignLetter
<1>7. PICK same \in Letter(ndx + at - 1) :
        IF ~same THEN Leave
        ELSE IF at < Len(Sign[k])
        THEN at' = at + 1 /\ UNCHANGED <<ndx, pc, kind>>
        ELSE at' = 1 /\ ndx' = Wrap(ndx + 1) /\ pc' = "skip" /\ UNCHANGED kind
  BY <1>3 DEF SignLetter
<1>8. ndx + at - 1 < N => same = (ring[ndx + at - 1] = Sign[k][at])
  BY <1>3, <1>7 DEF Letter
<1>9. \A l \in 1..Len(Sign[k]) : x + l - 1 <= w =>
          Rot(r, x + l - 1) = IF ndx + l - 1 < N THEN ndx + l - 1 ELSE ndx + l - 1 - N
  <2> SUFFICES ASSUME NEW l \in 1..Len(Sign[k]), x + l - 1 <= w
               PROVE  Rot(r, x + l - 1)
                        = IF ndx + l - 1 < N THEN ndx + l - 1 ELSE ndx + l - 1 - N
    OBVIOUS
  <2>1. l \in Nat \ {0} /\ Dist(ndx, r) + l <= N /\ Dist(ndx, r) + l = x + l - 1
    BY <1>1, <1>2, <1>4
  <2> QED
    BY <1>1, <1>4, <2>1, PlaceIndex
<1>10. CASE ~same
  <2>1. ASSUME Own(T, P, k, x), ~CutAt(r, k, x) PROVE FALSE
    <3>1. x + at - 1 \in 1..w /\ T[x + at - 1][P[x + at - 1]] = Sign[k][at]
      BY <1>1, <1>4, <1>5, <2>1, OwnGoesOn
    <3>2. Rot(r, x) = ndx
      <4>1. 1 \in 1..Len(Sign[k]) /\ x + 1 - 1 = x /\ ndx + 1 - 1 = ndx
        BY <1>1, <1>4, <1>5
      <4> QED
        BY <1>1, <1>4, <1>5, <1>9, <4>1
    <3>3. ndx + at - 1 < N
      BY <1>1, <1>4, <2>1, <3>2 DEF CutAt
    <3>4. Rot(r, x + at - 1) = ndx + at - 1
      BY <1>4, <1>9, <3>1, <3>3
    <3>5. ring[ndx + at - 1] = Sign[k][at]
      BY <1>1, <3>1, <3>4
    <3> QED
      BY <1>8, <1>10, <3>3, <3>5
  <2>2. ASSUME NEW m \in 1..kind, Own(T, P, Order[m], x) PROVE CutAt(r, Order[m], x)
    <3>1. kind \in Nat
      BY <1>1, Sentence
    <3>2. CASE m = kind
      BY <1>3, <2>1, <2>2, <3>2
    <3>3. CASE m # kind
      BY <1>5, <2>2, <3>1, <3>3
    <3> QED
      BY <3>2, <3>3
  <2>3. Leave
    BY <1>7, <1>10
  <2>4. Done(T, P, w, r, fix', x)
    BY <1>5, <1>6
  <2> QED
    BY <1>1, <1>2, <1>4, <1>5, <2>2, <2>3, <2>4, LeaveAt
<1>11. CASE same /\ at < Len(Sign[k])
  <2>1. at' = at + 1 /\ ndx' = ndx /\ pc' = pc /\ kind' = kind
    BY <1>7, <1>11
  <2>2. PICK n : n = at + 1
    OBVIOUS
  <2>3. \A l \in 1..n - 1 : ndx + l - 1 < N => ring[ndx + l - 1] = Sign[k][l]
    <3> SUFFICES ASSUME NEW l \in 1..n - 1, ndx + l - 1 < N
                 PROVE  ring[ndx + l - 1] = Sign[k][l]
      OBVIOUS
    <3>1. CASE l = at
      BY <1>8, <1>11, <3>1
    <3>2. CASE l # at
      BY <1>4, <1>5, <2>2, <3>2
    <3> QED
      BY <3>1, <3>2
  <2>4. AtSign(T, P, w, r, x)'
    BY <1>3, <1>5, <1>6, <2>1, <2>2, <2>3 DEF AtSign
  <2>5. x = Dist(ndx', r) + 1
    BY <1>2, <2>1
  <2> QED
    BY <1>4, <2>1, <2>4, <2>5 DEF ScanAt
<1>12. CASE same /\ ~(at < Len(Sign[k]))
  <2>1. at' = 1 /\ ndx' = Wrap(ndx + 1) /\ pc' = "skip" /\ kind' = kind
    BY <1>7, <1>12
  <2>2. \A l \in 1..Len(Sign[k]) : ndx + l - 1 < N => ring[ndx + l - 1] = Sign[k][l]
    <3> SUFFICES ASSUME NEW l \in 1..Len(Sign[k]), ndx + l - 1 < N
                 PROVE  ring[ndx + l - 1] = Sign[k][l]
      OBVIOUS
    <3>1. CASE l = at
      BY <1>8, <1>12, <3>1
    <3>2. CASE l # at
      BY <1>4, <1>5, <1>12, <3>2
    <3> QED
      BY <3>1, <3>2
  <2>3. ASSUME NEW l \in 1..Len(Sign[k]), x + l - 1 <= w
        PROVE  T[x + l - 1][P[x + l - 1]] = Sign[k][l]
    <3>1. x + l - 1 \in 1..w
      BY <1>1, <1>4, <1>5, <2>3
    <3>2. CASE ndx + l - 1 < N
      BY <1>1, <1>9, <2>2, <2>3, <3>1, <3>2
    <3>3. CASE ~(ndx + l - 1 < N)
      <4>1. ndx \in {(rptr + i - 1) % N : i \in DOMAIN Window}
        <5>1. DOMAIN Window = 1..w
          BY <1>1 DEF Window, Dist
        <5>2. ndx = (rptr + x - 1) % N
          <6>1. 1 \in 1..Len(Sign[k]) /\ x + 1 - 1 = x /\ ndx + 1 - 1 = ndx
            BY <1>1, <1>4, <1>5
          <6> QED
            BY <1>1, <1>4, <1>5, <1>9, <6>1 DEF Rot
        <5> QED
          BY <1>5, <5>1, <5>2
      <4>2. ndx + Len(Sign[k]) > N
        BY <1>1, <1>4, <3>3
      <4>3. \A i \in 1..N - ndx : ring[ndx + i - 1] = Sign[k][i]
        BY <1>1, <1>4, <2>2, <4>2
      <4>4. ring[(ndx + l - 1) % N] = Sign[k][l]
        BY <1>4, <4>1, <4>2, <4>3 DEF Calm, Misleading
      <4>5. (ndx + l - 1) % N = Rot(r, x + l - 1)
        <5>1. l \in 1..N
          BY <1>1, <1>4, <1>5, <3>1
        <5>2. Rot(ndx, l) = IF ndx + l - 1 < N THEN ndx + l - 1 ELSE ndx + l - 1 - N
          BY <1>4, <5>1, Rotated
        <5>3. Rot(ndx, l) = Rot(r, x + l - 1)
          BY <1>9, <2>3, <5>2
        <5> QED
          BY <5>3 DEF Rot
      <4> QED
        BY <1>1, <3>1, <4>4, <4>5
    <3> QED
      BY <3>2, <3>3
  <2>4. Own(T, P, k, x)
    BY <1>1, <1>5, <2>3, SignIsOwn
  <2>5. /\ x + 1 \in 1..w /\ T[x + 1] = T[x] /\ P[x + 1] = Lead + 2 /\ T[x] \in Texts[k]
        /\ Lead \in Nat
    <3>1. T[x] \in Texts[k] /\ P[x] = Lead + 1
      BY <2>4 DEF Own
    <3>2. Lead \in Nat /\ Len(T[x]) \in Nat /\ Lead + Len(Sign[k]) < Len(T[x])
      BY <3>1, KindTexts
    <3>3. P[x] + 1 <= Len(T[x]) /\ P[x] + 1 = Lead + 2
      BY <1>4, <3>1, <3>2
    <3> QED
      BY <1>1, <1>5, <3>1, <3>2, <3>3, Onward
  <2>6. PICK y : y = x + 1
    OBVIOUS
  <2>7. y <= w /\ x = y - P[y] + Lead + 1 /\ x >= 1 /\ T[y] \in Texts[k] /\ P[y] > Lead + 1
    BY <1>5, <2>5, <2>6
  <2>8. \A t \in Texts[k] : Reading(k, t, P[y], "skip", 1, 0, <<>>)
    BY <2>5, <2>6, ReadingBegins
  <2>9. AtField(T, P, w, r, y, x)'
    BY <1>3, <1>4, <1>5, <1>6, <2>1, <2>7, <2>8 DEF AtField
  <2>10. y = Dist(ndx', r) + 1
    BY <1>1, <1>2, <1>4, <1>5, <2>1, <2>6, PlaceNext
  <2> QED
    BY <2>1, <2>9, <2>10 DEF ScanAt
<1> QED
  BY <1>10, <1>11, <1>12

(* In the middle of a text that starts at place j.                         *)
LEMMA ReadingInside ==
  ASSUME NEW k \in Kind, NEW t \in Texts[k], NEW c \in Nat, NEW ph \in {"skip", "field"},
         NEW m, NEW s, NEW b, Reading(k, t, c, ph, m, s, b)
  PROVE  c <= Len(t)
<1>1. m \in 1..Len(Skip[k]) /\ (c < Layout[t][m].from \/ c <= Layout[t][m].to)
  BY DEF Reading
<1>2. /\ Layout[t][m].from \in 1..Len(t) /\ Layout[t][m].to \in 1..Len(t)
      /\ Len(t) \in Nat
  BY <1>1, FieldLaid, KindTexts
<1> QED
  BY <1>1, <1>2

(* The byte that comes next, the c-th of its text, is at place x; the sign *)
(* of the sentence, k, was at place j.                                     *)
Midway(T, P, w, r, k, x, c, j) ==
    /\ j \in 1..w /\ j = x - c + Lead + 1 /\ j < x
    /\ Own(T, P, k, j) /\ Matches(T, P, w, T[x], j)
    /\ \A i \in 1..w : j < i /\ i <= x => \A m \in Kind : ~Own(T, P, m, i)
    /\ Done(T, P, w, r, fix, j)
    /\ \A t \in Texts[k] : Matches(T, P, w, t, j) =>
           Reading(k, t, c, pc, at, sepcnt, buf) /\ t[c] = T[x][c]

LEMMA InField ==
  ASSUME IInv, NEW T, NEW P, NEW w, NEW r, View(T, P, w, r), ScanAt(T, P, w, r),
         pc \in {"skip", "field"}, NEW k, k = Order[kind],
         NEW x, x = Dist(ndx, r) + 1, NEW c, c = P[x]
  PROVE  /\ k \in Kind /\ x \in 1..w /\ c \in Nat
         /\ c <= Len(T[x]) /\ Len(T[x]) \in Nat /\ T[x] \in Texts[k]
         /\ Lead \in Nat /\ c > Lead + 1
         /\ ring[Wrap(ndx)] = T[x][c]
         /\ \E j : Midway(T, P, w, r, k, x, c, j)
<1>1. /\ N \in Nat \ {0} /\ w \in 0..N - 1 /\ r \in 0..N - 1 /\ w \in Nat
      /\ ndx \in 0..N /\ Dist(ndx, r) \in 0..N - 1 /\ k \in Kind
      /\ Parsed(T, P, w) /\ \A i \in 1..w : ring[Rot(r, i)] = T[i][P[i]]
  BY ViewBounds
<1>2. PICK j : AtField(T, P, w, r, x, j)
  BY DEF ScanAt
<1>3. /\ x <= w /\ j = x - c + Lead + 1 /\ j >= 1
      /\ T[x] \in Texts[k] /\ c > Lead + 1
      /\ Done(T, P, w, r, fix, j)
      /\ \A t \in Texts[k] :
             Matches(T, P, w, t, j) => Reading(k, t, c, pc, at, sepcnt, buf)
  BY <1>2 DEF AtField
<1>4. x \in 1..w
  BY <1>1, <1>3
<1>5. c \in 1..Len(T[x]) /\ Len(T[x]) \in Nat /\ Lead \in Nat
  BY <1>1, <1>3, <1>4, KindTexts DEF Parsed
<1>6. /\ j \in 1..w /\ j < x /\ Own(T, P, k, j) /\ T[j] = T[x]
      /\ \A i \in 1..w : j < i /\ i <= x => \A m \in Kind : ~Own(T, P, m, i)
  BY <1>1, <1>3, <1>4, Inside
<1>7. Matches(T, P, w, T[x], j)
  BY <1>1, <1>6, OwnGoesOn
<1>8. ring[Wrap(ndx)] = T[x][c]
  <2>1. PICK i \in 0..N - 1 : i = Wrap(ndx)
    BY <1>1, PlaceWrapped
  <2>2. Dist(i, r) + 1 = x
    BY <1>1, <2>1, PlaceWrapped
  <2>3. Rot(r, x) = i
    <3>1. Dist(i, r) + 1 <= N /\ 1 \in Nat \ {0}
      BY <1>1, <1>4, <2>2
    <3>2. Rot(r, Dist(i, r) + 1) = IF i + 1 - 1 < N THEN i + 1 - 1 ELSE i + 1 - 1 - N
      BY <1>1, <3>1, PlaceIndex
    <3> QED
      BY <1>1, <2>2, <3>2
  <2> QED
    BY <1>1, <1>4, <2>1, <2>3
<1>9. ASSUME NEW t \in Texts[k], Matches(T, P, w, t, j)
      PROVE  Reading(k, t, c, pc, at, sepcnt, buf) /\ t[c] = T[x][c]
  <2>1. Reading(k, t, c, pc, at, sepcnt, buf)
    BY <1>3, <1>9
  <2>2. c <= Len(t) /\ Len(t) \in Nat
    BY <1>1, <1>5, <2>1, ReadingInside, KindTexts
  <2>3. c \in Lead + 1..Len(t) /\ j + c - Lead - 1 = x
    <3>1. x \in Int /\ c \in Int /\ Lead \in Int /\ j = x - c + Lead + 1
          /\ c > Lead + 1 /\ c <= Len(t) /\ Len(t) \in Int
      BY <1>3, <1>4, <1>5, <2>2
    <3> QED
      BY <3>1
  <2>4. T[x][P[x]] = t[c]
    BY <1>9, <2>3 DEF Matches
  <2> QED
    BY <2>1, <2>4
<1>10. Midway(T, P, w, r, k, x, c, j)
  BY <1>3, <1>6, <1>7, <1>9 DEF Midway
<1>11. /\ k \in Kind /\ x \in 1..w /\ c \in Nat
       /\ c <= Len(T[x]) /\ Len(T[x]) \in Nat /\ T[x] \in Texts[k]
       /\ Lead \in Nat /\ c > Lead + 1
  BY <1>1, <1>3, <1>4, <1>5
<1> QED
  BY <1>8, <1>10, <1>11, Zenon

(* The scan goes on to the byte that follows in the text.                  *)
LEMMA ByteOnward ==
  ASSUME NEW T, NEW P, NEW w \in Nat, Parsed(T, P, w), NEW x \in 1..w,
         P[x] + 1 <= Len(T[x])
  PROVE  x + 1 \in 1..w /\ T[x + 1] = T[x] /\ P[x + 1] = P[x] + 1
<1>1. 1 \in Nat
  OBVIOUS
<1> QED
  BY <1>1, Onward

LEMMA FieldOnward ==
  ASSUME NEW T, NEW P, NEW w \in 0..N - 1, NEW r, Parsed(T, P, w), NEW k, k = Order[kind],
         NEW x \in 1..w, NEW c \in Nat, c = P[x], Lead \in Nat, c > Lead + 1,
         T[x] \in Texts[k],
         x + 1 \in 1..w, T[x + 1] = T[x], P[x + 1] = c + 1,
         NEW j \in 1..w, j = x - c + Lead + 1, Done(T, P, w, r, fix, j),
         pc' \in {"skip", "field"}, kind' = kind, fix' = fix,
         Dist(ndx', r) + 1 = x + 1,
         \A t \in Texts[k] : Matches(T, P, w, t, j) =>
             Reading(k, t, c + 1, pc', at', sepcnt', buf')
  PROVE  ScanAt(T, P, w, r)'
<1>1. N \in Nat \ {0} /\ w \in Nat
  BY RingAssumption
<1>3. PICK y : y = x + 1
  OBVIOUS
<1>4. y <= w /\ j = y - P[y] + Lead + 1 /\ j >= 1 /\ P[y] > Lead + 1
      /\ T[y] \in Texts[k] /\ P[y] = c + 1
  BY <1>1, <1>3
<1>5. AtField(T, P, w, r, y, j)'
  BY <1>4 DEF AtField
<1>6. y = Dist(ndx', r) + 1
  BY <1>3
<1> QED
  BY <1>5, <1>6 DEF ScanAt

LEMMA SeparatorScans ==
  ASSUME IInv, Separator, NEW T, NEW P, NEW w, NEW r, View(T, P, w, r),
         ScanAt(T, P, w, r)
  PROVE  ScanAt(T, P, w, r)'
<1>1. /\ N \in Nat \ {0} /\ w \in 0..N - 1 /\ r \in 0..N - 1 /\ w \in Nat
      /\ ndx \in 0..N /\ Parsed(T, P, w)
  BY ViewBounds
<1>2. PICK k : k = Order[kind]
  OBVIOUS
<1>3. PICK x : x = Dist(ndx, r) + 1
  OBVIOUS
<1>4. PICK c : c = P[x]
  OBVIOUS
<1>5. pc = "skip" /\ kind' = kind /\ at' = at /\ buf' = buf /\ fix' = fix
  BY DEF Separator
<1>6. /\ k \in Kind /\ x \in 1..w /\ c \in Nat
      /\ c <= Len(T[x]) /\ Len(T[x]) \in Nat /\ T[x] \in Texts[k]
      /\ Lead \in Nat /\ c > Lead + 1
      /\ ring[Wrap(ndx)] = T[x][c]
  BY <1>2, <1>3, <1>4, <1>5, InField
<1>p. PICK j : Midway(T, P, w, r, k, x, c, j)
  BY <1>2, <1>3, <1>4, <1>5, InField
<1>7. /\ j \in 1..w
      /\ j = x - c + Lead + 1 /\ Matches(T, P, w, T[x], j)
      /\ Done(T, P, w, r, fix, j)
      /\ \A t \in Texts[k] : Matches(T, P, w, t, j) =>
             Reading(k, t, c, pc, at, sepcnt, buf) /\ t[c] = T[x][c]
  BY <1>p DEF Midway
<1>8. PICK n : n = sepcnt + (IF T[x][c] = Sep THEN 1 ELSE 0)
  OBVIOUS
<1>9. ASSUME NEW t \in Texts[k], Matches(T, P, w, t, j)
      PROVE  /\ c + 1 <= Len(t)
             /\ n = Skip[k][at] => Reading(k, t, c + 1, "field", at, 0, buf)
             /\ n # Skip[k][at] => Reading(k, t, c + 1, "skip", at, n, buf)
  <2>1. Reading(k, t, c, "skip", at, sepcnt, buf) /\ t[c] = T[x][c]
    BY <1>5, <1>7, <1>9
  <2> QED
    BY <1>6, <1>8, <2>1, ReadingSeparator
<1>10. c + 1 <= Len(T[x])
  BY <1>6, <1>7, <1>9
<1>11. IF n = Skip[k][at]
       THEN sepcnt' = 0 /\ ndx' = Wrap(Wrap(ndx) + 1) /\ pc' = "field"
       ELSE sepcnt' = n /\ ndx' = Wrap(ndx) + 1 /\ pc' = pc
  BY <1>2, <1>6, <1>8 DEF Separator
<1>12. x + 1 \in 1..w /\ T[x + 1] = T[x] /\ P[x + 1] = c + 1
  <2>1. P[x] + 1 <= Len(T[x])
    BY <1>4, <1>10
  <2> QED
    BY <1>1, <1>4, <1>6, <2>1, ByteOnward
<1>13. Dist(ndx', r) + 1 = x + 1
  <2>2. PICK i \in 0..N - 1 : i = Wrap(ndx)
    BY <1>1, PlaceWrapped
  <2>3. Dist(i, r) + 1 = x
    BY <1>1, <1>3, <2>2, PlaceWrapped
  <2>4. Dist(i, r) + 1 <= w
    BY <1>6, <2>3
  <2>5. Dist(i + 1, r) = x /\ Dist(Wrap(i + 1), r) = x
    BY <1>1, <2>3, <2>4, PlaceNext
  <2> QED
    BY <1>11, <2>2, <2>5
<1>14. pc' \in {"skip", "field"}
  BY <1>5, <1>11
<1>15. \A t \in Texts[k] : Matches(T, P, w, t, j) =>
           Reading(k, t, c + 1, pc', at', sepcnt', buf')
  BY <1>5, <1>9, <1>11
<1> QED
  BY <1>1, <1>2, <1>4, <1>5, <1>6, <1>7, <1>12, <1>13, <1>14, <1>15, FieldOnward

LEMMA FieldByteScans ==
  ASSUME IInv, FieldByte, NEW T, NEW P, NEW w, NEW r, View(T, P, w, r),
         ScanAt(T, P, w, r)
  PROVE  ScanAt(T, P, w, r)'
<1>1. /\ N \in Nat \ {0} /\ w \in 0..N - 1 /\ r \in 0..N - 1 /\ w \in Nat
      /\ ndx \in 0..N /\ Parsed(T, P, w)
  BY ViewBounds
<1>2. PICK k : k = Order[kind]
  OBVIOUS
<1>3. PICK x : x = Dist(ndx, r) + 1
  OBVIOUS
<1>4. PICK c : c = P[x]
  OBVIOUS
<1>5. /\ pc = "field" /\ pc' = pc /\ kind' = kind /\ at' = at /\ sepcnt' = sepcnt
      /\ fix' = fix /\ ring[ndx] # Sep /\ buf' = Append(buf, ring[ndx])
      /\ ndx' = Wrap(ndx + 1)
  BY DEF FieldByte
<1>6. /\ k \in Kind /\ x \in 1..w /\ c \in Nat
      /\ c <= Len(T[x]) /\ Len(T[x]) \in Nat /\ T[x] \in Texts[k]
      /\ Lead \in Nat /\ c > Lead + 1
      /\ ring[Wrap(ndx)] = T[x][c]
  BY <1>2, <1>3, <1>4, <1>5, InField
<1>p. PICK j : Midway(T, P, w, r, k, x, c, j)
  BY <1>2, <1>3, <1>4, <1>5, InField
<1>7. /\ j \in 1..w
      /\ j = x - c + Lead + 1 /\ Matches(T, P, w, T[x], j)
      /\ Done(T, P, w, r, fix, j)
      /\ \A t \in Texts[k] : Matches(T, P, w, t, j) =>
             Reading(k, t, c, pc, at, sepcnt, buf) /\ t[c] = T[x][c]
  BY <1>p DEF Midway
<1>8. /\ ndx \in 0..N - 1 /\ ring[ndx] = T[x][c]
      /\ ring[ndx] \in Byte \cup {Empty} /\ buf \in Seq(Byte \cup {Empty})
  <2>1. ndx \in 0..N - 1
    BY <1>1, <1>5 DEF IInv, InRange
  <2>2. Wrap(ndx) = ndx
    BY <1>1, <2>1 DEF Wrap
  <2> QED
    BY <1>6, <2>1, <2>2 DEF IInv, TypeOK
<1>9. ASSUME NEW t \in Texts[k], Matches(T, P, w, t, j)
      PROVE  c + 1 <= Len(t)
             /\ Reading(k, t, c + 1, "field", at, sepcnt, Append(buf, ring[ndx]))
  <2>1. Reading(k, t, c, "field", at, sepcnt, buf) /\ ring[ndx] = t[c]
    BY <1>5, <1>7, <1>8, <1>9
  <2> QED
    BY <1>5, <1>6, <1>8, <2>1, ReadingByte
<1>10. c + 1 <= Len(T[x])
  BY <1>6, <1>7, <1>9
<1>11. x + 1 \in 1..w /\ T[x + 1] = T[x] /\ P[x + 1] = c + 1
  <2>1. P[x] + 1 <= Len(T[x])
    BY <1>4, <1>10
  <2> QED
    BY <1>1, <1>4, <1>6, <2>1, ByteOnward
<1>12. Dist(ndx', r) + 1 = x + 1
  <2>2. Dist(ndx, r) + 1 <= w
    BY <1>3, <1>6
  <2>3. Dist(Wrap(ndx + 1), r) = Dist(ndx, r) + 1
    BY <1>1, <1>8, <2>2, PlaceNext
  <2> QED
    BY <1>3, <1>5, <2>3
<1>13. pc' \in {"skip", "field"}
  BY <1>5
<1>14. \A t \in Texts[k] : Matches(T, P, w, t, j) =>
           Reading(k, t, c + 1, pc', at', sepcnt', buf')
  BY <1>5, <1>9
<1> QED
  BY <1>1, <1>2, <1>4, <1>5, <1>6, <1>7, <1>11, <1>12, <1>13, <1>14, FieldOnward

LEMMA FieldEndScans ==
  ASSUME IInv, FieldEnd, NEW T, NEW P, NEW w, NEW r, View(T, P, w, r),
         ScanAt(T, P, w, r)
  PROVE  ScanAt(T, P, w, r)'
<1>1. /\ N \in Nat \ {0} /\ w \in 0..N - 1 /\ r \in 0..N - 1 /\ w \in Nat
      /\ ndx \in 0..N /\ Parsed(T, P, w) /\ kind \in DOMAIN Order
  BY ViewBounds
<1>2. PICK k : k = Order[kind]
  OBVIOUS
<1>3. PICK x : x = Dist(ndx, r) + 1
  OBVIOUS
<1>4. PICK c : c = P[x]
  OBVIOUS
<1>5. pc = "field" /\ sepcnt' = sepcnt /\ ring[ndx] = Sep
  BY DEF FieldEnd
<1>6. /\ k \in Kind /\ x \in 1..w /\ c \in Nat
      /\ c <= Len(T[x]) /\ Len(T[x]) \in Nat /\ T[x] \in Texts[k]
      /\ Lead \in Nat /\ c > Lead + 1
      /\ ring[Wrap(ndx)] = T[x][c]
  BY <1>2, <1>3, <1>4, <1>5, InField
<1>p. PICK j : Midway(T, P, w, r, k, x, c, j)
  BY <1>2, <1>3, <1>4, <1>5, InField
<1>7. /\ j \in 1..w
      /\ j = x - c + Lead + 1 /\ j < x
      /\ Own(T, P, k, j) /\ Matches(T, P, w, T[x], j)
      /\ \A i \in 1..w : j < i /\ i <= x => \A m \in Kind : ~Own(T, P, m, i)
      /\ Done(T, P, w, r, fix, j)
      /\ \A t \in Texts[k] : Matches(T, P, w, t, j) =>
             Reading(k, t, c, pc, at, sepcnt, buf) /\ t[c] = T[x][c]
  BY <1>p DEF Midway
<1>8. /\ ndx \in 0..N - 1 /\ T[x][c] = Sep /\ sepcnt = 0
      /\ buf \in Seq(Byte \cup {Empty})
      /\ fix \in [Kind -> Seq(Byte \cup {Empty})]
  <2>1. ndx \in 0..N - 1 /\ sepcnt = 0
    BY <1>1, <1>5 DEF IInv, InRange
  <2>2. Wrap(ndx) = ndx
    BY <1>1, <2>1 DEF Wrap
  <2> QED
    BY <1>5, <1>6, <2>1, <2>2 DEF IInv, TypeOK
<1>9. ASSUME NEW t \in Texts[k], Matches(T, P, w, t, j)
      PROVE  /\ at \in 1..Len(Skip[k])
             /\ at < Len(Skip[k]) => Reading(k, t, c, "skip", at + 1, 0, buf)
             /\ ~(at < Len(Skip[k])) => buf = Says[t]
  <2>1. Reading(k, t, c, "field", at, sepcnt, buf) /\ t[c] = Sep
    BY <1>5, <1>7, <1>8, <1>9
  <2> QED
    BY <1>6, <1>8, <2>1, ReadingEnds
<1>10. CASE at < Len(Skip[k])
  <2>1. at' = at + 1 /\ pc' = "skip" /\ ndx' = ndx /\ kind' = kind /\ buf' = buf /\ fix' = fix
    BY <1>2, <1>10 DEF FieldEnd
  <2>2. \A t \in Texts[k] : Matches(T, P, w, t, j) => Reading(k, t, c, "skip", at', 0, buf)
    BY <1>9, <1>10, <2>1
  <2>3. x <= w /\ j = x - P[x] + Lead + 1 /\ j >= 1 /\ P[x] > Lead + 1
    BY <1>4, <1>6, <1>7
  <2>4. AtField(T, P, w, r, x, j)'
    BY <1>2, <1>4, <1>5, <1>6, <1>7, <1>8, <2>1, <2>2, <2>3 DEF AtField
  <2>5. x = Dist(ndx', r) + 1
    BY <1>3, <2>1
  <2> QED
    BY <2>1, <2>4, <2>5 DEF ScanAt
<1>11. CASE ~(at < Len(Skip[k]))
  <2>1. fix' = [fix EXCEPT ![k] = buf] /\ Leave
    BY <1>2, <1>11 DEF FieldEnd
  <2>2. \A t \in Texts[k] : Matches(T, P, w, t, j) => buf = Says[t]
    BY <1>9, <1>11
  <2>3. Done(T, P, w, r, [fix EXCEPT ![k] = buf], x)
    BY <1>1, <1>6, <1>7, <1>8, <2>2, DoneRead
  <2>4. \A m \in 1..kind : Own(T, P, Order[m], x) => CutAt(r, Order[m], x)
    <3>1. \A m \in 1..kind : Order[m] \in Kind
      BY <1>1, Sentence
    <3>2. \A m \in Kind : ~Own(T, P, m, x)
      BY <1>6, <1>7
    <3> QED
      BY <3>1, <3>2
  <2>5. Done(T, P, w, r, fix', x) /\ x <= w
    BY <1>6, <2>1, <2>3
  <2> QED
    BY <1>1, <1>3, <1>8, <2>1, <2>4, <2>5, LeaveAt
<1> QED
  BY <1>10, <1>11

----------------------------------------------------------------------------
(***************************************************************************)
(* The invariant of a scan that nothing arrives in.                        *)
(***************************************************************************)
LEMMA FreshInit ==
  ASSUME Init PROVE Fresh
BY DEF Init, Fresh

LEMMA FreshKeeps ==
  ASSUME IInv, Fresh, [Next]_vars PROVE Fresh'
<1>0. arrived \in Nat /\ ndx \in 0..N /\ N \in Nat
  BY RingAssumption DEF IInv, TypeOK
<1>1. CASE UART1
  BY <1>0, <1>1 DEF UART1, Fresh, scanVars
<1>2. CASE Start
  BY <1>2 DEF Start, Fresh
<1>3. CASE Test
  BY <1>3 DEF Test, LookFor, Fresh
<1>4. CASE End
  BY <1>4 DEF End, Fresh
<1>5. ASSUME Leave PROVE pc' \in {"sign", "test"} /\ (pc' = "test" => ndx' # 0)
  BY <1>0, <1>5 DEF Leave, LookFor
<1>6. CASE SignLetter
  <2>1. pc = "sign" /\ buf' = buf
    BY <1>6 DEF SignLetter
  <2>2. pc' \in {"sign", "skip"} \/ (pc' = "test" /\ ndx' # 0)
    BY <1>5, <1>6 DEF SignLetter
  <2> QED
    BY <2>1, <2>2 DEF Fresh
<1>7. CASE Separator
  BY <1>7 DEF Separator, Fresh
<1>8. CASE FieldByte
  BY <1>8 DEF FieldByte, Fresh
<1>9. CASE FieldEnd
  <2>1. pc' = "skip" \/ (buf' = <<>> /\ Leave)
    BY <1>9 DEF FieldEnd
  <2> QED
    BY <1>5, <2>1 DEF Fresh
<1>10. CASE UNCHANGED vars
  BY <1>10 DEF vars, scanVars, Fresh
<1> QED
  BY <1>1, <1>2, <1>3, <1>4, <1>6, <1>7, <1>8, <1>9, <1>10 DEF Next, Scan

LEMMA ViewSame ==
  ASSUME UNCHANGED <<ring, wptr, rptr>>, NEW T, NEW P, NEW w, NEW r, View(T, P, w, r)'
  PROVE  View(T, P, w, r)
<1>1. W' = W
  BY DEF W
<1> QED
  BY <1>1 DEF View, Parsed, Follows

LEMMA CalmSame ==
  ASSUME UNCHANGED <<ring, wptr, rptr, out, arrived>>, Calm'
  PROVE  Calm
<1>1. Window' = Window
  BY DEF Window
<1>2. {(rptr + i - 1) % N : i \in DOMAIN Window}'
        = {(rptr + i - 1) % N : i \in DOMAIN Window}
  BY <1>1
<1>3. PICK I : I = {(rptr + i - 1) % N : i \in DOMAIN Window}
  OBVIOUS
<1>4. ~Misleading(I)'
  BY <1>2, <1>3 DEF Calm
<1>5. ~Misleading(I)
  BY <1>4 DEF Misleading
<1> QED
  BY <1>3, <1>5 DEF Calm

LEMMA StartScans ==
  ASSUME IInv, Start, NEW T, NEW P, NEW w, NEW r, View(T, P, w, r)
  PROVE  ScanAt(T, P, w, r)'
<1>1. N \in Nat \ {0} /\ r \in 0..N - 1 /\ w \in 0..N - 1 /\ r = rptr
  BY ViewBounds
<1>2. r \in 0..N
  BY <1>1
<1>3. Dist(r, r) = 0
  BY <1>1, <1>2, Distance
<1>4. ndx' = r /\ pc' = "test"
  BY <1>1 DEF Start
<1>5. Dist(ndx', r) + 1 = 1
  BY <1>3, <1>4
<1>6. PICK f : f = fix'
  OBVIOUS
<1>7. Done(T, P, w, r, f, 1) /\ 1 <= w + 1
  BY <1>1, DoneFirst
<1>8. AtTest(T, P, w, r, 1)'
  BY <1>6, <1>7 DEF AtTest
<1> QED
  BY <1>4, <1>5, <1>8 DEF ScanAt

LEMMA ScanGoodKeeps ==
  ASSUME IInv, Fresh, ScanGood, [Next]_vars PROVE ScanGood'
<1>1. CASE UART1
  <2>1. arrived \in Nat
    BY RingAssumption DEF IInv, TypeOK
  <2>2. pc' = pc /\ (pc # "idle" => arrived' = arrived + 1)
    BY <1>1 DEF UART1, scanVars
  <2>3. pc' # "idle" => arrived' # 0
    BY <2>1, <2>2
  <2> QED
    BY <2>3 DEF ScanGood, Calm
<1>2. CASE End
  BY <1>2 DEF End, ScanGood
<1>3. CASE Start
  <2>1. SUFFICES ASSUME NEW T, NEW P, NEW w, NEW r, View(T, P, w, r)'
                 PROVE  ScanAt(T, P, w, r)'
    BY DEF ScanGood
  <2>2. UNCHANGED <<ring, wptr, rptr>>
    BY <1>3 DEF Start
  <2>3. View(T, P, w, r)
    BY <2>1, <2>2, ViewSame
  <2> QED
    BY <1>3, <2>3, StartScans
<1>4. ASSUME pc # "idle", UNCHANGED <<ring, wptr, rptr, out, arrived>>,
             ASSUME Calm, NEW T, NEW P, NEW w, NEW r, View(T, P, w, r), ScanAt(T, P, w, r)
             PROVE  ScanAt(T, P, w, r)'
      PROVE  ScanGood'
  <2>1. SUFFICES ASSUME Calm', NEW T, NEW P, NEW w, NEW r, View(T, P, w, r)'
                 PROVE  ScanAt(T, P, w, r)'
    BY DEF ScanGood
  <2>2. Calm /\ View(T, P, w, r)
    BY <1>4, <2>1, ViewSame, CalmSame
  <2>3. ScanAt(T, P, w, r)
    BY <1>4, <2>2 DEF ScanGood
  <2> QED
    BY <1>4, <2>2, <2>3
<1>5. CASE Test
  <2>1. pc # "idle" /\ UNCHANGED <<ring, wptr, rptr, out, arrived>>
    BY <1>5 DEF Test
  <2> QED
    BY <1>4, <1>5, <2>1, TestScans
<1>6. CASE SignLetter
  <2>1. pc # "idle" /\ UNCHANGED <<ring, wptr, rptr, out, arrived>>
    BY <1>6 DEF SignLetter
  <2> QED
    BY <1>4, <1>6, <2>1, SignScans
<1>7. CASE Separator
  <2>1. pc # "idle" /\ UNCHANGED <<ring, wptr, rptr, out, arrived>>
    BY <1>7 DEF Separator
  <2> QED
    BY <1>4, <1>7, <2>1, SeparatorScans
<1>8. CASE FieldByte
  <2>1. pc # "idle" /\ UNCHANGED <<ring, wptr, rptr, out, arrived>>
    BY <1>8 DEF FieldByte
  <2> QED
    BY <1>4, <1>8, <2>1, FieldByteScans
<1>9. CASE FieldEnd
  <2>1. pc # "idle" /\ UNCHANGED <<ring, wptr, rptr, out, arrived>>
    BY <1>9 DEF FieldEnd
  <2> QED
    BY <1>4, <1>9, <2>1, FieldEndScans
<1>10. CASE UNCHANGED vars
  <2>1. UNCHANGED <<ring, wptr, rptr, out, arrived, ndx, pc, kind, at, sepcnt, buf, fix>>
    BY <1>10 DEF vars, scanVars
  <2>2. CASE pc = "idle"
    BY <2>1, <2>2 DEF ScanGood
  <2>3. CASE pc # "idle"
    <3>1. ASSUME NEW T, NEW P, NEW w, NEW r, ScanAt(T, P, w, r)
          PROVE  ScanAt(T, P, w, r)'
      BY <2>1, <3>1 DEF ScanAt, AtTest, AtSign, AtField
    <3> QED
      BY <1>4, <2>1, <2>3, <3>1
  <2> QED
    BY <2>2, <2>3
<1> QED
  BY <1>1, <1>2, <1>3, <1>5, <1>6, <1>7, <1>8, <1>9, <1>10 DEF Next, Scan

----------------------------------------------------------------------------
(***************************************************************************)
(* What the invariant says when the scan has come to its end.              *)
(***************************************************************************)
LEMMA WindowView ==
  ASSUME IInv, NEW T, NEW P, NEW w, NEW r, View(T, P, w, r)
  PROVE  DOMAIN Window = 1..w /\ \A i \in 1..w : Window[i] = T[i][P[i]]
<1>1. w = Dist(wptr, rptr) /\ r = rptr /\ \A i \in 1..w : ring[Rot(r, i)] = T[i][P[i]]
  BY ViewBounds
<1>2. Window = [i \in 1..w |-> ring[Rot(r, i)]]
  BY <1>1 DEF Window, Dist, Rot
<1> QED
  BY <1>1, <1>2

LEMMA HoldsIsOwn ==
  ASSUME NEW T, NEW P, NEW w \in Nat, Parsed(T, P, w), DOMAIN Window = 1..w,
         \A i \in 1..w : Window[i] = T[i][P[i]],
         NEW k \in Kind, NEW t \in Texts[k], NEW i \in 1..w, Holds(t, i)
  PROVE  i + Lead \in 1..w /\ Own(T, P, k, i + Lead) /\ Matches(T, P, w, t, i + Lead)
<1>1. /\ Lead \in Nat /\ Len(t) \in Nat /\ DOMAIN t = 1..Len(t)
      /\ Len(Sign[k]) \in Nat \ {0} /\ DOMAIN Sign[k] = 1..Len(Sign[k])
      /\ Lead + Len(Sign[k]) < Len(t) /\ LooksLike(t, k, Lead + 1)
  BY KindTexts
<1>2. PICK s : s = i + Lead
  OBVIOUS
<1>3. i + Len(t) - 1 \in 1..w /\ \A j \in 1..Len(t) : Window[i + j - 1] = t[j]
  BY <1>1 DEF Holds
<1>4. s \in 1..w /\ s + Len(t) - Lead - 1 <= w
  BY <1>1, <1>2, <1>3
<1>5. ASSUME NEW c \in Lead + 1..Len(t)
      PROVE  T[s + c - Lead - 1][P[s + c - Lead - 1]] = t[c]
  <2>1. s + c - Lead - 1 = i + c - 1 /\ i + c - 1 \in 1..w /\ c \in 1..Len(t)
    BY <1>1, <1>2, <1>3
  <2> QED
    BY <1>3, <2>1
<1>6. ASSUME NEW l \in 1..Len(Sign[k])
      PROVE  T[s + l - 1][P[s + l - 1]] = Sign[k][l]
  <2>1. PICK c \in Int : c = Lead + l
    BY <1>1
  <2>2. c \in Lead + 1..Len(t) /\ s + c - Lead - 1 = s + l - 1 /\ Lead + 1 + l - 1 = c
        /\ c \in 1..Len(t)
    BY <1>1, <1>4, <2>1
  <2>3. t[c] = Sign[k][l]
    BY <1>1, <2>2 DEF LooksLike
  <2> QED
    BY <1>5, <2>2, <2>3
<1>7. Own(T, P, k, s)
  BY <1>4, <1>6, SignIsOwn
<1>8. Matches(T, P, w, t, s)
  BY <1>4, <1>5 DEF Matches
<1> QED
  BY <1>2, <1>4, <1>7, <1>8

LEMMA OwnIsHeld ==
  ASSUME NEW T, NEW P, NEW w \in Nat, Parsed(T, P, w), DOMAIN Window = 1..w,
         \A i \in 1..w : Window[i] = T[i][P[i]],
         NEW k \in Kind, NEW j \in 1..w, Own(T, P, k, j), NEW i \in 1..w, i = j - Lead
  PROVE  Holds(T[j], i)
<1>1. /\ T[j] \in Texts[k] /\ P[j] = Lead + 1 /\ Lead \in Nat
      /\ Len(T[j]) \in Nat /\ DOMAIN T[j] = 1..Len(T[j])
  BY KindTexts DEF Own
<1>2. j + Len(T[j]) - Lead - 1 <= w
  BY OwnGoesOn DEF Matches
<1>3. T[i] = T[j] /\ P[i] = 1
  <2>1. CASE Lead = 0
    <3>1. i = j
      BY <2>1
    <3> QED
      BY <1>1, <2>1, <3>1
  <2>2. CASE Lead # 0
    <3>1. i < j /\ P[j] > j - i /\ P[j] - (j - i) = 1 /\ Follows(T, P, w)
      BY <1>1, <2>2 DEF Parsed
    <3> QED
      BY <3>1 DEF Follows
  <2> QED
    BY <2>1, <2>2
<1>4. ASSUME NEW q \in 1..Len(T[j]) PROVE Window[i + q - 1] = T[j][q]
  <2>1. PICK d \in Nat : d = q - 1
    OBVIOUS
  <2>2. P[i] + d <= Len(T[i]) /\ P[i] + d = q /\ i + d = i + q - 1
    BY <1>1, <1>3, <2>1
  <2>3. i + d \in 1..w /\ T[i + d] = T[i] /\ P[i + d] = P[i] + d
    BY <2>2, Onward
  <2>4. Window[i + d] = T[j][q]
    BY <1>3, <2>2, <2>3
  <2> QED
    BY <2>2, <2>4
<1>5. i + Len(T[j]) - 1 \in 1..w
  <2>1. Len(T[j]) # 0
    BY <1>1, KindTexts
  <2> QED
    BY <1>1, <1>2, <2>1
<1> QED
  BY <1>1, <1>4, <1>5 DEF Holds

LEMMA EndIsRight ==
  ASSUME IInv, HistoryInv, Fresh, ScanGood PROVE ScanRight
<1>1. SUFFICES ASSUME pc = "end", arrived = 0, out = <<>>,
                      ~Misleading({(rptr + i - 1) % N : i \in DOMAIN Window}),
                      NEW k \in Kind, NEW t \in Texts[k], NEW i \in DOMAIN Window,
                      Newest(k, t, i), ~Cut(k, i)
               PROVE  fix[k] = Says[t]
  BY DEF ScanRight
<1>2. PICK T, P : View(T, P, W, rptr)
  BY <1>1, ViewExists
<1>3. PICK w : w = W
  OBVIOUS
<1>4. PICK r : r = rptr
  OBVIOUS
<1>5. View(T, P, w, r)
  BY <1>2, <1>3, <1>4
<1>6. /\ N \in Nat \ {0} /\ w \in Nat /\ r \in 0..N - 1 /\ wptr \in 0..N - 1
      /\ w = Dist(wptr, r) /\ Parsed(T, P, w)
  BY <1>5, ViewBounds
<1>7. DOMAIN Window = 1..w /\ \A l \in 1..w : Window[l] = T[l][P[l]]
  BY <1>5, WindowView
<1>8. wptr # 0
  <2>1. SUFFICES ASSUME wptr = 0 PROVE FALSE
    OBVIOUS
  <2>2. r = 0
    BY <1>1, <1>4, <2>1 DEF Fresh
  <2>3. 0 \in 0..N /\ 0 \in 0..N - 1
    BY <1>6
  <2>4. Dist(0, 0) = 0
    BY <1>6, <2>3, Distance
  <2> QED
    BY <1>1, <1>6, <1>7, <2>1, <2>2, <2>4
<1>9. Done(T, P, w, r, fix, w + 1)
  BY <1>1, <1>5, <1>8 DEF ScanGood, Calm, ScanAt
<1>10. PICK s : s = i + Lead
  OBVIOUS
<1>11. Holds(t, i) /\ \A u \in Texts[k], j \in 1..w : Holds(u, j) => j <= i
  BY <1>1, <1>7 DEF Newest
<1>12. s \in 1..w /\ Own(T, P, k, s) /\ Matches(T, P, w, t, s) /\ i \in 1..w /\ Lead \in Nat
  BY <1>1, <1>6, <1>7, <1>10, <1>11, HoldsIsOwn, KindTexts
<1>13. ASSUME NEW j \in 1..w, s < j, Own(T, P, k, j) PROVE FALSE
  <2>1. PICK l \in 1..w : l = j - Lead
    <3>1. j - Lead \in 1..w
      <4>1. i \in Int /\ i >= 1 /\ Lead \in Nat /\ j \in Int /\ j <= w /\ i + Lead < j
        BY <1>6, <1>10, <1>12, <1>13
      <4> QED
        BY <1>6, <4>1
    <3> QED
      BY <3>1
  <2>2. T[j] \in Texts[k]
    BY <1>13 DEF Own
  <2>3. Holds(T[j], l)
    BY <1>6, <1>7, <1>13, <2>1, OwnIsHeld
  <2>4. l <= i
    BY <1>11, <2>2, <2>3
  <2> QED
    BY <1>10, <1>12, <1>13, <2>1, <2>4
<1>14. ~CutAt(r, k, s)
  <2>1. r + s - 1 = rptr + i + Lead - 1
    BY <1>4, <1>6, <1>10, <1>12
  <2> QED
    BY <1>1, <2>1 DEF Cut, CutAt, Rot
<1>15. s < w + 1 /\ \A j \in 1..w : s < j /\ j < w + 1 => ~Own(T, P, k, j)
  BY <1>6, <1>12, <1>13
<1> QED
  BY <1>1, <1>9, <1>12, <1>14, <1>15 DEF Done

(* Wherever the ring's end falls, a byte of the ring is one of a text that *)
(* was sent, and the byte stored after it is the one after it in the text, *)
(* or the first of the next: what UART1_Handler leaves behind, round after *)
(* round, is the end of what the receiver sent.                            *)
THEOREM RingHolds == Spec => []HistoryInv
<1>1. Init => HistoryInv
  BY HistoryInit
<1>2. IInv /\ HistoryInv /\ [Next]_vars => HistoryInv'
  BY HistoryArrives, HistoryStays DEF Next
<1> QED
  BY <1>1, <1>2, ScanInvariant, PTL DEF Spec

(* A scan of whole sentences that nothing arrives in takes of each kind    *)
(* the fields of the newest one whose sign the ring's end does not cut.    *)
THEOREM ScanFindsNewest == Spec => []ScanRight
<1>1. Init => Fresh /\ ScanGood
  BY FreshInit DEF Init, ScanGood
<1>2. IInv /\ Fresh /\ ScanGood /\ [Next]_vars => Fresh' /\ ScanGood'
  BY FreshKeeps, ScanGoodKeeps
<1>3. IInv /\ HistoryInv /\ Fresh /\ ScanGood => ScanRight
  BY EndIsRight
<1> QED
  BY <1>1, <1>2, <1>3, ScanInvariant, RingHolds, PTL DEF Spec
=============================================================================
