-------------------------------- MODULE Nmea --------------------------------
(***************************************************************************)
(* Reading the GPS receiver's NMEA text: UART1_Handler stores what arrives *)
(* in a ring, and the init loop's scan looks in it for the signs of three  *)
(* sentences and copies some of their fields.  A scan covers what arrived  *)
(* since the one before it, which may be long ago: other modes do not scan.*)
(*                                                                         *)
(* The seven copies of the field loop in test_task are one action each for *)
(* its two halves, with the sentence and the field as parameters.  What is *)
(* made of the fields for the report is left out.                          *)
(***************************************************************************)
EXTENDS Integers, Sequences, FiniteSets

CONSTANTS
    N,          \* 1000: size of instring_GPS
    Order,      \* the sentences in the order they are looked for
    Sign,       \* per sentence, its three letters: RMC, GSV, GGA
    Skip,       \* per sentence and field, the separators before the field
    Sep,        \* the comma
    Texts,      \* per sentence, the texts the receiver may send
    Others,     \* the texts it may send of sentences that are not looked for
    Lead,       \* bytes of a text before its sign: $GP
    Layout,     \* per text and field, where it begins, the separator it ends
                \* at, and how many bytes the fields before it hold
    Says,       \* per text, what its fields hold
    Burst       \* bound: bytes that arrive in the course of one scan

Kind == {Order[k] : k \in DOMAIN Order}
Sent == Others \cup UNION {Texts[k] : k \in Kind}
Byte == UNION {{t[i] : i \in DOMAIN t} : t \in Sent}
Empty == 0      \* the ring and datastr hold zeros at first

ASSUME RingAssumption ==
    N \in Nat \ {0} /\ Burst \in Nat
ASSUME SentenceAssumption ==
    /\ Order \in Seq(Kind) /\ Order # <<>>
    /\ \A k \in Kind : /\ Sign[k] \in Seq(Byte) /\ Sign[k] # <<>>
                       /\ Skip[k] \in Seq(Nat \ {0}) /\ Skip[k] # <<>>
                       /\ Texts[k] \subseteq Seq(Byte) \ {<<>>}
    /\ Others \subseteq Seq(Byte) \ {<<>>}

(* A text holds one sign, its own, in its place, and nothing else in it    *)
(* looks like one, as far as the text goes.                                *)
LooksLike(t, k, p) ==
    \A l \in DOMAIN Sign[k] : p + l - 1 \in DOMAIN t => t[p + l - 1] = Sign[k][l]
ASSUME SignAssumption ==
    /\ Lead \in Nat
    /\ \A k \in Kind : \A t \in Texts[k] :
           Lead + Len(Sign[k]) < Len(t) /\ LooksLike(t, k, Lead + 1)
    /\ \A k \in Kind, t \in Sent : \A p \in DOMAIN t :
           LooksLike(t, k, p) => p = Lead + 1 /\ t \in Texts[k]
    /\ \A k, m \in Kind : k = m \/ Texts[k] \cap Texts[m] = {}

(* Where the fields of a text are, as its separators tell, and what they   *)
(* hold.  Each but the first is looked for from the end of the one before. *)
Seps(t, a, b) == Cardinality({i \in a..b : t[i] = Sep})
From(t, m) == IF m = 1 THEN Lead + 2 ELSE Layout[t][m - 1].to
WellLaid(t, k) ==
    LET n == Len(Skip[k])
    IN  /\ Layout[t] \in [1..n -> [from : DOMAIN t, to : DOMAIN t, said : Nat]]
        /\ \A m \in 1..n : LET f == Layout[t][m] IN
               /\ From(t, m) < f.from /\ f.from <= f.to
               /\ Seps(t, From(t, m), f.from - 1) = Skip[k][m]
               /\ t[f.from - 1] = Sep /\ t[f.to] = Sep
               /\ \A i \in f.from..f.to - 1 :
                      t[i] # Sep /\ Says[t][f.said + i - f.from + 1] = t[i]
               /\ f.said = IF m = 1 THEN 0
                           ELSE Layout[t][m - 1].said + Layout[t][m - 1].to
                                    - Layout[t][m - 1].from
        /\ Says[t] \in Seq(Byte)
        /\ Len(Says[t]) = Layout[t][n].said + Layout[t][n].to - Layout[t][n].from
ASSUME LayoutAssumption == \A k \in Kind : \A t \in Texts[k] : WellLaid(t, k)

VARIABLES
    ring,       \* instring_GPS
    wptr, rptr, \* wptr_GPS, rptr_GPS
    ndx,        \* str_ndx_GPS
    pc,         \* "idle", "test", "sign", "skip", "field" or "end"
    kind,       \* the sentence being looked for or read: an index of Order
    at,         \* the letter of its sign, or the field, that comes next
    sepcnt,
    buf,        \* datastr, as far as bufndx
    fix,        \* per sentence: what the scan took for its fields, or <<>>
    out,        \* what the receiver still has to send of its sentence
    arrived     \* bytes that came since the scan began

scanVars == <<ndx, pc, kind, at, sepcnt, buf, fix>>
vars == <<ring, wptr, rptr, scanVars, out, arrived>>

Init ==
    /\ ring = [i \in 0..N - 1 |-> Empty]
    /\ wptr = 0 /\ rptr = 0 /\ ndx = 0
    /\ pc = "idle" /\ kind = 1 /\ at = 1 /\ sepcnt = 0
    /\ buf = <<>> /\ fix = [k \in Kind |-> <<>>]
    /\ out = <<>> /\ arrived = 0

----------------------------------------------------------------------------
(* UART1_Handler: one byte arrives.                                        *)
Wrap(i) == IF i > N - 1 THEN 0 ELSE i

StoreOnward(b) == ring' = [ring EXCEPT ![wptr] = b] /\ wptr' = wptr + 1
Store(b) == ring' = [ring EXCEPT ![wptr] = b] /\ wptr' = Wrap(wptr + 1)

UART1 ==
    /\ pc = "idle" \/ arrived < Burst
    /\ arrived' = IF pc = "idle" THEN 0 ELSE arrived + 1
    /\ \E t \in IF out # <<>> THEN {out} ELSE Sent :
           Store(Head(t)) /\ out' = Tail(t)
    /\ UNCHANGED <<rptr, scanVars>>

----------------------------------------------------------------------------
(* The scan, which init's loop comes to again and again.                   *)
Start ==
    /\ pc = "idle"
    /\ ndx' = rptr /\ pc' = "test" /\ arrived' = 0
    /\ fix' = [k \in Kind |-> <<>>]
    /\ UNCHANGED <<ring, wptr, rptr, kind, at, sepcnt, buf, out>>

LookFor(k, i) == kind' = k /\ at' = 1 /\ ndx' = i /\ pc' = "sign"

(* The loop's condition, and the index taken back to the ring's beginning. *)
Test ==
    /\ pc = "test"
    /\ IF ndx = wptr THEN pc' = "end" /\ UNCHANGED <<ndx, kind, at>>
       ELSE LookFor(1, Wrap(ndx))
    /\ UNCHANGED <<ring, wptr, rptr, sepcnt, buf, fix, out, arrived>>

End ==
    /\ pc = "end"
    /\ rptr' = wptr /\ pc' = "idle"
    /\ arrived' = 0
    /\ UNCHANGED <<ring, wptr, ndx, kind, at, sepcnt, buf, fix, out>>

(* This sentence is dealt with: look for the next one at the same place,   *)
(* or go on to the next place.                                             *)
LeaveStays == IF kind < Len(Order) THEN LookFor(kind + 1, ndx)
              ELSE ndx' = ndx /\ pc' = "test" /\ kind' = 1 /\ at' = 1
Leave == IF kind < Len(Order) THEN LookFor(kind + 1, ndx)
         ELSE ndx' = ndx + 1 /\ pc' = "test" /\ kind' = 1 /\ at' = 1

(* The sign is compared letter by letter without going back to the ring's  *)
(* beginning: what lies behind the ring may look like a letter or not.     *)
Letter(i) == IF i < N THEN {ring[i] = Sign[Order[kind]][at]} ELSE BOOLEAN

SignLetter ==
    /\ pc = "sign"
    /\ \E same \in Letter(ndx + at - 1) :
           IF ~same THEN Leave
           ELSE IF at < Len(Sign[Order[kind]])
           THEN at' = at + 1 /\ UNCHANGED <<ndx, pc, kind>>
           ELSE at' = 1 /\ ndx' = Wrap(ndx + 1) /\ pc' = "skip" /\ UNCHANGED kind
    /\ UNCHANGED <<ring, wptr, rptr, sepcnt, buf, fix, out, arrived>>

(* Go past the separators before a field.                                  *)
SeparatorKeepsCount ==
    /\ pc = "skip"
    /\ LET i == Wrap(ndx)
           seps == sepcnt + (IF ring[i] = Sep THEN 1 ELSE 0)
       IN  IF seps >= Skip[Order[kind]][at]
           THEN sepcnt' = seps /\ ndx' = Wrap(i + 1) /\ pc' = "field"
           ELSE sepcnt' = seps /\ ndx' = i + 1 /\ UNCHANGED pc
    /\ UNCHANGED <<ring, wptr, rptr, kind, at, buf, fix, out, arrived>>
SeparatorUnwrapped ==
    /\ pc = "skip"
    /\ LET i == Wrap(ndx)
           seps == sepcnt + (IF ring[i] = Sep THEN 1 ELSE 0)
       IN  IF seps = Skip[Order[kind]][at]
           THEN sepcnt' = 0 /\ ndx' = i + 1 /\ pc' = "field"
           ELSE sepcnt' = seps /\ ndx' = i + 1 /\ UNCHANGED pc
    /\ UNCHANGED <<ring, wptr, rptr, kind, at, buf, fix, out, arrived>>
Separator ==
    /\ pc = "skip"
    /\ LET i == Wrap(ndx)
           seps == sepcnt + (IF ring[i] = Sep THEN 1 ELSE 0)
       IN  IF seps = Skip[Order[kind]][at]
           THEN sepcnt' = 0 /\ ndx' = Wrap(i + 1) /\ pc' = "field"
           ELSE sepcnt' = seps /\ ndx' = i + 1 /\ UNCHANGED pc
    /\ UNCHANGED <<ring, wptr, rptr, kind, at, buf, fix, out, arrived>>

(* Copy a field until the next separator.  The code's datastr holds 1000   *)
(* bytes and is written without a test; here it has room for any field.    *)
FieldByte ==
    /\ pc = "field"
    /\ ring[ndx] # Sep
    /\ buf' = Append(buf, ring[ndx])
    /\ ndx' = Wrap(ndx + 1)
    /\ UNCHANGED <<ring, wptr, rptr, pc, kind, at, sepcnt, fix, out, arrived>>

FieldEnd ==
    /\ pc = "field"
    /\ ring[ndx] = Sep
    /\ IF at < Len(Skip[Order[kind]])
       THEN at' = at + 1 /\ pc' = "skip" /\ UNCHANGED <<ndx, kind, buf, fix>>
       ELSE /\ fix' = [fix EXCEPT ![Order[kind]] = buf]
            /\ buf' = <<>>
            /\ Leave
    /\ UNCHANGED <<ring, wptr, rptr, sepcnt, out, arrived>>

Scan == Start \/ Test \/ End \/ SignLetter \/ Separator \/ FieldByte \/ FieldEnd
Next == Scan \/ UART1

Spec == Init /\ [][Next]_vars
FairSpec == Spec /\ WF_vars(Scan)

----------------------------------------------------------------------------
TypeOK ==
    /\ ring \in [0..N - 1 -> Byte \cup {Empty}]
    /\ wptr \in 0..N - 1 /\ rptr \in 0..N - 1
    /\ ndx \in 0..N
    /\ pc \in {"idle", "test", "sign", "skip", "field", "end"}
    /\ kind \in DOMAIN Order
    /\ at \in Nat \ {0} /\ sepcnt \in Nat
    /\ buf \in Seq(Byte \cup {Empty})
    /\ fix \in [Kind -> Seq(Byte \cup {Empty})]
    /\ out \in Seq(Byte) /\ arrived \in 0..Burst
(* Wherever a scan has got to, in the three sentences' seven fields and on *)
(* either side of the ring's end, the index it reads a field's byte at is  *)
(* one of the ring, and the field and the count of separators are ones of  *)
(* the sentence it is in, though the receiver may have written over it.    *)
InRange ==
    /\ pc \in {"sign", "field"} => ndx < N
    /\ pc = "sign" => at <= Len(Sign[Order[kind]])
    /\ pc \in {"skip", "field"} => at <= Len(Skip[Order[kind]])
    /\ IF pc = "skip" THEN sepcnt < Skip[Order[kind]][at] ELSE sepcnt = 0

(* What arrived since the last scan, in the order it arrived; a whole text *)
(* t of it from its i-th byte, and whether the ring's end cuts its sign.   *)
Window == [i \in 1..(wptr - rptr) % N |-> ring[(rptr + i - 1) % N]]
Holds(t, i) == /\ i + Len(t) - 1 \in DOMAIN Window
               /\ \A j \in DOMAIN t : Window[i + j - 1] = t[j]
Newest(k, t, i) ==
    /\ Holds(t, i)
    /\ \A u \in Texts[k], j \in DOMAIN Window : Holds(u, j) => j <= i
Cut(k, i) == ((rptr + i + Lead - 1) % N) + Len(Sign[k]) > N

(* A place among I where the ring's end cuts what only begins like a sign: *)
(* whether the scan takes it for one is up to the bytes behind the ring.   *)
Misleading(I) ==
    \E k \in Kind, i \in I :
        /\ i + Len(Sign[k]) > N
        /\ \A l \in 1..N - i : ring[i + l - 1] = Sign[k][l]
        /\ \E l \in DOMAIN Sign[k] : ring[(i + l - 1) % N] # Sign[k][l]

(* A scan of whole sentences that nothing arrives in finds of each kind    *)
(* the newest one, wherever the ring's end falls in it, and takes its      *)
(* fields; only a sign that the ring's end cuts is overlooked.             *)
ScanRight ==
    pc = "end" /\ arrived = 0 /\ out = <<>>
    /\ ~Misleading({(rptr + i - 1) % N : i \in DOMAIN Window}) =>
        \A k \in Kind : \A t \in Texts[k], i \in DOMAIN Window :
            Newest(k, t, i) /\ ~Cut(k, i) => fix[k] = Says[t]

(* When the receiver falls silent after a whole sentence the scan comes to *)
(* its end and init's loop goes on, unless the ring is filled to its end:  *)
(* the index is compared with wptr before it is taken back to 0.           *)
Silent == <>[][~UART1]_vars /\ <>[](out = <<>> /\ wptr # 0)
ScanEnds == Silent /\ <>[]~Misleading(0..N - 1) => []<>(pc = "idle")

----------------------------------------------------------------------------
(* README: init puts "the latitude, longitude, utc time, date, satellite   *)
(* number into their right place": what it takes for the fields of one     *)
(* sentence are the fields of one sentence.                                *)
FieldsTogether ==
    \A k \in Kind : fix[k] \in {<<>>} \cup {Says[t] : t \in Texts[k]}
=============================================================================
