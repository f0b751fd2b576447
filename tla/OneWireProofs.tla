--------------------------- MODULE OneWireProofs ---------------------------
(***************************************************************************)
(* Theorems about OneWire, for identifiers of any length, any set of       *)
(* slaves, any room and any plugging and unplugging.  The first invariant  *)
(* follows the pattern: while it is built, it is the beginning of some     *)
(* slave's identifier, unless the one wrong read has just been used to     *)
(* leave them all; then the search fails at its next bit, if there is one. *)
(* The second one, for a quiet bus, relates the pattern and the two        *)
(* deviations to the order of the slaves, listed and still to be listed.   *)
(***************************************************************************)
EXTENDS OneWire, SequenceTheorems, TLAPS

(* The types, and the room for the entry that is being filled. *)
RoomLeft == pc # "done" => Len(found) < Room
Base == TypeOK /\ RoomLeft

(* The first n bits of d are those of the pattern. *)
Agree(d, n) == \A i \in 1..n : d[i] = pattern[i]

Traced == \E d \in slaves : Agree(d, bit - 1)
Lost == /\ noise = 0 /\ listening = {} /\ bit > 1
        /\ \E d \in slaves : Agree(d, bit - 2)

Heard == pc = "bit" => /\ \A d \in listening : Agree(d, bit - 1)
                       /\ Traced \/ Lost

SomeSlave == pc \in {"bit", "failed"} => slaves # {}

Inv == Base /\ SomeSlave /\ Heard

(* A CRC that tells an identifier from itself with its last bit turned.    *)
LastBitChecked == \A d \in Valid, e \in Valid :
                      (\A i \in 1..W - 1 : d[i] = e[i]) => d = e

----------------------------------------------------------------------------
(* The types of every step.                                                *)
LEMMA InitBase == Init => Base
<1> SUFFICES ASSUME Init PROVE Base
  OBVIOUS
<1> USE SizeAssumption DEF Init
<1>1. Zero \in Id
  BY DEF Zero, Id, Bit
<1>2. found \in Seq([id : Id, CRC_Failure : BOOLEAN]) /\ Len(found) = 0
  OBVIOUS
<1>3. 1 \in 1..W + 1 /\ 0 \in 0..W /\ 0 \in 0..Retries /\ 0 <= Room
      /\ MaxNoise \in 0..MaxNoise /\ MaxMoves \in 0..MaxMoves
  OBVIOUS
<1>4. TypeOK
  BY <1>1, <1>2, <1>3 DEF TypeOK, Code
<1> QED
  BY <1>2, <1>4 DEF Base, RoomLeft

(* A search that starts, from a reset. *)
LEMMA FreshTypes ==
  ASSUME Base, Reset, NEW d \in 0..W, SearchFrom(d), UNCHANGED <<slaves, bus>>
  PROVE  /\ listening' \subseteq bus' /\ bus' \subseteq slaves'
         /\ bit' \in 1..W + 1 /\ newDeviation' \in 0..W /\ lastDeviation' \in 0..W
         /\ pc' \in {"start", "bit", "failed", "done"} /\ presence' \in BOOLEAN
<1>1. bit' = 1 /\ pc' = "bit" /\ newDeviation' = 0 /\ lastDeviation' = d
  BY DEF SearchFrom
<1>2. presence' \in BOOLEAN
  BY DEF Reset
<1> QED
  BY <1>1, <1>2, SizeAssumption DEF Reset, Base, TypeOK

(* One bit of the search, whatever was read. *)
LEMMA ReadTypes ==
  ASSUME Base, pc = "bit", bit <= W, NEW a \in Bit, NEW b \in Bit, Read(a, b)
  PROVE  /\ Choice(a, b) \in Bit
         /\ pattern' \in Id /\ bit' \in 1..W + 1
         /\ newDeviation' \in 0..W /\ listening' \subseteq listening
         /\ pc' \in {"bit", "failed"}
<1>0. pattern \in Id /\ bit \in 1..W /\ newDeviation \in 0..W /\ W \in Nat \ {0}
  BY SizeAssumption DEF Base, TypeOK
<1>1. Choice(a, b) \in Bit
  BY <1>0 DEF Choice, Id, Bit
<1>2. CASE a = 1 /\ b = 1
  BY <1>0, <1>1, <1>2 DEF Read, searchVars
<1>3. CASE ~(a = 1 /\ b = 1)
  <2>1. pattern' \in Id
    BY <1>0, <1>1, <1>3 DEF Read, Id
  <2>2. newDeviation' \in 0..W
    BY <1>0, <1>3 DEF Read, Deviation
  <2> QED
    BY <1>0, <1>1, <1>3, <2>1, <2>2 DEF Read
<1> QED
  BY <1>2, <1>3

LEMMA ReadBase ==
  ASSUME Base, pc = "bit", bit <= W, NEW a \in Bit, NEW b \in Bit, Read(a, b),
         UNCHANGED <<slaves, bus, moves, lastDeviation, presence, tries, found, result>>,
         noise' \in 0..MaxNoise
  PROVE  Base'
<1>1. TypeOK'
  BY ReadTypes DEF Base, TypeOK
<1>2. RoomLeft'
  BY ReadTypes DEF Base, RoomLeft
<1> QED
  BY <1>1, <1>2 DEF Base

LEMMA Wires ==
  WireA \in Bit /\ WireB \in Bit /\ 1 - WireA \in Bit /\ 1 - WireB \in Bit
BY DEF WireA, WireB, Bit

LEMMA StartBase == Base /\ Start => Base'
<1> SUFFICES ASSUME Base, Start PROVE Base'
  OBVIOUS
<1>0. /\ Retries \in 0..Retries /\ 0 \in 0..W /\ UNCHANGED <<busVars, slaves, bus>>
      /\ UNCHANGED <<pattern, found, result>> /\ Reset /\ tries' = Retries
  BY SizeAssumption DEF Start, busVars
<1>1. CASE presence'
  <2>1. SearchFrom(0) /\ pc = "start"
    BY <1>1 DEF Start
  <2>2. TypeOK'
    BY <1>0, <2>1, FreshTypes DEF Base, TypeOK, busVars
  <2> QED
    BY <1>0, <2>1, <2>2 DEF Base, RoomLeft
<1>2. CASE ~presence'
  <2>1. /\ pc' = "done" /\ UNCHANGED <<bit, newDeviation, lastDeviation>>
        /\ listening' \subseteq bus' /\ presence' \in BOOLEAN
    BY <1>0, <1>2 DEF Start, Reset
  <2>2. TypeOK'
    BY <1>0, <2>1 DEF Base, TypeOK, busVars
  <2> QED
    BY <2>1, <2>2 DEF Base, RoomLeft
<1> QED
  BY <1>1, <1>2

LEMMA FailedBase == Base /\ Failed => Base'
<1> SUFFICES ASSUME Base, Failed PROVE Base'
  OBVIOUS
<1>0. UNCHANGED <<busVars, slaves, bus, pattern, found>> /\ pc = "failed"
  BY DEF Failed, busVars
<1>1. CASE presence /\ tries > 0
  <2>1. /\ Reset /\ SearchFrom(0) /\ result' = result
        /\ tries' \in 0..Retries /\ 0 \in 0..W
    BY <1>0, <1>1, SizeAssumption DEF Failed, Base, TypeOK
  <2>2. TypeOK'
    BY <1>0, <2>1, FreshTypes DEF Base, TypeOK, busVars
  <2> QED
    BY <1>0, <2>1, <2>2 DEF Base, RoomLeft
<1>2. CASE ~(presence /\ tries > 0)
  <2>1. /\ pc' = "done" /\ result' \in Code
        /\ UNCHANGED <<presence, listening, tries, bit, newDeviation, lastDeviation>>
    BY <1>2 DEF Failed, Code
  <2>2. TypeOK'
    BY <1>0, <2>1 DEF Base, TypeOK, busVars
  <2> QED
    BY <2>1, <2>2 DEF Base, RoomLeft
<1> QED
  BY <1>1, <1>2

LEMMA EntryBase ==
  ASSUME Base, Entry
  PROVE  Base' /\ Len(found') = Len(found) + 1
<1> DEFINE e == [id |-> pattern, CRC_Failure |-> FALSE]
<1>0. /\ UNCHANGED <<busVars, slaves, bus, pattern>> /\ pc = "bit"
      /\ found' = Append(found, e)
  BY DEF Entry, busVars
<1>1. e \in [id : Id, CRC_Failure : BOOLEAN]
  BY DEF Base, TypeOK
<1>2. /\ found' \in Seq([id : Id, CRC_Failure : BOOLEAN])
      /\ Len(found') = Len(found) + 1 /\ Len(found') <= Room
  BY <1>0, <1>1, SizeAssumption DEF Base, TypeOK, RoomLeft
<1>3. CASE More /\ bus # {}
  <2>1. /\ Reset /\ SearchFrom(newDeviation) /\ result' = result
        /\ tries' \in 0..Retries /\ newDeviation \in 0..W /\ Len(found') < Room
    BY <1>0, <1>2, <1>3, SizeAssumption DEF Entry, More, Base, TypeOK
  <2>2. TypeOK'
    BY <1>0, <1>2, <2>1, FreshTypes DEF Base, TypeOK, busVars
  <2> QED
    BY <1>2, <2>1, <2>2 DEF Base, RoomLeft
<1>4. CASE ~(More /\ bus # {})
  <2>1. /\ pc' = "done" /\ result' \in Code /\ presence' \in BOOLEAN
        /\ UNCHANGED <<listening, tries, bit, newDeviation, lastDeviation>>
    BY <1>4 DEF Entry, Code
  <2>2. TypeOK'
    BY <1>0, <1>2, <2>1 DEF Base, TypeOK, busVars
  <2> QED
    BY <1>2, <2>1, <2>2 DEF Base, RoomLeft
<1> QED
  BY <1>3, <1>4

LEMMA MoveBase ==
  ASSUME Base, Move
  PROVE  /\ Base' /\ moves' # MaxMoves
         /\ UNCHANGED <<slaves, found, pc, bit, pattern, noise>>
         /\ listening' = listening \cap bus'
<1>1. /\ bus' \subseteq slaves /\ listening' = listening \cap bus'
      /\ moves' \in 0..MaxMoves /\ moves' # MaxMoves
      /\ UNCHANGED <<slaves, noise, bit, pattern, newDeviation, pc,
                     lastDeviation, presence, tries, found, result>>
  BY SizeAssumption DEF Move, Base, TypeOK
<1>2. TypeOK'
  BY <1>1 DEF Base, TypeOK
<1> QED
  BY <1>1, <1>2 DEF Base, RoomLeft

LEMMA SearchBitBase == Base /\ SearchBit => Base'
<1> SUFFICES ASSUME Base, SearchBit PROVE Base'
  OBVIOUS
<1>1. noise' \in 0..MaxNoise
  BY DEF SearchBit, busVars, Base, TypeOK
<1> QED
  BY <1>1, Wires, ReadBase DEF SearchBit, busVars

LEMMA NoisyBitBase ==
  ASSUME Base, NoisyBit PROVE Base' /\ noise' # MaxNoise
<1>1. noise' \in 0..MaxNoise /\ noise' # MaxNoise
  BY SizeAssumption DEF NoisyBit, Base, TypeOK
<1>2. PICK a \in Bit, b \in Bit : Read(a, b)
  BY Wires DEF NoisyBit
<1> QED
  BY <1>1, <1>2, ReadBase DEF NoisyBit

LEMMA BaseStep == Base /\ [Next]_vars => Base'
<1> SUFFICES ASSUME Base, [Next]_vars PROVE Base'
  OBVIOUS
<1>1. CASE UNCHANGED vars
  BY <1>1 DEF vars, busVars, searchVars, Base, TypeOK, RoomLeft
<1> QED
  BY <1>1, StartBase, SearchBitBase, NoisyBitBase, FailedBase, EntryBase, MoveBase
     DEF Next, Search

(* The variables keep their types, and the array is not overrun, for any   *)
(* number of slaves and any noise.                                         *)
THEOREM OneWireTypes == Spec => []TypeOK
<1>1. Base => TypeOK
  BY DEF Base
<1> QED
  BY <1>1, InitBase, BaseStep, PTL DEF Spec

----------------------------------------------------------------------------
(* What is heard.                                                          *)
(* If the search goes on after it, the pattern grew by the chosen bit.     *)
LEMMA ReadAgrees ==
  ASSUME Base, pc = "bit", bit <= W, NEW a \in Bit, NEW b \in Bit, Read(a, b),
         ~(a = 1 /\ b = 1)
  PROVE  /\ bit' = bit + 1
         /\ listening' = {d \in listening : d[bit] = Choice(a, b)}
         /\ \A d : Agree(d, bit - 1) => Agree(d, bit - 1)' \/ d[bit] # Choice(a, b)
         /\ \A d : Agree(d, bit - 1) => Agree(d, bit - 2)'
<1>0. bit \in 1..W /\ W \in Nat /\ pattern \in [1..W -> Bit]
  BY SizeAssumption DEF Base, TypeOK, Id
<1>1. /\ bit' = bit + 1
      /\ pattern' = [pattern EXCEPT ![bit] = Choice(a, b)]
      /\ listening' = {d \in listening : d[bit] = Choice(a, b)}
  BY DEF Read
<1>2. /\ pattern'[bit] = Choice(a, b)
      /\ \A i \in 1..bit - 1 : pattern'[i] = pattern[i]
  BY <1>0, <1>1
<1>3. bit' - 1 = bit /\ bit' - 2 = bit - 1
  BY <1>0, <1>1
<1>4. 1..bit = (1..bit - 1) \cup {bit}
  BY <1>0
<1> QED
  BY <1>1, <1>2, <1>3, <1>4 DEF Agree

(* What is read on a bus without noise is answered by some listener.       *)
LEMMA Answered ==
  ASSUME Base, pc = "bit", bit <= W, ~(WireA = 1 /\ WireB = 1)
  PROVE  \E d \in listening : d[bit] = Choice(WireA, WireB)
<1>0. /\ listening \subseteq Id /\ bit \in 1..W /\ pattern[bit] \in Bit
      /\ \A d \in listening : d[bit] \in Bit
  <2>1. listening \subseteq Id /\ pattern \in Id
    BY ValidAssumption DEF Base, TypeOK
  <2>2. bit \in 1..W
    BY SizeAssumption DEF Base, TypeOK
  <2> QED
    BY <2>1, <2>2 DEF Id
<1>1. WireA \in Bit /\ WireB \in Bit
  BY DEF WireA, WireB, Bit
<1>2. PICK d \in listening : TRUE
  BY DEF WireA, WireB
<1>3. CASE WireA = 1 /\ WireB = 0
  BY <1>2, <1>3 DEF WireA, Choice
<1>4. CASE WireA = 0 /\ WireB = 1
  BY <1>2, <1>4 DEF WireB, Choice
<1>5. CASE WireA = 0 /\ WireB = 0
  <2>1. \E e \in listening : e[bit] = 0
    BY <1>0, <1>5 DEF WireA, Bit
  <2>2. \E e \in listening : e[bit] = 1
    BY <1>0, <1>5 DEF WireB, Bit
  <2>3. Choice(WireA, WireB) \in {0, 1}
    BY <1>0, <1>5 DEF Choice, Bit
  <2> QED
    BY <2>1, <2>2, <2>3
<1> QED
  BY <1>1, <1>3, <1>4, <1>5 DEF Bit

(* A search that starts agrees with every slave. *)
LEMMA Fresh ==
  ASSUME NEW d, SearchFrom(d), slaves # {}, UNCHANGED slaves
  PROVE  Heard' /\ SomeSlave'
<1>1. bit' = 1 /\ pc' = "bit"
  BY DEF SearchFrom
<1>2. \A e : Agree(e, bit - 1)'
  BY <1>1 DEF Agree
<1> QED
  BY <1>1, <1>2 DEF Heard, Traced, SomeSlave

LEMMA ReadStep ==
  ASSUME Inv, Base', pc = "bit", bit <= W, NEW a \in Bit, NEW b \in Bit, Read(a, b),
         slaves' = slaves, pc' = "bit" => Traced' \/ Lost'
  PROVE  Inv'
<1>1. Base
  BY DEF Inv
<1>2. SomeSlave'
  BY <1>1, ReadTypes DEF Inv, SomeSlave
<1>3. ASSUME pc' = "bit", NEW d \in listening' PROVE Agree(d, bit - 1)'
  <2>1. ~(a = 1 /\ b = 1)
    BY <1>3 DEF Read
  <2>2. d \in listening /\ d[bit] = Choice(a, b)
    BY <1>1, <1>3, <2>1, ReadAgrees
  <2>3. Agree(d, bit - 1)
    BY <2>2 DEF Inv, Heard
  <2> QED
    BY <1>1, <2>1, <2>2, <2>3, ReadAgrees
<1> QED
  BY <1>2, <1>3 DEF Inv, Heard

LEMMA SearchBitStep == Inv /\ SearchBit => Inv'
<1> SUFFICES ASSUME Inv, SearchBit PROVE Inv'
  OBVIOUS
<1>1. Base /\ Base' /\ slaves' = slaves
  BY SearchBitBase DEF Inv, SearchBit, busVars
<1>2. ASSUME pc' = "bit" PROVE Traced'
  <2>1. ~(WireA = 1 /\ WireB = 1)
    BY <1>2 DEF SearchBit, Read
  <2>2. PICK d \in listening : d[bit] = Choice(WireA, WireB)
    BY <1>1, <2>1, Answered DEF SearchBit
  <2>3. Agree(d, bit - 1) /\ d \in slaves
    BY <1>1, <2>2 DEF Inv, Heard, Base, TypeOK, SearchBit
  <2>4. Agree(d, bit - 1)'
    BY <1>1, <2>1, <2>2, <2>3, Wires, ReadAgrees DEF SearchBit
  <2> QED
    BY <1>1, <2>3, <2>4 DEF Traced
<1> QED
  BY <1>1, <1>2, Wires, ReadStep DEF SearchBit

(* The one wrong read may lose every slave, at this bit and not before.    *)
LEMMA NoisyBitStep == MaxNoise <= 1 /\ Inv /\ NoisyBit => Inv'
<1> SUFFICES ASSUME MaxNoise <= 1, Inv, NoisyBit PROVE Inv'
  OBVIOUS
<1>0. noise = 1 /\ noise' = 0
  BY SizeAssumption DEF NoisyBit, Inv, Base, TypeOK
<1>1. Base /\ Base' /\ slaves' = slaves
  BY NoisyBitBase DEF Inv, NoisyBit
<1>2. PICK a \in Bit, b \in Bit : Read(a, b)
  BY Wires DEF NoisyBit
<1>3. ASSUME pc' = "bit" PROVE Traced' \/ Lost'
  <2>1. ~(a = 1 /\ b = 1)
    BY <1>2, <1>3 DEF Read
  <2>2. PICK d \in slaves : Agree(d, bit - 1)
    BY <1>0 DEF Inv, Heard, Traced, Lost, NoisyBit
  <2>3. CASE \E e \in listening : e[bit] = Choice(a, b)
    <3>1. PICK e \in listening : e[bit] = Choice(a, b)
      BY <2>3
    <3>2. Agree(e, bit - 1) /\ e \in slaves
      BY <1>1, <3>1 DEF Inv, Heard, Base, TypeOK, NoisyBit
    <3>3. Agree(e, bit - 1)'
      BY <1>1, <1>2, <2>1, <3>1, <3>2, ReadAgrees DEF NoisyBit
    <3> QED
      BY <1>1, <3>2, <3>3 DEF Traced
  <2>4. CASE \A e \in listening : e[bit] # Choice(a, b)
    <3>1. listening' = {} /\ bit' = bit + 1 /\ Agree(d, bit - 2)'
      BY <1>1, <1>2, <2>1, <2>2, <2>4, ReadAgrees DEF NoisyBit
    <3>2. bit' > 1
      BY <1>1, <3>1 DEF Base, TypeOK
    <3> QED
      BY <1>0, <1>1, <2>2, <3>1, <3>2 DEF Lost
  <2> QED
    BY <2>3, <2>4
<1> QED
  BY <1>1, <1>2, <1>3, ReadStep DEF NoisyBit

(* The steps that begin a search, or end it for good.                      *)
LEMMA SearchStep == Inv /\ (Start \/ Failed \/ Entry) => Inv'
<1> SUFFICES ASSUME Inv, Start \/ Failed \/ Entry PROVE Inv'
  OBVIOUS
<1>1. Base /\ Base' /\ slaves' = slaves
  BY StartBase, FailedBase, EntryBase DEF Inv, Start, Failed, Entry, busVars
<1>2. CASE pc' = "done"
  BY <1>1, <1>2 DEF Inv, SomeSlave, Heard
<1>3. CASE \E d \in 0..W : SearchFrom(d) /\ slaves # {}
  BY <1>1, <1>3, Fresh DEF Inv
<1>4. Start => pc' = "done" \/ (SearchFrom(0) /\ slaves # {})
  BY <1>1 DEF Start, Reset, Base, TypeOK
<1>5. Failed => pc' = "done" \/ (SearchFrom(0) /\ slaves # {})
  BY DEF Failed, Inv, SomeSlave
<1>6. Entry => pc' = "done" \/ (SearchFrom(newDeviation) /\ slaves # {})
  BY DEF Entry, Inv, SomeSlave
<1>7. 0 \in 0..W /\ newDeviation \in 0..W
  BY <1>1, SizeAssumption DEF Base, TypeOK
<1> QED
  BY <1>2, <1>3, <1>4, <1>5, <1>6, <1>7

LEMMA MoveStep == Inv /\ Move => Inv'
<1> SUFFICES ASSUME Inv, Move PROVE Inv'
  OBVIOUS
<1>1. /\ Base' /\ UNCHANGED <<slaves, found, pc, bit, pattern, noise>>
      /\ listening' = listening \cap bus'
  BY MoveBase DEF Inv
<1>2. Heard'
  BY <1>1 DEF Inv, Heard, Traced, Lost, Agree
<1> QED
  BY <1>1, <1>2 DEF Inv, SomeSlave

LEMMA InvStep == MaxNoise <= 1 /\ Inv /\ [Next]_vars => Inv'
<1> SUFFICES ASSUME MaxNoise <= 1, Inv, [Next]_vars PROVE Inv'
  OBVIOUS
<1>1. CASE UNCHANGED vars
  BY <1>1 DEF vars, busVars, searchVars, Inv, Base, TypeOK, RoomLeft, SomeSlave,
     Heard, Traced, Lost, Agree
<1> QED
  BY <1>1, SearchBitStep, NoisyBitStep, SearchStep, MoveStep DEF Next, Search

LEMMA InitInv == Init => Inv
BY InitBase DEF Init, Inv, SomeSlave, Heard

----------------------------------------------------------------------------
(* The entry that is filled is a slave's, unless its CRC is wrong.         *)
LEMMA EntryReal ==
  ASSUME LastBitChecked, Inv, Entry, pattern \in Valid
  PROVE  pattern \in slaves
<1>a. /\ W \in Nat /\ bit \in 1..W + 1 /\ bit > W
      /\ pattern \in Id /\ slaves \subseteq Valid /\ pc = "bit"
  BY SizeAssumption DEF Inv, Base, TypeOK, Entry
<1>b. bit = W + 1
  BY <1>a
<1>0. /\ bit - 1 = W /\ bit - 2 = W - 1 /\ pattern \in Id /\ slaves \subseteq Valid
      /\ pc = "bit" /\ W \in Nat
  BY <1>a, <1>b
<1>1. CASE Traced
  <2>1. PICK d \in slaves : Agree(d, W)
    BY <1>0, <1>1 DEF Traced
  <2>2. \A i \in 1..W - 1 : d[i] = pattern[i]
    BY <1>0, <2>1 DEF Agree
  <2> QED
    BY <1>0, <2>1, <2>2 DEF LastBitChecked
<1>2. CASE Lost
  <2>1. PICK d \in slaves : Agree(d, W - 1)
    BY <1>0, <1>2 DEF Lost
  <2> QED
    BY <1>0, <2>1 DEF LastBitChecked, Agree
<1> QED
  BY <1>0, <1>1, <1>2 DEF Inv, Heard

LEMMA FoundRealStep ==
  ASSUME LastBitChecked, Inv, FoundReal, [Next]_vars
  PROVE  FoundReal'
<1>0. found \in Seq([id : Id, CRC_Failure : BOOLEAN])
  BY DEF Inv, Base, TypeOK
<1>1. CASE Entry
  <2>1. /\ slaves' = slaves
        /\ found' = Append(found, [id |-> pattern, CRC_Failure |-> FALSE])
    BY <1>1 DEF Entry, busVars
  <2>2. /\ DOMAIN found' = DOMAIN found \cup {Len(found) + 1}
        /\ \A i \in DOMAIN found : found'[i] = found[i]
        /\ found'[Len(found) + 1] = [id |-> pattern, CRC_Failure |-> FALSE]
    BY <1>0, <2>1
  <2> QED
    BY <1>1, <2>1, <2>2, EntryReal DEF FoundReal, Ids
<1>2. CASE UNCHANGED <<found, slaves>>
  BY <1>2 DEF FoundReal, Ids
<1> QED
  BY <1>1, <1>2 DEF Next, Search, Start, SearchBit, NoisyBit, Failed, Move,
     busVars, vars

(* Slaves come and go and one bit is misread: what the array then holds    *)
(* with a right CRC is a slave's identifier, if the CRC checks the last    *)
(* bit at least.                                                           *)
THEOREM OneWireFoundReal ==
  ASSUME MaxNoise <= 1, LastBitChecked
  PROVE  Spec => []FoundReal
<1>1. Init => Inv /\ FoundReal
  BY InitInv DEF Init, FoundReal, Ids
<1>2. Inv /\ FoundReal /\ [Next]_vars => (Inv /\ FoundReal)'
  BY InvStep, FoundRealStep
<1> QED
  BY <1>1, <1>2, PTL DEF Spec

----------------------------------------------------------------------------
(* A quiet bus.  The invariant says where the search stands among the      *)
(* slaves: what is listed comes before the entry that is being filled, and *)
(* the last 0 chosen at a fork is the place where the next search has to   *)
(* turn off.                                                               *)

(* d and e are the same up to j, where d has the 0 and e the 1.            *)
ForkAt(d, e, j) == /\ d[j] = 0 /\ e[j] = 1
                   /\ \A i \in 1..j - 1 : d[i] = e[i]

(* k is the last place up to n where a slave forks off p, 0 if none does.  *)
LastFork(p, n, k) ==
    /\ \A d \in slaves : \A j \in 1..n : ForkAt(p, d, j) => j <= k
    /\ k # 0 => k \in 1..n /\ \E d \in slaves : ForkAt(p, d, k)

Todo == slaves \ Abs!Listed
Previous == Ids[Len(found)]

(* The listeners are the slaves that agree so far; those still to be found *)
(* agree too or have been left behind at a fork, for a later search.       *)
Branch == /\ listening = {d \in slaves : Agree(d, bit - 1)}
          /\ listening # {}
          /\ LastFork(pattern, bit - 1, newDeviation)
          /\ \A d \in Todo : Agree(d, bit - 1) \/ \E j \in 1..bit - 1 : ForkAt(pattern, d, j)

(* The search follows p, the last identifier listed, up to k, its last     *)
(* fork, and turns off there.                                              *)
Follows(p, k) == /\ k # 0 /\ LastFork(p, W, k)
                 /\ \A i \in 1..W : i < k \/ i >= bit => pattern[i] = p[i]
                 /\ k < bit => pattern[k] = 1

(* p is the last one of those listed, and comes before those to be found.  *)
LastListed(p) == /\ p \in Abs!Listed
                 /\ \A d \in Abs!Listed : d = p \/ Abs!Before(d, p)
                 /\ \A d \in Todo : Abs!Before(p, d)

Resumed == IF found = <<>> THEN lastDeviation = 0
           ELSE Follows(Previous, lastDeviation) /\ LastListed(Previous)

Ordered == /\ bus = slaves /\ pc # "failed" /\ Abs!Listed \subseteq slaves
           /\ pc = "start" => found = <<>>
           /\ pc = "bit" => Branch /\ Resumed
           /\ pc = "done" => Len(found) = Room \/ Abs!Listed = slaves
QuietInv == Quiet => Ordered

LEMMA BeforeTransitive ==
  ASSUME NEW d \in Id, NEW e \in Id, NEW f \in Id, Abs!Before(d, e), Abs!Before(e, f)
  PROVE  Abs!Before(d, f)
<1>0. DOMAIN d = 1..W /\ DOMAIN e = 1..W /\ W \in Nat
  BY SizeAssumption DEF Id
<1>1. PICK j \in 1..W : ForkAt(d, e, j)
  BY <1>0 DEF Abs!Before, ForkAt
<1>2. PICK k \in 1..W : ForkAt(e, f, k)
  BY <1>0 DEF Abs!Before, ForkAt
<1>3. CASE j < k
  <2>1. ForkAt(d, f, j)
    BY <1>0, <1>1, <1>2, <1>3 DEF ForkAt
  <2> QED
    BY <1>0, <2>1 DEF Abs!Before, ForkAt
<1>4. CASE k < j
  <2>1. ForkAt(d, f, k)
    BY <1>0, <1>1, <1>2, <1>4 DEF ForkAt
  <2> QED
    BY <1>0, <2>1 DEF Abs!Before, ForkAt
<1>5. j # k
  BY <1>1, <1>2 DEF ForkAt
<1> QED
  BY <1>3, <1>4, <1>5

LEMMA BeforeAsymmetric ==
  ASSUME NEW d \in Id, NEW e \in Id, Abs!Before(d, e)
  PROVE  d # e /\ ~Abs!Before(e, d)
<1>0. DOMAIN d = 1..W /\ DOMAIN e = 1..W /\ W \in Nat
  BY SizeAssumption DEF Id
<1>1. PICK j \in 1..W : ForkAt(d, e, j)
  BY <1>0 DEF Abs!Before, ForkAt
<1>2. ASSUME Abs!Before(e, d) PROVE FALSE
  <2>1. PICK k \in 1..W : ForkAt(e, d, k)
    BY <1>0, <1>2 DEF Abs!Before, ForkAt
  <2> QED
    BY <1>0, <1>1, <2>1 DEF ForkAt
<1> QED
  BY <1>1, <1>2 DEF ForkAt

LEMMA ForkIsBefore ==
  ASSUME NEW d \in Id, NEW e, NEW j \in 1..W, ForkAt(d, e, j)
  PROVE  Abs!Before(d, e)
BY DEF Id, ForkAt, Abs!Before

LEMMA BeforeIsFork ==
  ASSUME NEW d \in Id, NEW e, Abs!Before(d, e)
  PROVE  \E j \in 1..W : ForkAt(d, e, j)
BY DEF Id, ForkAt, Abs!Before

(* What is listed, before and after an entry is filled.                    *)
LEMMA ListedTypes ==
  ASSUME Base
  PROVE  Ids \in [1..Len(found) -> Id] /\ Abs!Listed \subseteq Id
<1>1. /\ found \in Seq([id : Id, CRC_Failure : BOOLEAN])
      /\ DOMAIN found = 1..Len(found)
  BY DEF Base, TypeOK
<1>2. \A i \in 1..Len(found) : found[i].id \in Id
  <2>1. \A i \in 1..Len(found) : found[i] \in [id : Id, CRC_Failure : BOOLEAN]
    BY <1>1, ElementOfSeq
  <2> QED
    BY <2>1
<1>3. Ids \in [1..Len(found) -> Id]
  BY <1>1, <1>2 DEF Ids
<1> QED
  BY <1>3 DEF Abs!Listed

LEMMA ListedGrows ==
  ASSUME Base, Entry
  PROVE  /\ Ids' = Append(Ids, pattern)
         /\ Abs!Listed' = Abs!Listed \cup {pattern}
         /\ Previous' = pattern /\ found' # <<>>
<1> DEFINE e == [id |-> pattern, CRC_Failure |-> FALSE]
<1>1. found' = Append(found, e) /\ found \in Seq([id : Id, CRC_Failure : BOOLEAN])
  BY DEF Entry, Base, TypeOK
<1>2. /\ Len(found') = Len(found) + 1 /\ Len(found) \in Nat
      /\ DOMAIN found = 1..Len(found) /\ DOMAIN found' = 1..Len(found) + 1
      /\ \A i \in 1..Len(found) : found'[i] = found[i]
      /\ found'[Len(found) + 1] = e
  BY <1>1
<1>3. Ids = [i \in 1..Len(found) |-> found[i].id] /\ Ids' = [i \in 1..Len(found) + 1 |-> found'[i].id]
  BY <1>2 DEF Ids
<1>4. Ids \in Seq(Id) /\ Len(Ids) = Len(found)
  BY <1>2, ListedTypes
<1>5. pattern \in Id
  BY DEF Base, TypeOK
<1>6. \A i \in 1..Len(found) + 1 : Ids'[i] = Append(Ids, pattern)[i]
  BY <1>2, <1>3, <1>4, <1>5
<1>7. Ids' = Append(Ids, pattern)
  <2>1. /\ Append(Ids, pattern) \in Seq(Id)
        /\ Len(Append(Ids, pattern)) = Len(found) + 1
    BY <1>4, <1>5, AppendProperties
  <2>2. Ids' \in [1..Len(found) + 1 -> Id]
    BY <1>2, <1>3, <1>5, <1>6, ListedTypes
  <2>3. Ids' \in Seq(Id) /\ Len(Ids') = Len(found) + 1
    BY <1>2, <2>2
  <2> QED
    BY <1>6, <2>1, <2>3, SeqEqual
<1>8. Abs!Listed' = Abs!Listed \cup {pattern}
  <2>1. Abs!Listed = {Ids[i] : i \in 1..Len(found)}
    BY <1>3 DEF Abs!Listed
  <2>2. Abs!Listed' = {Ids'[i] : i \in 1..Len(found) + 1}
    BY <1>3 DEF Abs!Listed
  <2>3. \A i \in 1..Len(found) : Ids'[i] = Ids[i]
    BY <1>2, <1>3
  <2>4. Ids'[Len(found) + 1] = pattern
    BY <1>2, <1>3
  <2>5. 1..Len(found) + 1 = (1..Len(found)) \cup {Len(found) + 1}
    BY <1>2
  <2> QED
    BY <2>1, <2>2, <2>3, <2>4, <2>5
<1>9. Previous' = pattern
  BY <1>2, <1>3 DEF Previous
<1> QED
  BY <1>2, <1>7, <1>8, <1>9

----------------------------------------------------------------------------
(* The steps on a quiet bus.                                               *)
(* A search that starts follows the pattern of the last entry.             *)
LEMMA FreshBranch ==
  ASSUME Base, NEW d, SearchFrom(d), Reset, bus = slaves, slaves # {},
         UNCHANGED <<slaves, pattern>>
  PROVE  Branch'
<1>1. bit' = 1 /\ newDeviation' = 0 /\ listening' = slaves'
  BY DEF SearchFrom, Reset
<1>2. \A e : Agree(e, bit - 1)'
  BY <1>1 DEF Agree
<1>3. LastFork(pattern, bit - 1, newDeviation)'
  BY <1>1 DEF LastFork
<1> QED
  BY <1>1, <1>2, <1>3 DEF Branch

LEMMA StartQuiet ==
  ASSUME Base, Ordered, Start
  PROVE  Ordered'
<1>0. /\ Reset /\ UNCHANGED <<slaves, bus, pattern, found>> /\ pc = "start"
      /\ bus = slaves /\ found = <<>> /\ Abs!Listed \subseteq slaves
  BY DEF Start, busVars, Ordered
<1>1. Abs!Listed' = Abs!Listed /\ Abs!Listed = {}
  <2>1. Len(found) = 0
    BY <1>0
  <2> QED
    BY <1>0, <2>1, ListedTypes DEF Abs!Listed, Ids
<1>2. CASE slaves # {}
  <2>1. SearchFrom(0)
    BY <1>0, <1>2 DEF Start, Reset
  <2>2. Branch'
    BY <1>0, <1>2, <2>1, FreshBranch
  <2>3. Resumed' /\ pc' = "bit"
    BY <1>0, <2>1 DEF Resumed, SearchFrom
  <2> QED
    BY <1>0, <1>1, <2>2, <2>3 DEF Ordered
<1>3. CASE slaves = {}
  <2>1. pc' = "done"
    BY <1>0, <1>3 DEF Start, Reset
  <2> QED
    BY <1>0, <1>1, <1>3, <2>1 DEF Ordered
<1> QED
  BY <1>2, <1>3

(* The identifier of an entry is that of the slave to be listed next.      *)
LEMMA EntryNext ==
  ASSUME Base, Ordered, Entry
  PROVE  /\ pattern \in Todo
         /\ \A d \in Todo : d = pattern \/ Abs!Before(pattern, d)
         /\ \A d \in Abs!Listed : Abs!Before(d, pattern)
         /\ LastFork(pattern, W, newDeviation)
<1>0. /\ W \in Nat \ {0} /\ bit = W + 1 /\ pc = "bit" /\ Branch /\ Resumed
      /\ pattern \in Id /\ slaves \subseteq Id /\ Abs!Listed \subseteq Id
      /\ lastDeviation \in 0..W
  <2>1. pc = "bit" /\ Branch /\ Resumed
    BY DEF Entry, Ordered
  <2>2. pattern \in Id /\ slaves \subseteq Id /\ Abs!Listed \subseteq Id
    BY ValidAssumption, ListedTypes DEF Base, TypeOK
  <2>3. /\ W \in Nat \ {0} /\ bit \in 1..W + 1 /\ bit > W
        /\ lastDeviation \in 0..W
    BY SizeAssumption DEF Entry, Base, TypeOK
  <2> QED
    BY <2>1, <2>2, <2>3
<1>1. bit - 1 = W
  BY <1>0
<1>2. \A d \in slaves : Agree(d, W) => d = pattern
  BY <1>0 DEF Agree, Id
<1>3. pattern \in slaves
  BY <1>0, <1>1, <1>2 DEF Branch
<1>4. LastFork(pattern, W, newDeviation)
  BY <1>0, <1>1 DEF Branch
<1>5. \A d \in Todo : d = pattern \/ Abs!Before(pattern, d)
  <2> SUFFICES ASSUME NEW d \in Todo, d # pattern PROVE Abs!Before(pattern, d)
    OBVIOUS
  <2>1. PICK j \in 1..W : ForkAt(pattern, d, j)
    BY <1>0, <1>1, <1>2 DEF Branch, Todo
  <2> QED
    BY <1>0, <2>1, ForkIsBefore
<1>6. \A d \in Abs!Listed : Abs!Before(d, pattern)
  <2>1. CASE found = <<>>
    <3>1. Abs!Listed = {}
      BY <2>1, ListedTypes DEF Abs!Listed, Ids
    <3> QED
      BY <3>1
  <2>2. CASE found # <<>>
    <3>1. Follows(Previous, lastDeviation) /\ LastListed(Previous)
      BY <1>0, <2>2 DEF Resumed
    <3>2. Previous \in Id /\ lastDeviation \in 1..W
      BY <1>0, <3>1 DEF LastListed, Follows
    <3>3. ForkAt(Previous, pattern, lastDeviation)
      <4>1. Previous[lastDeviation] = 0
        BY <3>1 DEF Follows, LastFork, ForkAt
      <4>2. /\ pattern[lastDeviation] = 1
            /\ \A i \in 1..lastDeviation - 1 : pattern[i] = Previous[i]
        BY <1>0, <3>1, <3>2 DEF Follows
      <4> QED
        BY <4>1, <4>2 DEF ForkAt
    <3>4. Abs!Before(Previous, pattern)
      BY <3>2, <3>3, ForkIsBefore
    <3> QED
      BY <1>0, <3>1, <3>2, <3>4, BeforeTransitive DEF LastListed
  <2> QED
    BY <2>1, <2>2
<1>7. pattern \notin Abs!Listed
  BY <1>0, <1>6, BeforeAsymmetric
<1> QED
  BY <1>3, <1>4, <1>5, <1>6, <1>7 DEF Todo

LEMMA EntryQuiet ==
  ASSUME Base, Ordered, Entry
  PROVE  Ordered'
<1>0. /\ UNCHANGED <<slaves, bus, pattern>> /\ bus = slaves
      /\ Abs!Listed \subseteq slaves
      /\ Base' /\ Len(found') = Len(found) + 1 /\ pc = "bit"
  BY EntryBase DEF Entry, busVars, Ordered
<1>1. /\ Abs!Listed' = Abs!Listed \cup {pattern}
      /\ Previous' = pattern /\ found' # <<>>
  BY ListedGrows
<1>2. /\ pattern \in Todo
      /\ \A d \in Todo : d = pattern \/ Abs!Before(pattern, d)
      /\ \A d \in Abs!Listed : Abs!Before(d, pattern)
      /\ LastFork(pattern, W, newDeviation)
  BY EntryNext
<1>3. Todo' = Todo \ {pattern} /\ pattern \in slaves /\ Abs!Listed' \subseteq slaves'
  BY <1>0, <1>1, <1>2 DEF Todo
<1>4. LastListed(pattern)'
  BY <1>0, <1>1, <1>2, <1>3 DEF LastListed
<1>5. CASE More
  <2>1. Reset /\ SearchFrom(newDeviation) /\ newDeviation # 0
    BY <1>0, <1>2, <1>5 DEF Entry, More, Todo
  <2>2. Branch'
    BY <1>0, <1>3, <2>1, FreshBranch
  <2>3. bit' = 1 /\ lastDeviation' = newDeviation /\ pc' = "bit"
    BY <2>1 DEF SearchFrom
  <2>4. newDeviation \in Nat
    BY DEF Base, TypeOK
  <2>5. Follows(pattern, lastDeviation)'
    BY <1>0, <1>2, <2>1, <2>3, <2>4 DEF Follows, LastFork, ForkAt
  <2>6. Resumed'
    BY <1>0, <1>1, <1>4, <2>5 DEF Resumed
  <2> QED
    BY <1>0, <1>3, <2>2, <2>3, <2>6 DEF Ordered
<1>6. CASE ~More
  <2>1. pc' = "done"
    BY <1>6 DEF Entry
  <2>2. pattern \in Valid
    BY <1>3 DEF Base, TypeOK
  <2>5. Len(found) \in Nat /\ Room \in Nat
    BY SizeAssumption DEF Base, TypeOK
  <2>3. CASE newDeviation = 0
    <3>1. \A d \in Todo : d = pattern
      <4> SUFFICES ASSUME NEW d \in Todo, Abs!Before(pattern, d) PROVE FALSE
        BY <1>2
      <4>1. pattern \in Id
        BY DEF Base, TypeOK
      <4>2. PICK j \in 1..W : ForkAt(pattern, d, j)
        BY <4>1, BeforeIsFork
      <4> QED
        BY <1>2, <2>3, <4>2 DEF LastFork, Todo
    <3>2. Abs!Listed' = slaves'
      BY <1>0, <1>1, <1>3, <3>1 DEF Todo
    <3> QED
      BY <1>0, <1>3, <2>1, <3>2 DEF Ordered
  <2>4. CASE Len(found) + 1 >= Room
    <3>0. Len(found') <= Room
      BY <1>0 DEF Base, TypeOK
    <3>1. Len(found') = Room
      BY <1>0, <2>4, <2>5, <3>0
    <3> QED
      BY <1>0, <1>3, <2>1, <3>1 DEF Ordered
  <2> QED
    BY <1>6, <2>2, <2>3, <2>4, <2>5 DEF More
<1> QED
  BY <1>5, <1>6

(* A bit of the search: someone listens, so not both wires are 1.  When    *)
(* all listeners agree their bit is chosen; where they differ, the branch  *)
(* that the search follows, or the one it turns off to, or the 0.          *)
LEMMA BitHeard ==
  ASSUME Base, Ordered, SearchBit
  PROVE  /\ WireA \in Bit /\ WireB \in Bit /\ ~(WireA = 1 /\ WireB = 1)
         /\ WireA # WireB => \A d \in listening : d[bit] = Choice(WireA, WireB)
         /\ WireA = WireB => /\ \E d \in listening : d[bit] = 0
                             /\ \E d \in listening : d[bit] = 1
<1>0. /\ pc = "bit" /\ bit \in 1..W /\ listening \subseteq Id /\ listening # {}
  BY SizeAssumption, ValidAssumption DEF Base, TypeOK, Ordered, Branch, SearchBit
<1>1. \A d \in listening : d[bit] \in {0, 1}
  BY <1>0 DEF Id, Bit
<1>2. WireA \in Bit /\ WireB \in Bit
  BY Wires
<1>3. ~(WireA = 1 /\ WireB = 1)
  BY <1>0 DEF WireA, WireB
<1>4. ASSUME WireA # WireB, NEW d \in listening PROVE d[bit] = Choice(WireA, WireB)
  <2>1. Choice(WireA, WireB) = WireA
    BY <1>4 DEF Choice
  <2>2. CASE WireA = 1
    BY <1>4, <2>1, <2>2 DEF WireA
  <2>3. CASE WireB = 1
    BY <1>2, <1>4, <2>1, <2>3 DEF WireB, Bit
  <2> QED
    BY <1>2, <1>4, <2>2, <2>3 DEF Bit
<1>5. ASSUME WireA = WireB PROVE /\ \E d \in listening : d[bit] = 0
                                 /\ \E d \in listening : d[bit] = 1
  <2>1. WireA = 0 /\ WireB = 0
    BY <1>2, <1>3, <1>5 DEF Bit
  <2> QED
    BY <1>1, <2>1 DEF WireA, WireB
<1> QED
  BY <1>2, <1>3, <1>4, <1>5

(* What the search that follows p up to k chooses: p's bit before k, the   *)
(* 1 at k, where p has the 0, and behind k the 0 if there is a choice.     *)
LEMMA ChoiceFollows ==
  ASSUME Base, Ordered, SearchBit, found # <<>>
  PROVE  /\ bit < lastDeviation => Choice(WireA, WireB) = Previous[bit]
         /\ bit = lastDeviation => Choice(WireA, WireB) = 1 /\ Previous[bit] = 0
         /\ bit > lastDeviation /\ WireA = WireB => Choice(WireA, WireB) = 0
<1>0. /\ pc = "bit" /\ bit \in 1..W /\ W \in Nat /\ lastDeviation \in 0..W
      /\ Follows(Previous, lastDeviation) /\ Previous \in slaves
      /\ listening = {d \in slaves : Agree(d, bit - 1)}
  BY SizeAssumption
     DEF Base, TypeOK, Ordered, Branch, Resumed, LastListed, SearchBit
<1>1. WireA \in Bit /\ WireB \in Bit
  BY Wires
<1>2. ASSUME bit <= lastDeviation PROVE Previous \in listening
  BY <1>0, <1>2 DEF Follows, Agree
<1>3. ASSUME bit < lastDeviation PROVE Choice(WireA, WireB) = Previous[bit]
  <2>1. CASE WireA # WireB
    BY <1>0, <1>2, <1>3, <2>1, BitHeard
  <2>2. CASE WireA = WireB
    <3>1. Choice(WireA, WireB) = pattern[bit]
      BY <1>0, <1>3, <2>2 DEF Choice
    <3> QED
      BY <1>0, <3>1 DEF Follows
  <2> QED
    BY <2>1, <2>2
<1>4. ASSUME bit = lastDeviation PROVE Choice(WireA, WireB) = 1 /\ Previous[bit] = 0
  <2>1. PICK d \in slaves : ForkAt(Previous, d, bit)
    BY <1>0, <1>4 DEF Follows, LastFork
  <2>2. d[bit] = 1 /\ Previous[bit] = 0
    BY <2>1 DEF ForkAt
  <2>3. d \in listening
    <3>1. Agree(Previous, bit - 1)
      BY <1>0, <1>2, <1>4
    <3>2. Agree(d, bit - 1)
      BY <2>1, <3>1 DEF ForkAt, Agree
    <3> QED
      BY <1>0, <3>2
  <2>4. WireA = WireB
    BY <1>0, <1>2, <1>4, <2>2, <2>3, BitHeard
  <2> QED
    BY <1>4, <2>2, <2>4 DEF Choice
<1>5. ASSUME bit > lastDeviation, WireA = WireB PROVE Choice(WireA, WireB) = 0
  BY <1>0, <1>5 DEF Choice
<1> QED
  BY <1>3, <1>4, <1>5

(* A slave still to be found is never turned away by a 1. *)
LEMMA NoneSkipped ==
  ASSUME Base, Ordered, SearchBit, Choice(WireA, WireB) = 1,
         NEW d \in Todo, Agree(d, bit - 1)
  PROVE  d[bit] = 1
<1>0. /\ pc = "bit" /\ bit \in 1..W /\ W \in Nat /\ lastDeviation \in 0..W
      /\ Resumed /\ d \in listening /\ d \in Id /\ Abs!Listed \subseteq Id
  BY SizeAssumption, ValidAssumption, ListedTypes
     DEF Base, TypeOK, Ordered, Branch, Todo, SearchBit
<1>1. CASE WireA # WireB
  BY <1>0, <1>1, BitHeard
<1>2. CASE WireA = WireB
  <2>1. found # <<>>
    BY <1>0, <1>2 DEF Resumed, Choice
  <2>2. /\ Follows(Previous, lastDeviation) /\ Previous \in Id
        /\ Abs!Before(Previous, d) /\ d \in slaves
    BY <1>0, <2>1 DEF Resumed, LastListed, Todo
  <2>3. PICK j \in 1..W : ForkAt(Previous, d, j)
    BY <2>2, BeforeIsFork
  <2>4. j <= lastDeviation
    BY <2>2, <2>3 DEF Follows, LastFork
  <2>5. bit <= lastDeviation
    BY <1>0, <1>2, <2>1, ChoiceFollows
  <2>6. \A i \in 1..bit - 1 : d[i] = Previous[i]
    BY <1>0, <2>2, <2>5 DEF Follows, Agree
  <2>7. j >= bit
    BY <1>0, <2>3, <2>6 DEF ForkAt
  <2>8. CASE bit = lastDeviation
    BY <1>0, <2>3, <2>4, <2>7, <2>8 DEF ForkAt
  <2>9. CASE bit < lastDeviation
    <3>1. Previous[bit] = 1
      BY <2>1, <2>9, ChoiceFollows
    <3>2. j # bit
      BY <2>3, <3>1 DEF ForkAt
    <3> QED
      BY <1>0, <2>3, <2>7, <3>1, <3>2 DEF ForkAt
  <2> QED
    BY <1>0, <2>5, <2>8, <2>9
<1> QED
  BY <1>1, <1>2

LEMMA SearchBitQuiet ==
  ASSUME Base, Ordered, SearchBit
  PROVE  Ordered'
<1> DEFINE c == Choice(WireA, WireB)
<1>0. /\ pc = "bit" /\ bit \in 1..W /\ W \in Nat /\ pattern \in [1..W -> Bit]
      /\ UNCHANGED <<slaves, bus, found, lastDeviation>>
      /\ lastDeviation \in 0..W /\ newDeviation \in 0..W
      /\ Branch /\ Resumed /\ bus = slaves /\ Abs!Listed \subseteq slaves
  BY SizeAssumption DEF Base, TypeOK, Id, Ordered, SearchBit, busVars
<1>1. /\ WireA \in Bit /\ WireB \in Bit /\ ~(WireA = 1 /\ WireB = 1)
      /\ Read(WireA, WireB)
  BY BitHeard DEF SearchBit
<1>2. c \in {0, 1}
  BY <1>0, <1>1, ReadTypes DEF Bit
<1>3. /\ pattern' = [pattern EXCEPT ![bit] = c] /\ bit' = bit + 1 /\ pc' = pc
      /\ newDeviation' = IF WireA = WireB /\ c = 0 THEN bit ELSE newDeviation
      /\ listening' = {d \in listening : d[bit] = c}
  BY <1>1 DEF Read, Deviation
<1> HIDE DEF c
<1>4. /\ pattern'[bit] = c /\ \A i \in 1..W : i # bit => pattern'[i] = pattern[i]
      /\ bit' - 1 = bit /\ 1..bit = (1..bit - 1) \cup {bit}
  BY <1>0, <1>3
<1>5. \A d : Agree(d, bit - 1)' <=> Agree(d, bit - 1) /\ d[bit] = c
  BY <1>0, <1>4 DEF Agree
<1>6. /\ \A d : \A j \in 1..bit - 1 : ForkAt(pattern', d, j) <=> ForkAt(pattern, d, j)
      /\ \A d : ForkAt(pattern', d, bit) <=> c = 0 /\ d[bit] = 1 /\ Agree(d, bit - 1)
  BY <1>0, <1>4 DEF ForkAt, Agree
<1>7. Abs!Listed' = Abs!Listed /\ Todo' = Todo /\ Previous' = Previous
  BY <1>0 DEF Abs!Listed, Todo, Previous, Ids
<1>8. listening = {d \in slaves : Agree(d, bit - 1)}
  BY <1>0 DEF Branch
<1>9. Branch'
  <2>1. listening' = {d \in slaves' : Agree(d, bit - 1)'}
    BY <1>0, <1>3, <1>5, <1>8
  <2>2. listening' # {}
    BY <1>0, <1>1, <1>3, Answered DEF SearchBit, c
  <2>3. LastFork(pattern, bit - 1, newDeviation)'
    <3>0. LastFork(pattern, bit - 1, newDeviation)
      BY <1>0 DEF Branch
    <3>1. CASE WireA = WireB /\ c = 0
      <4>1. newDeviation' = bit
        BY <1>3, <3>1
      <4>2. PICK d \in slaves : Agree(d, bit - 1) /\ d[bit] = 1
        BY <1>8, <3>1, BitHeard
      <4>3. ForkAt(pattern', d, bit)
        BY <1>6, <3>1, <4>2
      <4> QED
        BY <1>0, <1>4, <4>1, <4>3 DEF LastFork
    <3>2. CASE ~(WireA = WireB /\ c = 0)
      <4>1. newDeviation' = newDeviation
        BY <1>3, <3>2
      <4>2. \A d \in slaves : ~ForkAt(pattern', d, bit)
        BY <1>2, <1>6, <1>8, <3>2, BitHeard DEF c
      <4>3. ASSUME NEW d \in slaves, NEW j \in 1..bit, ForkAt(pattern', d, j)
            PROVE  j <= newDeviation
        <5>1. j # bit
          BY <4>2, <4>3
        <5>2. j \in 1..bit - 1
          BY <1>4, <5>1
        <5>3. ForkAt(pattern, d, j)
          BY <1>6, <4>3, <5>2
        <5> QED
          BY <3>0, <5>2, <5>3 DEF LastFork
      <4>4. ASSUME newDeviation # 0
            PROVE  /\ newDeviation \in 1..bit
                   /\ \E d \in slaves : ForkAt(pattern', d, newDeviation)
        BY <1>4, <1>6, <3>0, <4>4 DEF LastFork
      <4> QED
        BY <1>0, <1>4, <4>1, <4>3, <4>4 DEF LastFork
    <3> QED
      BY <3>1, <3>2
  <2>4. ASSUME NEW d \in Todo
        PROVE  Agree(d, bit - 1)' \/ \E j \in 1..bit : ForkAt(pattern', d, j)
    <3>1. CASE Agree(d, bit - 1) /\ d[bit] # c
      <4>1. c = 0
        BY <1>2, <3>1, NoneSkipped DEF c
      <4>2. d[bit] = 1
        <5>1. d \in Id
          BY ValidAssumption DEF Base, TypeOK, Todo
        <5> QED
          BY <1>0, <3>1, <4>1, <5>1 DEF Id, Bit
      <4> QED
        BY <1>0, <1>6, <3>1, <4>1, <4>2
    <3>2. CASE \E j \in 1..bit - 1 : ForkAt(pattern, d, j)
      BY <1>0, <1>4, <1>6, <3>2
    <3>3. Agree(d, bit - 1) \/ \E j \in 1..bit - 1 : ForkAt(pattern, d, j)
      BY <1>0 DEF Branch
    <3> QED
      BY <1>5, <3>1, <3>2, <3>3
  <2> QED
    BY <1>4, <1>7, <2>1, <2>2, <2>3, <2>4 DEF Branch
<1>10. Resumed'
  <2>1. CASE found = <<>>
    BY <1>0, <2>1 DEF Resumed
  <2>2. CASE found # <<>>
    <3>1. Follows(Previous, lastDeviation) /\ LastListed(Previous)
      BY <1>0, <2>2 DEF Resumed
    <3>2. LastListed(Previous)'
      BY <1>7, <3>1 DEF LastListed
    <3>3. LastFork(Previous, W, lastDeviation)'
      BY <1>0, <1>7, <3>1 DEF LastFork, Follows
    <3>4. \A i \in 1..W : i < lastDeviation \/ i >= bit + 1 => pattern'[i] = Previous[i]
      BY <1>0, <1>4, <2>2, <3>1, ChoiceFollows DEF Follows, c
    <3>5. lastDeviation < bit + 1 => pattern'[lastDeviation] = 1
      BY <1>0, <1>4, <2>2, <3>1, ChoiceFollows DEF Follows, c
    <3> QED
      BY <1>0, <1>3, <1>7, <3>1, <3>2, <3>3, <3>4, <3>5 DEF Resumed, Follows
  <2> QED
    BY <2>1, <2>2
<1> QED
  BY <1>0, <1>3, <1>7, <1>9, <1>10 DEF Ordered

LEMMA QuietStart == Init => QuietInv
<1> SUFFICES ASSUME Init PROVE Ordered
  BY DEF QuietInv
<1>1. Len(found) = 0 /\ Base
  BY InitBase DEF Init
<1>2. Abs!Listed = {}
  BY <1>1, ListedTypes DEF Abs!Listed
<1> QED
  BY <1>2 DEF Init, Ordered

LEMMA QuietStep == Base /\ QuietInv /\ [Next]_vars => QuietInv'
<1> SUFFICES ASSUME Base, QuietInv, [Next]_vars, Quiet' PROVE Ordered'
  BY DEF QuietInv
<1>1. ~NoisyBit /\ ~Move
  BY NoisyBitBase, MoveBase DEF Quiet
<1>2. Quiet
  BY <1>1 DEF Quiet, Next, Search, Start, SearchBit, Failed, Entry, busVars, vars
<1>3. Ordered
  BY <1>2 DEF QuietInv
<1>4. CASE UNCHANGED vars
  <2>1. Ids' = Ids
    BY <1>4 DEF vars, Ids
  <2>2. Abs!Listed' = Abs!Listed /\ Todo' = Todo /\ Previous' = Previous
    BY <1>4, <2>1 DEF vars, busVars, Abs!Listed, Todo, Previous
  <2>3. /\ Branch' = Branch /\ \A p : LastListed(p)' = LastListed(p)
        /\ \A p, k : Follows(p, k)' = Follows(p, k)
    BY <1>4, <2>2 DEF vars, busVars, searchVars, Branch, Agree, LastListed,
       Follows, LastFork
  <2> QED
    BY <1>3, <1>4, <2>2, <2>3 DEF vars, busVars, searchVars, Ordered, Resumed
<1>5. ~Failed
  BY <1>3 DEF Failed, Ordered
<1> QED
  BY <1>1, <1>3, <1>4, <1>5, StartQuiet, SearchBitQuiet, EntryQuiet DEF Next, Search

(* A search without noise, and without slaves that come or go, ends with   *)
(* all the slaves in the array or with a full array.                       *)
THEOREM OneWireAllFound == Spec => []AllFound
<1>1. Init => Base /\ QuietInv
  BY InitBase, QuietStart
<1>2. Base /\ QuietInv /\ [Next]_vars => (Base /\ QuietInv)'
  BY BaseStep, QuietStep
<1>3. Base /\ QuietInv => AllFound
  <2>1. Base => DOMAIN Ids = DOMAIN found
    BY DEF Ids
  <2> QED
    BY <2>1 DEF QuietInv, Ordered, AllFound, Abs!Listed
<1> QED
  BY <1>1, <1>2, <1>3, PTL DEF Spec

----------------------------------------------------------------------------
(* The search as one that lists the slaves in order.                       *)
(* Filling the entry is the step that lists a slave; on a disturbed bus it *)
(* adds some identifier to what was listed.                                *)
LEMMA EntryLists ==
  ASSUME Base, QuietInv, Entry
  PROVE  Abs!Next
<1>0. /\ UNCHANGED <<slaves, Quiet>> /\ Ids' = Append(Ids, pattern)
      /\ Ids \in Seq(Id) /\ pattern \in Id
  <2>1. UNCHANGED <<slaves, Quiet>> /\ pattern \in Id
    BY DEF Entry, busVars, Quiet, Base, TypeOK
  <2>2. Len(found) \in Nat
    BY DEF Base, TypeOK
  <2>3. Ids \in Seq(Id)
    BY <2>2, ListedTypes
  <2> QED
    BY <2>1, <2>3, ListedGrows
<1>1. CASE Quiet
  <2>1. /\ pattern \in slaves \ Abs!Listed
        /\ \A d \in slaves \ Abs!Listed : d = pattern \/ Abs!Before(pattern, d)
    BY <1>1, EntryNext DEF QuietInv, Todo
  <2>2. Abs!Discover(pattern)
    BY <1>0, <1>1, <2>1 DEF Abs!Discover
  <2> QED
    BY <2>1, <2>2 DEF Abs!Next
<1>2. CASE ~Quiet
  <2>1. /\ Len(Ids') >= Len(Ids) /\ \A i \in DOMAIN Ids : Ids'[i] = Ids[i]
    BY <1>0
  <2>2. Abs!Disturbed
    BY <1>0, <1>2, <2>1 DEF Abs!Disturbed
  <2> QED
    BY <2>2 DEF Abs!Next
<1> QED
  BY <1>1, <1>2

LEMMA NoEntryNoList ==
  ASSUME Base, [Next]_vars, ~Entry
  PROVE  [Abs!Next]_(Abs!vars)
<1>0. UNCHANGED <<slaves, found>>
  BY DEF Next, Search, Start, SearchBit, Failed, NoisyBit, Move, busVars, vars
<1>1. Ids' = Ids
  BY <1>0 DEF Ids
<1>2. CASE NoisyBit \/ Move
  <2>1. ~Quiet'
    BY <1>2, NoisyBitBase, MoveBase DEF Quiet
  <2>2. Len(Ids) \in Nat
    BY ListedTypes DEF Base, TypeOK
  <2>3. Abs!Disturbed
    BY <1>0, <1>1, <2>1, <2>2 DEF Abs!Disturbed
  <2> QED
    BY <2>3 DEF Abs!Next
<1>3. CASE ~(NoisyBit \/ Move)
  <2>1. UNCHANGED Quiet
    BY <1>3 DEF Next, Search, Start, SearchBit, Failed, busVars, vars, Quiet
  <2> QED
    BY <1>0, <1>1, <2>1 DEF Abs!vars
<1> QED
  BY <1>2, <1>3

(* The search implements what Discovery promises: on a quiet bus every     *)
(* slave is listed once and in the order of the identifiers, and a bus     *)
(* that is disturbed takes nothing off the list.                           *)
THEOREM OneWireDiscovers == Spec => DiscoverySpec
<1>1. Init => Base /\ QuietInv
  BY InitBase, QuietStart
<1>2. Base /\ QuietInv /\ [Next]_vars => (Base /\ QuietInv)'
  BY BaseStep, QuietStep
<1>3. Init => Abs!Init
  <2> SUFFICES ASSUME Init PROVE Abs!Init
    OBVIOUS
  <2>1. Base /\ Len(found) = 0
    BY InitBase DEF Init
  <2>2. Ids \in [1..0 -> Id] /\ Ids \in Seq(Id) /\ Len(Ids) = 0
    BY <2>1, ListedTypes
  <2>3. Ids = <<>>
    BY <2>2, EmptySeq
  <2> QED
    BY <2>3 DEF Init, Quiet, Abs!Init
<1>4. Base /\ QuietInv /\ [Next]_vars => [Abs!Next]_(Abs!vars)
  BY EntryLists, NoEntryNoList
<1> QED
  BY <1>1, <1>2, <1>3, <1>4, PTL DEF Spec, DiscoverySpec, Abs!Spec
=============================================================================
