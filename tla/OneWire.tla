------------------------------ MODULE OneWire ------------------------------
(***************************************************************************)
(* Finding the slaves of a 1-Wire bus: SearchBuses of App.c, OWI_SearchRom *)
(* of OWIHighLevelFunctions.c and the slaves themselves.  Every slave that *)
(* still takes part answers each read slot; a 0 wins on the wire; a slave  *)
(* whose bit is not the one the master then writes drops out until the     *)
(* next reset.  A slave may be disconnected and connected again, and noise *)
(* may turn a bit the master reads.                                        *)
(***************************************************************************)
EXTENDS Integers, Sequences

CONSTANTS
    W,          \* 64: bits of an identifier
    Room,       \* len, the number of entries of the device array
    Retries,    \* 10: TestCounter, the searches tried after a failed one
    Valid,      \* the identifiers whose CRC is right
    MaxNoise, MaxMoves  \* bounds: bits turned, slaves plugged and unplugged

Bit == {0, 1}
Id == [1..W -> Bit]

ASSUME SizeAssumption ==
    /\ {W, Room} \subseteq Nat \ {0}
    /\ {Retries, MaxNoise, MaxMoves} \subseteq Nat
ASSUME ValidAssumption == Valid \subseteq Id

VARIABLES
    slaves,     \* the slaves there are
    bus,        \* those connected now
    listening,  \* those that take part in the search since the last reset
    pc,         \* "start", "bit", "failed" or "done"
    bit,        \* currentBit of OWI_SearchRom
    pattern,    \* bitPattern, the identifier of the entry being filled
    lastDeviation, newDeviation,
    presence, tries,    \* SearchBuses: a slave answered the reset; TestCounter
    found,      \* the entries filled so far: identifier and CRC_Failure
    result,     \* the value SearchBuses returns
    noise, moves

busVars == <<slaves, bus, noise, moves>>
searchVars == <<listening, bit, pattern, newDeviation>>
vars == <<busVars, searchVars, pc, lastDeviation, presence, tries, found, result>>

(* Return codes of SearchBuses. *)
Code == {"SEARCH_SUCCESSFUL", "SEARCH_NO_UNIT_FOUND"}

Zero == [i \in 1..W |-> 0]

Init ==
    /\ slaves \in SUBSET Valid /\ bus = slaves
    /\ noise = MaxNoise /\ moves = MaxMoves
    /\ listening = {} /\ bit = 1 /\ pattern = Zero /\ newDeviation = 0
    /\ pc = "start" /\ lastDeviation = 0 /\ presence = FALSE /\ tries = 0
    /\ found = <<>> /\ result = "SEARCH_NO_UNIT_FOUND"

----------------------------------------------------------------------------
(* OWI_DetectPresence followed by OWI_SearchRom's command: every connected *)
(* slave takes part, from the first bit.                                   *)
Reset == presence' = (bus # {}) /\ listening' = bus
SearchFrom(d) ==
    /\ bit' = 1 /\ newDeviation' = 0
    /\ lastDeviation' = d
    /\ pc' = "bit"

(* The array is cleared; an empty bus ends the search at once.             *)
Start ==
    /\ pc = "start"
    /\ Reset
    /\ tries' = Retries
    /\ IF presence' THEN SearchFrom(0)
       ELSE pc' = "done" /\ UNCHANGED <<bit, newDeviation, lastDeviation>>
    /\ UNCHANGED <<busVars, pattern, found, result>>

(* The two reads of a bit: the bits and the complements of all listeners,  *)
(* wired together.                                                         *)
WireA == IF \A d \in listening : d[bit] = 1 THEN 1 ELSE 0
WireB == IF \A d \in listening : d[bit] = 0 THEN 1 ELSE 0

(* The way OWI_SearchRom takes when it reads a and b.                      *)
ChoiceAgain(a, b) ==
    IF a # b THEN a
    ELSE IF bit = lastDeviation THEN 0
    ELSE IF bit > lastDeviation THEN 0 ELSE pattern[bit]
Choice(a, b) ==
    IF a # b THEN a
    ELSE IF bit = lastDeviation THEN 1
    ELSE IF bit > lastDeviation THEN 0 ELSE pattern[bit]

(* The place where the next search turns off: the last 0 chosen at a fork. *)
DeviationFirst(a, b) ==
    IF a = b /\ Choice(a, b) = 0 /\ newDeviation = 0 THEN bit ELSE newDeviation
Deviation(a, b) ==
    IF a = b /\ Choice(a, b) = 0 THEN bit ELSE newDeviation

ReadUnanswered(a, b) ==
    /\ pattern' = [pattern EXCEPT ![bit] = Choice(a, b)]
    /\ newDeviation' = Deviation(a, b)
    /\ listening' = {d \in listening : d[bit] = Choice(a, b)}
    /\ bit' = bit + 1
    /\ UNCHANGED pc
Read(a, b) ==
    IF a = 1 /\ b = 1
    THEN pc' = "failed" /\ UNCHANGED searchVars
    ELSE /\ pattern' = [pattern EXCEPT ![bit] = Choice(a, b)]
         /\ newDeviation' = Deviation(a, b)
         /\ listening' = {d \in listening : d[bit] = Choice(a, b)}
         /\ bit' = bit + 1
         /\ UNCHANGED pc

SearchBit ==
    /\ pc = "bit" /\ bit <= W
    /\ Read(WireA, WireB)
    /\ UNCHANGED <<busVars, lastDeviation, presence, tries, found, result>>

(* Noise turns one of the two bits read. *)
NoisyBit ==
    /\ pc = "bit" /\ bit <= W
    /\ noise > 0 /\ noise' = noise - 1
    /\ Read(1 - WireA, WireB) \/ Read(WireA, 1 - WireB)
    /\ UNCHANGED <<slaves, bus, moves, lastDeviation, presence, tries, found, result>>

(* A failed search is tried again from the start, but a bus without        *)
(* presence or a used-up TestCounter ends the search of the bus.           *)
FailedForEver ==
    /\ pc = "failed"
    /\ Reset
    /\ tries' = tries
    /\ SearchFrom(0)
    /\ UNCHANGED <<busVars, pattern, found, result>>
Failed ==
    /\ pc = "failed"
    /\ IF presence /\ tries > 0
       THEN /\ Reset
            /\ tries' = tries - 1
            /\ SearchFrom(0)
            /\ UNCHANGED result
       ELSE /\ pc' = "done" /\ result' = "SEARCH_SUCCESSFUL"
            /\ UNCHANGED <<presence, listening, tries, bit, newDeviation, lastDeviation>>
    /\ UNCHANGED <<busVars, pattern, found>>

(* All bits are there: the entry is filled.  A wrong CRC marks the entry,  *)
(* and the mark is taken off again in the same breath; it ends the search, *)
(* as do a full array and a search without a new deviation.  The next      *)
(* entry starts from a copy of this one.                                   *)
MoreThanRoom == pattern \in Valid /\ newDeviation # 0
More == /\ pattern \in Valid
        /\ Len(found) + 1 < Room
        /\ newDeviation # 0
Entry ==
    /\ pc = "bit" /\ bit > W
    /\ found' = Append(found, [id |-> pattern, CRC_Failure |-> FALSE])
    /\ IF More /\ bus # {}
       THEN /\ Reset
            /\ tries' = Retries
            /\ SearchFrom(newDeviation)
            /\ UNCHANGED result
       ELSE /\ pc' = "done" /\ result' = "SEARCH_SUCCESSFUL"
            /\ presence' = (presence /\ ~(More /\ bus = {}))
            /\ UNCHANGED <<listening, tries, bit, newDeviation, lastDeviation>>
    /\ UNCHANGED <<busVars, pattern>>

(* A slave is disconnected, or connected and deaf until the next reset.    *)
Move ==
    /\ pc # "done"
    /\ moves > 0 /\ moves' = moves - 1
    /\ \E d \in slaves : bus' = IF d \in bus THEN bus \ {d} ELSE bus \cup {d}
    /\ listening' = listening \cap bus'
    /\ UNCHANGED <<slaves, noise, bit, pattern, newDeviation, pc, lastDeviation,
                   presence, tries, found, result>>

Search == Start \/ SearchBit \/ Failed \/ Entry
Next == Search \/ NoisyBit \/ Move

Spec == Init /\ [][Next]_vars

(* The search runs in the tick interrupt: nothing keeps it from going on.  *)
FairSpec == Spec /\ WF_vars(Search)

----------------------------------------------------------------------------
TypeOK ==
    /\ slaves \subseteq Valid /\ bus \subseteq slaves /\ listening \subseteq bus
    /\ pc \in {"start", "bit", "failed", "done"}
    /\ bit \in 1..W + 1
    /\ pattern \in Id
    /\ lastDeviation \in 0..W /\ newDeviation \in 0..W
    /\ presence \in BOOLEAN /\ tries \in 0..Retries
    /\ found \in Seq([id : Id, CRC_Failure : BOOLEAN]) /\ Len(found) <= Room
    /\ result \in Code
    /\ noise \in 0..MaxNoise /\ moves \in 0..MaxMoves

Ids == [i \in DOMAIN found |-> found[i].id]

(* Every identifier in the array with a right CRC is one of a slave: the   *)
(* bits come from many reads and from several slaves, and with one wrong   *)
(* read the pattern leaves every slave before its CRC can be right.        *)
FoundReal == \A i \in DOMAIN found : Ids[i] \in Valid => Ids[i] \in slaves

(* SearchBuses comes to an end, whatever is connected, disconnected or     *)
(* misread: it runs with the tick interrupt's priority, and while it loops *)
(* no task runs.                                                           *)
SearchEnds == <>(pc = "done")

(* The searches go through all slaves, each once and in order, as long as  *)
(* no noise and no slave that comes or goes disturbs the bus; after that   *)
(* the entries already filled stay.                                        *)
Quiet == noise = MaxNoise /\ moves = MaxMoves
Abs == INSTANCE Discovery WITH quiet <- Quiet, listed <- Ids
DiscoverySpec == Abs!Spec

(* On a quiet bus all slaves are found, or as many as there is room for.   *)
AllFound ==
    pc = "done" /\ Quiet =>
        \/ Len(found) = Room
        \/ {Ids[i] : i \in DOMAIN found} = slaves
=============================================================================
