------------------------------ MODULE Terminal ------------------------------
(***************************************************************************)
(* What the user types.  UART0_Handler stores every byte in the ring       *)
(* instring_RS232, and also in the message or the number the user is       *)
(* writing; the loop of the mode that runs looks for Enter in the ring and *)
(* takes the byte before it as a command.  Nothing locks the two: the      *)
(* handler may run between any two steps of the reader.                    *)
(* Modes takes the ring to be the last two bytes (its rx), which is the    *)
(* history rx here: LastTwo is what that abstraction rests on.             *)
(***************************************************************************)
EXTENDS Integers, Sequences

CONSTANTS
    RingSize,   \* 1000: the size of instring_RS232
    Size,       \* per text: the room for it, GSM_sms[160] and phnnmb[8]
    Typed,      \* the bytes the user may type
    Foreign     \* what the reader may find in memory that is not the ring

ASSUME RingAssumption == RingSize \in Nat /\ RingSize > 2
ASSUME SizeAssumption == Size \in [{"sms", "number"} -> Nat]
ASSUME TypedAssumption == Typed \subseteq 1..255

CR == 13            \* Enter
Dash == 45          \* '-', the end of a text
Digit(n) == 48 + n  \* the key n

(* The memory before the ring belongs to counters that never hold 13 there.*)
ASSUME ForeignAssumption == Foreign \subseteq 0..255 \ {CR} /\ Foreign # {}

Mode == {"init", "GPS", "GSM", "IO"}
Text == {"sms", "number"}

VARIABLES
    mode,       \* the mode whose loop runs (Modes: there is exactly one)
    pc,         \* where its loop stands
    wptr,       \* wptr_RS232
    ring,       \* instring_RS232
    seen,       \* the pointer as the reader last read it
    chs,        \* the command byte it took, 0 when there is none
    reset_flag,
    starting,   \* the text that is being started, or "none"
    writing,    \* per text: GSM_cstmsms_flag, GSM_phnnmb_flag
    count,      \* GSM_smslen_cnt, phnnmb_cnt
    text,       \* GSM_sms, phnnmb
    rx,         \* history: the last two bytes since the line was emptied
    moved,      \* history: how many bytes came since the test that found Enter
    before, at, \* history: what came before that Enter, the pointer then
    told,       \* history: what was typed for the text since its prompt
    early       \* history: a byte for the text came before its prompt

readerVars == <<mode, pc, seen, chs, reset_flag, starting>>
ringVars == <<wptr, ring, rx>>
textVars == <<writing, count, text, told, early>>
history == <<moved, before, at>>
vars == <<readerVars, ringVars, textVars, history>>

(* The history counts to two, which stands for any more.                   *)
Many == 2

Blank(n) == [i \in 1..n |-> 0]
EmptyRing == [i \in 0..RingSize - 1 |-> 0]

Init ==
    /\ mode = "init" /\ pc = "top"
    /\ wptr = 0 /\ ring = EmptyRing /\ seen = 0
    /\ chs = 0 /\ reset_flag = FALSE /\ starting = "none"
    /\ writing = [t \in Text |-> FALSE]
    /\ count = [t \in Text |-> 0]
    /\ text = [t \in Text |-> Blank(Size[t])]
    /\ rx = <<0, 0>> /\ moved = 0 /\ before = 0 /\ at = 0
    /\ told = [t \in Text |-> <<>>]
    /\ early = [t \in Text |-> FALSE]

----------------------------------------------------------------------------
(* The reader: the loop of the mode that runs.                             *)
Goto(l) == pc' = l

(* The pointer is not volatile: the compiler may use the value it has.     *)
Pointer == {seen, wptr}

(* What is at index i; below the ring other memory is read.                *)
Look(i) == IF i >= 0 THEN {ring[i]} ELSE Foreign

TestEnter ==
    /\ pc = "test"
    /\ \E b \in Look(wptr - 1) : Goto(IF b = CR THEN "copy" ELSE "act")
    /\ seen' = wptr
    /\ before' = rx[1] /\ at' = wptr
    /\ UNCHANGED <<mode, chs, reset_flag, starting, ringVars, textVars, moved>>

CopyLast ==
    /\ pc = "copy"
    /\ \E p \in Pointer : seen' = p /\ chs' \in Look(p - 1)
    /\ Goto("check")
    /\ UNCHANGED <<mode, reset_flag, starting, ringVars, textVars, history>>
CopyKey ==
    /\ pc = "copy"
    /\ \E p \in Pointer : seen' = p /\ chs' \in Look(p - 2)
    /\ Goto("check")
    /\ UNCHANGED <<mode, reset_flag, starting, ringVars, textVars, history>>

(* At the ring's beginning the key should come from the ring's end, but    *)
(* ring[998] is taken as an address: what lies there is the command.       *)
CheckWrap ==
    /\ pc = "check"
    /\ \E p \in Pointer : IF p = 0 THEN chs' \in Foreign ELSE UNCHANGED chs
    /\ Goto("empty")
    /\ UNCHANGED <<mode, seen, reset_flag, starting, ringVars, textVars, history>>

Empty ==
    /\ pc = "empty"
    /\ ring' = EmptyRing
    /\ Goto("home")
    /\ UNCHANGED <<mode, seen, chs, reset_flag, starting, wptr, rx,
                   textVars, history>>

Home ==
    /\ pc = "home"
    /\ wptr' = 0
    /\ rx' = <<0, 0>> /\ moved' = 0
    /\ Goto("act")
    /\ UNCHANGED <<mode, seen, chs, reset_flag, starting, ring, textVars, before, at>>

(* Keys 5 and 6 of the GSM mode start a text: the flag goes up first, then *)
(* the ring's pointer, the text's count, the text and the ring are cleared.*)
Raise(key, t) ==
    /\ mode = "GSM" /\ chs = key
    /\ writing' = [writing EXCEPT ![t] = TRUE]
    /\ early' = [early EXCEPT ![t] = FALSE]
    /\ told' = [told EXCEPT ![t] = <<>>]
    /\ starting' = t
    /\ chs' = 0 /\ Goto("start")
    /\ UNCHANGED <<mode, reset_flag, count, text>>

Start ==
    /\ pc = "start"
    /\ wptr' = 0
    /\ Goto("count")
    /\ UNCHANGED <<mode, seen, chs, reset_flag, starting, ring, rx,
                   textVars, history>>
ClearNoCount ==
    /\ pc = "count"
    /\ Goto("blank")
    /\ UNCHANGED <<mode, seen, chs, reset_flag, starting, ringVars, textVars, history>>
ClearCount ==
    /\ pc = "count"
    /\ count' = [count EXCEPT ![starting] = 0]
    /\ Goto("blank")
    /\ UNCHANGED <<mode, seen, chs, reset_flag, starting, ringVars, writing,
                   text, told, early, history>>
BlankText ==
    /\ pc = "blank"
    /\ text' = [text EXCEPT ![starting] = Blank(Size[starting])]
    /\ Goto("wipe")
    /\ UNCHANGED <<mode, seen, chs, reset_flag, starting, ringVars, writing,
                   count, told, early, history>>
WipeNothing ==
    /\ pc = "wipe"
    /\ rx' = <<0, 0>>
    /\ starting' = "none" /\ Goto("top")
    /\ UNCHANGED <<mode, seen, chs, reset_flag, wptr, ring, textVars, history>>
Wipe ==
    /\ pc = "wipe"
    /\ ring' = EmptyRing
    /\ rx' = <<0, 0>>
    /\ starting' = "none" /\ Goto("top")
    /\ UNCHANGED <<mode, seen, chs, reset_flag, wptr, textVars, history>>

(* Every other key leads to a mode, or is none and the loop goes on; key 0 *)
(* of a service mode asks for a reset.  Modes has the menus.               *)
OtherKey ==
    /\ ~(mode = "GSM" /\ chs \in {Digit(5), Digit(6)})
    /\ LET reset == chs = Digit(0) /\ mode # "init"
       IN  /\ reset_flag' = (reset_flag \/ reset)
           /\ \/ reset /\ mode' = "init" /\ Goto("top")
              \/ /\ ~reset /\ chs \in {Digit(n) : n \in 1..7}
                 /\ mode' \in Mode \ {mode} /\ Goto("top")
              \/ ~reset /\ mode' = mode /\ Goto("end")
    /\ chs' = 0
    /\ UNCHANGED <<starting, textVars>>

Act ==
    /\ pc = "act"
    /\ Raise(Digit(5), "sms") \/ Raise(Digit(6), "number") \/ OtherKey
    /\ UNCHANGED <<seen, ringVars, history>>

(* The top of the loop: init resets if it was asked to, which ends the     *)
(* writing of the number; a service mode may go to init to send a report,  *)
(* and the GSM mode through its own queue to show its menu again.          *)
Top ==
    /\ pc = "top"
    /\ \/ mode = "init" /\ Goto("test") /\ mode' = mode
          /\ reset_flag' = FALSE
          /\ writing' = [writing EXCEPT !["number"] = @ /\ ~reset_flag]
       \/ mode # "init" /\ Goto("test") /\ UNCHANGED <<mode, reset_flag, writing>>
       \/ mode # "init" /\ Goto("top") /\ mode' = "init"
          /\ UNCHANGED <<reset_flag, writing>>
    /\ UNCHANGED <<seen, chs, starting, ringVars, count, text, told, early, history>>

(* The end of the loop: init sends what is to be sent and goes to GSM.     *)
End ==
    /\ pc = "end"
    /\ mode' \in IF mode = "init" THEN {"init", "GSM"} ELSE {mode}
    /\ Goto("top")
    /\ UNCHANGED <<seen, chs, reset_flag, starting, ringVars, textVars, history>>

Reader ==
    \/ TestEnter \/ CopyKey \/ CheckWrap \/ Empty \/ Home \/ Act
    \/ Start \/ ClearCount \/ BlankText \/ Wipe \/ Top \/ End

----------------------------------------------------------------------------
(* UART0_Handler.                                                          *)
(* Bound: the user ends a text before it is longer than its array; the code*)
(* has no such test.                                                       *)
Fits(b) == \A t \in Text : writing[t] /\ b # Dash => count[t] < Size[t]

NextIndexLate(w) == IF w > RingSize THEN 0 ELSE w + 1
NextIndex(w) == IF w + 1 > RingSize - 1 THEN 0 ELSE w + 1

(* A text is in its start from the flag until the prompt.                  *)
InStart(t) == starting = t

(* A dash ends every text that is being written; all else goes into it.    *)
Write(b) ==
    IF b = Dash
    THEN writing' = [t \in Text |-> FALSE] /\ UNCHANGED <<count, text, told>>
    ELSE /\ text' = [t \in Text |->
               IF writing[t] THEN [text[t] EXCEPT ![count[t] + 1] = b] ELSE text[t]]
         /\ count' = [t \in Text |-> IF writing[t] THEN count[t] + 1 ELSE count[t]]
         /\ told' = [t \in Text |-> IF writing[t] /\ ~InStart(t)
                                    THEN Append(told[t], b) ELSE told[t]]
         /\ UNCHANGED writing

UART0_Handler(b) ==
    /\ Fits(b)
    /\ ring' = [ring EXCEPT ![wptr] = b]
    /\ wptr' = NextIndex(wptr)
    /\ Write(b)
    /\ rx' = <<rx[2], b>>
    /\ moved' = IF pc \in {"copy", "check"} /\ moved < Many THEN moved + 1 ELSE moved
    /\ early' = [t \in Text |-> early[t] \/ InStart(t)]
    /\ UNCHANGED <<readerVars, before, at>>

Type == \E b \in Typed : UART0_Handler(b)

Next == Reader \/ Type

Spec == Init /\ [][Next]_vars

----------------------------------------------------------------------------
Byte == 0..255
Label == {"top", "test", "copy", "check", "empty", "home", "act", "end",
          "start", "count", "blank", "wipe"}
Index == 0..RingSize - 1

TypeOK ==
    /\ mode \in Mode /\ pc \in Label
    /\ wptr \in Index /\ seen \in Index /\ ring \in [Index -> Byte]
    /\ chs \in Byte /\ reset_flag \in BOOLEAN /\ starting \in Text \union {"none"}
    /\ writing \in [Text -> BOOLEAN]
    /\ \A t \in Text : count[t] \in 0..Size[t] /\ text[t] \in [1..Size[t] -> Byte]
    /\ DOMAIN count = Text /\ DOMAIN text = Text
    /\ rx \in Byte \X Byte /\ moved \in 0..Many /\ before \in Byte /\ at \in Index
    /\ told \in [Text -> Seq(Byte)] /\ early \in [Text -> BOOLEAN]

(* The bytes before the pointer are the last that were typed since the line*)
(* was emptied, for both emptyings and with the handler between any of     *)
(* their steps.  Only at the ring's beginning does the reader see less.    *)
Emptying == pc \in {"home", "count", "blank", "wipe"}
LastTwo == ~Emptying =>
    /\ wptr >= 1 => ring[wptr - 1] = rx[2]
    /\ wptr >= 2 => ring[wptr - 2] = rx[1]

(* A text holds what was typed since its prompt, from the first byte to the*)
(* last, whatever other text is written and whatever command is taken at   *)
(* the same time; a byte that came before the prompt is lost, or is taken  *)
(* or leaves a zero in front of the rest.                                  *)
TextRight == \A t \in Text : ~InStart(t) =>
    LET n == Len(told[t]) IN
    /\ n <= count[t]
    /\ \A i \in 1..n : text[t][count[t] - n + i] = told[t][i]
    /\ ~early[t] => n = count[t]

(* The byte that is taken as the command is the one before Enter.  If one  *)
(* byte came since the test, it may also be the Enter, which is no key: no *)
(* other command is taken.  But the pointer is not taken back over the     *)
(* ring's beginning: an Enter at index 0, and one at the last but one index*)
(* followed by a byte, give a command from the memory before the ring.     *)
CommandRight == pc \in {"check", "empty"} /\ moved < Many =>
    \/ chs = before /\ at >= 2
    \/ chs = CR /\ moved = 1
    \/ chs \in Foreign /\ at = 1
    \/ chs \in Foreign /\ moved = 1 /\ at = RingSize - 1

=============================================================================
