--------------------------- MODULE TerminalProofs ---------------------------
(***************************************************************************)
(* Proofs about Terminal: the ring and its reader, and the texts, for every*)
(* size of the ring and of the texts and for all that a user may type.     *)
(***************************************************************************)
EXTENDS Terminal, SequenceTheorems, TLAPS

(* The reader and the ring.  CommandRight rests on what the test saw: with *)
(* no byte since, the pointer is where it was, with one it is the next, and*)
(* neither touches the Enter and what is before it.                        *)
RingTypeOK ==
    /\ mode \in Mode /\ pc \in Label
    /\ wptr \in Index /\ seen \in Index /\ ring \in [Index -> Byte]
    /\ chs \in Byte /\ reset_flag \in BOOLEAN
    /\ rx \in Byte \X Byte /\ moved \in 0..Many /\ before \in Byte /\ at \in Index
Unmoved == pc \notin {"copy", "check", "empty", "home"} => moved = 0
Pointers == pc \in {"copy", "check"} /\ moved < Many =>
    /\ at >= 1 /\ wptr = IF moved = 0 THEN at ELSE NextIndex(at)
    /\ seen \in {at, wptr}
EnterSeen == pc = "copy" /\ moved < Many =>
    ring[at - 1] = CR /\ (at >= 2 => ring[at - 2] = before)
Tested == Unmoved /\ Pointers /\ EnterSeen /\ CommandRight
RingInv == RingTypeOK /\ LastTwo /\ Tested

(* The texts.  TextRight rests on what a start has done so far: a byte that*)
(* comes while it goes on is noted, and without one the count stays clear. *)
TextTypeOK ==
    /\ starting \in Text \union {"none"}
    /\ writing \in [Text -> BOOLEAN] /\ early \in [Text -> BOOLEAN]
    /\ told \in [Text -> Seq(Byte)]
    /\ DOMAIN count = Text /\ DOMAIN text = Text
    /\ \A t \in Text : count[t] \in 0..Size[t] /\ text[t] \in [1..Size[t] -> Byte]
StartOK ==
    /\ starting # "none" <=> pc \in {"start", "count", "blank", "wipe"}
    /\ \A t \in Text : InStart(t) =>
          /\ told[t] = <<>>
          /\ pc \in {"blank", "wipe"} /\ ~early[t] => count[t] = 0
TextInv == TextTypeOK /\ StartOK /\ TextRight

LEMMA Constants ==
  /\ RingSize \in Nat /\ RingSize > 2
  /\ \A t \in Text : Size[t] \in Nat
  /\ Typed \subseteq Byte \ {0}
  /\ Foreign \subseteq Byte \ {CR}
BY RingAssumption, SizeAssumption, TypedAssumption, ForeignAssumption
   DEF Text, Byte, CR

----------------------------------------------------------------------------
LEMMA RingInit ==
  ASSUME Init PROVE RingInv
<1>1. RingTypeOK
  <2>1. /\ ring \in [Index -> Byte] /\ rx \in Byte \X Byte
        /\ wptr \in Index /\ seen \in Index /\ chs \in Byte
        /\ moved \in 0..Many /\ before \in Byte /\ at \in Index
    BY RingAssumption DEF Init, Index, EmptyRing, Byte, Many
  <2> QED
    BY <2>1 DEF Init, RingTypeOK, Mode, Label
<1> QED
  BY <1>1, Constants DEF Init, RingInv, LastTwo, Emptying, Tested, Unmoved, Pointers, EnterSeen, CommandRight

(* A step that leaves the ring alone and does not lead into a reading.     *)
LEMMA RingAlone ==
  ASSUME RingInv, UNCHANGED <<ringVars, history>>, ~Emptying,
         pc \notin {"copy", "check", "empty", "home"},
         mode' \in Mode, pc' \in Label \ {"copy", "check", "empty"},
         seen' \in Index, chs' \in Byte, reset_flag' \in BOOLEAN
  PROVE  RingInv'
<1>1. RingTypeOK'
  BY DEF RingInv, RingTypeOK, ringVars, history
<1> QED
  BY <1>1 DEF RingInv, LastTwo, Emptying, Tested, Unmoved, Pointers, EnterSeen,
              CommandRight, ringVars, history

LEMMA LookByte ==
  ASSUME RingTypeOK, NEW i \in Int, i < RingSize
  PROVE  Look(i) \subseteq Byte
<1>1. CASE i >= 0
  BY <1>1, RingAssumption DEF RingTypeOK, Look, Index
<1>2. CASE ~(i >= 0)
  BY <1>2, Constants DEF Look
<1> QED
  BY <1>1, <1>2

LEMMA TestEnterRing ==
  ASSUME RingInv, TestEnter PROVE RingInv'
<1>1. PICK b \in Look(wptr - 1) : pc' = IF b = CR THEN "copy" ELSE "act"
  BY DEF TestEnter, Goto
<1>2. /\ UNCHANGED <<ring, wptr, rx, chs, reset_flag, mode, moved>>
      /\ seen' = wptr /\ before' = rx[1] /\ at' = wptr /\ pc = "test"
  BY DEF TestEnter, ringVars
<1>3. RingTypeOK' /\ moved = 0
  BY <1>1, <1>2 DEF RingInv, RingTypeOK, Tested, Unmoved, Label
<1>4. pc' = "copy" => wptr >= 1 /\ ring[wptr - 1] = CR
  BY <1>1, Constants DEF Look, RingInv, RingTypeOK, Index
<1>5. wptr >= 2 => ring[wptr - 2] = rx[1]
  BY <1>2 DEF RingInv, LastTwo, Emptying
<1>6. Tested'
  BY <1>1, <1>2, <1>3, <1>4, <1>5
     DEF Tested, Unmoved, Pointers, EnterSeen, CommandRight
<1> QED
  BY <1>1, <1>2, <1>3, <1>6 DEF RingInv, LastTwo, Emptying

(* The key is what was before Enter, or the Enter, or lies before the ring.*)
LEMMA KeyTaken ==
  ASSUME RingInv, pc = "copy", moved < Many, NEW p \in Pointer,
         NEW c \in Look(p - 2)
  PROVE  \/ c = before /\ at >= 2
         \/ c = CR /\ moved = 1
         \/ c \in Foreign /\ at = 1
         \/ c \in Foreign /\ moved = 1 /\ at = RingSize - 1
<1>1. /\ at \in Index /\ at >= 1 /\ moved \in 0..1
      /\ p = at \/ p = wptr
      /\ wptr = IF moved = 0 THEN at ELSE NextIndex(at)
      /\ ring[at - 1] = CR /\ (at >= 2 => ring[at - 2] = before)
  BY DEF RingInv, RingTypeOK, Tested, Pointers, EnterSeen, Pointer, Many
<1>2. CASE p = at
  BY <1>1, <1>2, Constants DEF Look, Index
<1>3. CASE p = NextIndex(at) /\ moved = 1
  <2>1. CASE at + 1 > RingSize - 1
    BY <1>1, <1>3, <2>1, Constants DEF Look, Index, NextIndex
  <2>2. CASE ~(at + 1 > RingSize - 1)
    BY <1>1, <1>3, <2>2, Constants DEF Look, Index, NextIndex
  <2> QED
    BY <2>1, <2>2
<1> QED
  BY <1>1, <1>2, <1>3

LEMMA CopyKeyRing ==
  ASSUME RingInv, CopyKey PROVE RingInv'
<1>1. PICK p \in Pointer : seen' = p /\ chs' \in Look(p - 2)
  BY DEF CopyKey
<1>2. p \in Index
  BY DEF Pointer, RingInv, RingTypeOK
<1>3. pc = "copy" /\ pc' = "check"
      /\ UNCHANGED <<mode, reset_flag, starting, ring, wptr, rx, moved, before, at>>
  BY DEF CopyKey, Goto, ringVars, history
<1>4. RingTypeOK'
  BY <1>1, <1>2, <1>3, LookByte, Constants DEF RingInv, RingTypeOK, Label, Index
<1>5. CommandRight'
  BY <1>1, <1>3, KeyTaken DEF CommandRight
<1>6. Tested'
  BY <1>1, <1>3, <1>5 DEF RingInv, Tested, Unmoved, Pointers, EnterSeen, Pointer
<1> QED
  BY <1>3, <1>4, <1>6 DEF RingInv, LastTwo, Emptying

(* The pointer is at the ring's beginning only when a byte took it there.  *)
LEMMA CheckWrapRing ==
  ASSUME RingInv, CheckWrap PROVE RingInv'
<1>1. PICK p \in Pointer : IF p = 0 THEN chs' \in Foreign ELSE chs' = chs
  BY DEF CheckWrap
<1>2. pc = "check" /\ pc' = "empty"
      /\ UNCHANGED <<mode, seen, reset_flag, starting, ring, wptr, rx, moved, before, at>>
  BY DEF CheckWrap, Goto, ringVars, history
<1>3. RingTypeOK'
  <2>1. chs' \in Byte
    BY <1>1, Constants DEF RingInv, RingTypeOK
  <2> QED
    BY <1>2, <2>1 DEF RingInv, RingTypeOK, Label
<1>4. CommandRight'
  <2>1. SUFFICES ASSUME moved < Many
                 PROVE  \/ chs' = before /\ at >= 2
                        \/ chs' = CR /\ moved = 1
                        \/ chs' \in Foreign /\ at = 1
                        \/ chs' \in Foreign /\ moved = 1 /\ at = RingSize - 1
    BY <1>2 DEF CommandRight
  <2>2. CASE p # 0
    BY <1>1, <1>2, <2>1, <2>2 DEF RingInv, Tested, CommandRight
  <2>3. CASE p = 0
    <3>1. at >= 1 /\ at \in Index /\ moved \in 0..1
          /\ wptr = (IF moved = 0 THEN at ELSE NextIndex(at)) /\ seen \in {at, wptr}
      BY <1>2, <2>1 DEF RingInv, RingTypeOK, Tested, Pointers, Many
    <3>2. moved = 1 /\ NextIndex(at) = 0
      BY <2>3, <3>1 DEF Pointer
    <3>3. at = RingSize - 1
      BY <3>1, <3>2, Constants DEF NextIndex, Index
    <3> QED
      BY <1>1, <2>3, <3>2, <3>3
  <2> QED
    BY <2>2, <2>3
<1> QED
  BY <1>2, <1>3, <1>4 DEF RingInv, LastTwo, Emptying, Tested, Unmoved, Pointers, EnterSeen

LEMMA ReaderRing ==
  ASSUME RingInv, Reader PROVE RingInv'
<1>1. CASE TestEnter
  BY <1>1, TestEnterRing
<1>2. CASE CopyKey
  BY <1>2, CopyKeyRing
<1>3. CASE CheckWrap
  BY <1>3, CheckWrapRing
<1>4. CASE Empty
  <2>1. RingTypeOK'
    BY <1>4 DEF Empty, EmptyRing, Goto, history, RingInv, RingTypeOK, Label, Index, Byte
  <2> QED
    BY <1>4, <2>1 DEF Empty, Goto, history, RingInv, LastTwo, Emptying, Tested, Unmoved, Pointers, EnterSeen, CommandRight
<1>5. CASE Home
  <2>1. RingTypeOK'
    <3>1. UNCHANGED <<mode, seen, chs, reset_flag, ring>> /\ moved' = 0
          /\ UNCHANGED <<before, at>>
          /\ wptr' = 0 /\ pc' = "act" /\ rx' = <<0, 0>>
      BY <1>5 DEF Home, Goto
    <3>2. wptr' \in Index /\ pc' \in Label /\ rx' \in Byte \X Byte
      BY <3>1, RingAssumption DEF Index, Label, Byte
    <3> QED
      BY <3>1, <3>2 DEF RingInv, RingTypeOK, history, Many
  <2> QED
    BY <1>5, <2>1 DEF Home, Goto, RingInv, LastTwo, Emptying, Tested, Unmoved, Pointers, EnterSeen, CommandRight
<1>6. CASE Act
  <2>1. mode' \in Mode /\ pc' \in {"start", "top", "end"} /\ chs' \in Byte
        /\ reset_flag' \in BOOLEAN /\ pc = "act"
    <3>1. CASE Raise(Digit(5), "sms") \/ Raise(Digit(6), "number")
      BY <1>6, <3>1 DEF Act, Raise, Goto, Byte, RingInv, RingTypeOK
    <3>2. CASE OtherKey
      BY <1>6, <3>2 DEF Act, OtherKey, Goto, Mode, Byte, RingInv, RingTypeOK
    <3> QED
      BY <1>6, <3>1, <3>2 DEF Act
  <2>2. UNCHANGED <<seen, ringVars, history>>
    BY <1>6 DEF Act
  <2> QED
    BY <2>1, <2>2, RingAlone DEF Emptying, Label, RingInv, RingTypeOK
<1>7. CASE Start
  <2>1. RingTypeOK'
    <3>1. UNCHANGED <<mode, seen, chs, reset_flag, ring, rx, history>>
          /\ wptr' = 0 /\ pc' = "count"
      BY <1>7 DEF Start, Goto
    <3>2. wptr' \in Index /\ pc' \in Label
      BY <3>1, RingAssumption DEF Index, Label
    <3> QED
      BY <3>1, <3>2 DEF RingInv, RingTypeOK, history, Many
  <2> QED
    BY <1>7, <2>1 DEF Start, Goto, history, RingInv, LastTwo, Emptying, Tested, Unmoved, Pointers, EnterSeen, CommandRight
<1>8. CASE ClearCount \/ BlankText
  <2>1. RingTypeOK'
    BY <1>8 DEF ClearCount, BlankText, Goto, RingInv, RingTypeOK, Label, ringVars, history
  <2> QED
    BY <1>8, <2>1 DEF ClearCount, BlankText, Goto, history, ringVars, RingInv, LastTwo, Emptying, Tested, Unmoved, Pointers, EnterSeen, CommandRight
<1>9. CASE Wipe
  <2>1. RingTypeOK'
    BY <1>9 DEF Wipe, EmptyRing, Goto, history, RingInv, RingTypeOK, Label, Index, Byte
  <2>2. LastTwo'
    <3>1. \A i \in Index : ring'[i] = 0
      BY <1>9 DEF Wipe, EmptyRing, Index
    <3>2. rx' = <<0, 0>> /\ wptr' = wptr /\ wptr \in Index
      BY <1>9 DEF Wipe, RingInv, RingTypeOK
    <3>3. /\ wptr >= 1 => wptr - 1 \in Index
          /\ wptr >= 2 => wptr - 2 \in Index
      <4>1. wptr \in Int /\ wptr < RingSize
        BY <3>2, RingAssumption DEF Index
      <4> QED
        BY <4>1, RingAssumption DEF Index
    <3> QED
      BY <3>1, <3>2, <3>3 DEF LastTwo
  <2> QED
    BY <1>9, <2>1, <2>2 DEF Wipe, Goto, history, RingInv, Tested, Unmoved, Pointers, EnterSeen, CommandRight
<1>10. CASE Top \/ End
  <2>1. mode' \in Mode /\ pc' \in {"test", "top"} /\ reset_flag' \in BOOLEAN
        /\ pc \in {"top", "end"} /\ UNCHANGED <<seen, chs, ringVars, history>>
    BY <1>10 DEF Top, End, Goto, Mode, RingInv, RingTypeOK
  <2> QED
    BY <2>1, RingAlone DEF Emptying, Label, RingInv, RingTypeOK
<1> QED
  BY <1>1, <1>2, <1>3, <1>4, <1>5, <1>6, <1>7, <1>8, <1>9, <1>10 DEF Reader

LEMMA TypeRing ==
  ASSUME RingInv, Type PROVE RingInv'
<1>1. PICK b \in Typed : UART0_Handler(b)
  BY DEF Type
<1>2. b \in Byte
  BY Constants
<1>3. wptr' \in Index /\ (wptr' = wptr + 1 \/ wptr' = 0)
  BY <1>1, Constants DEF UART0_Handler, NextIndex, RingInv, RingTypeOK, Index
<1>4. /\ ring' = [ring EXCEPT ![wptr] = b] /\ rx' = <<rx[2], b>>
      /\ wptr' = NextIndex(wptr)
      /\ UNCHANGED <<mode, pc, seen, chs, reset_flag, before, at>>
      /\ moved' = IF pc \in {"copy", "check"} /\ moved < Many THEN moved + 1 ELSE moved
  BY <1>1 DEF UART0_Handler, readerVars
<1>5. RingTypeOK'
  <2>1. moved' \in 0..Many
    BY <1>4 DEF RingInv, RingTypeOK, Many
  <2> QED
    BY <1>2, <1>3, <1>4, <2>1 DEF RingInv, RingTypeOK
<1>6. LastTwo'
  <2>1. ASSUME ~Emptying, wptr' = wptr + 1
        PROVE  ring'[wptr'-1] = rx'[2] /\ (wptr' >= 2 => ring'[wptr'-2] = rx'[1])
    BY <2>1, <1>3, <1>4 DEF RingInv, RingTypeOK, LastTwo, Index
  <2> QED
    BY <1>3, <1>4, <2>1 DEF LastTwo, Emptying
<1>7. Unmoved'
  BY <1>4 DEF RingInv, Tested, Unmoved
<1>8. Pointers' /\ EnterSeen'
  <2>1. CASE pc \in {"copy", "check"} /\ moved' < Many
    <3>1. moved = 0 /\ moved' = 1
      BY <1>4, <2>1 DEF RingInv, RingTypeOK, Many
    <3>2. at >= 1 /\ wptr = at /\ seen = at /\ at \in Index
      BY <2>1, <3>1 DEF RingInv, RingTypeOK, Tested, Pointers, Many
    <3>3. Pointers'
      BY <1>4, <3>1, <3>2 DEF Pointers
    <3>4. EnterSeen'
      <4>1. /\ pc = "copy" => ring[at - 1] = CR /\ (at >= 2 => ring[at - 2] = before)
        BY <3>1 DEF RingInv, Tested, EnterSeen, Many
      <4>2. ring'[at - 1] = ring[at - 1] /\ (at >= 2 => ring'[at - 2] = ring[at - 2])
        BY <1>4, <3>2, Constants DEF RingInv, RingTypeOK, Index
      <4> QED
        BY <1>4, <4>1, <4>2 DEF EnterSeen
    <3> QED
      BY <3>3, <3>4
  <2>2. CASE ~(pc \in {"copy", "check"} /\ moved' < Many)
    BY <1>4, <2>2 DEF Pointers, EnterSeen
  <2> QED
    BY <2>1, <2>2
<1>9. CommandRight'
  BY <1>4 DEF RingInv, RingTypeOK, Tested, CommandRight, Many
<1> QED
  BY <1>5, <1>6, <1>7, <1>8, <1>9 DEF RingInv, Tested

LEMMA RingStep ==
  ASSUME RingInv, [Next]_vars PROVE RingInv'
<1>1. CASE UNCHANGED vars
  BY <1>1 DEF vars, readerVars, ringVars, history, RingInv, RingTypeOK, LastTwo, Emptying,
              Tested, Unmoved, Pointers, EnterSeen, CommandRight
<1> QED
  BY <1>1, ReaderRing, TypeRing DEF Next

(* The two bytes before the pointer are the last two that were typed, which*)
(* is what Modes takes the ring to be.                                     *)
THEOREM RingShowsTheLine == Spec => []LastTwo
<1>1. Spec => []RingInv
  BY RingInit, RingStep, PTL DEF Spec
<1> QED
  BY <1>1, PTL DEF RingInv

(* What is taken as the command is the byte before Enter; with one byte    *)
(* since the test perhaps the Enter, which is no key; and at the ring's    *)
(* beginning, where the code does not go round, a byte from before the ring.*)
THEOREM CommandCorrect == Spec => []CommandRight
<1>1. Spec => []RingInv
  BY RingInit, RingStep, PTL DEF Spec
<1> QED
  BY <1>1, PTL DEF RingInv, Tested

----------------------------------------------------------------------------
LEMMA TextInit ==
  ASSUME Init PROVE TextInv
<1>1. TextTypeOK
  BY Constants DEF Init, TextTypeOK, Text, Blank, Byte
<1>2. StartOK
  BY DEF Init, StartOK, InStart, Text
<1>3. TextRight
  BY Constants DEF Init, TextRight, InStart, Text
<1> QED
  BY <1>1, <1>2, <1>3 DEF TextInv

(* A step that leaves the texts alone and stays where no text is started,  *)
(* or goes on starting the same one.                                       *)
LEMMA TextAlone ==
  ASSUME TextInv, UNCHANGED <<textVars, starting>>,
         \/ /\ pc \notin {"start", "count", "blank", "wipe"}
            /\ pc' \notin {"start", "count", "blank", "wipe"}
         \/ pc' = pc
         \/ pc = "start" /\ pc' = "count"
  PROVE  TextInv'
<1>1. TextTypeOK' /\ TextRight'
  BY DEF TextInv, TextTypeOK, TextRight, InStart, textVars
<1>2. StartOK'
  BY DEF TextInv, StartOK, InStart, textVars
<1> QED
  BY <1>1, <1>2 DEF TextInv

LEMMA RaiseText ==
  ASSUME TextInv, NEW t \in Text, NEW key, pc = "act", Raise(key, t)
  PROVE  TextInv'
<1>1. TextTypeOK'
  BY DEF TextInv, TextTypeOK, Raise
<1>2. \A u \in Text : ~InStart(u)
  BY DEF TextInv, StartOK, InStart, Text
<1>3. StartOK'
  BY <1>2 DEF TextInv, TextTypeOK, StartOK, Raise, Goto, InStart, Text
<1>4. TextRight'
  BY <1>2 DEF TextInv, TextTypeOK, TextRight, Raise, Goto, InStart
<1> QED
  BY <1>1, <1>3, <1>4 DEF TextInv

LEMMA ReaderText ==
  ASSUME TextInv, Reader PROVE TextInv'
<1>1. CASE TestEnter \/ CopyKey \/ CheckWrap \/ Empty \/ Home \/ Start \/ End
  BY <1>1, TextAlone DEF TestEnter, CopyKey, CheckWrap, Empty, Home, Start, End, Goto
<1>2. CASE Act
  <2>1. CASE Raise(Digit(5), "sms") \/ Raise(Digit(6), "number")
    BY <1>2, <2>1, RaiseText DEF Act, Text
  <2>2. CASE OtherKey
    BY <1>2, <2>2, TextAlone DEF Act, OtherKey, Goto
  <2> QED
    BY <1>2, <2>1, <2>2 DEF Act
<1>3. CASE Top
  <2>1. pc = "top" /\ pc' \in {"top", "test"} /\ UNCHANGED <<count, text, told, early, starting>>
        /\ writing' \in [Text -> BOOLEAN]
    BY <1>3 DEF Top, Goto, TextInv, TextTypeOK, Text
  <2> QED
    BY <2>1 DEF TextInv, TextTypeOK, StartOK, TextRight, InStart
<1>4. CASE ClearCount
  <2>1. pc = "count" /\ pc' = "blank" /\ starting \in Text
        /\ UNCHANGED <<starting, writing, text, told, early>>
        /\ count' = [count EXCEPT ![starting] = 0]
    BY <1>4 DEF ClearCount, Goto, TextInv, StartOK, TextTypeOK
  <2>2. TextTypeOK'
    BY <2>1, Constants DEF TextInv, TextTypeOK
  <2>3. StartOK' /\ TextRight'
    BY <2>1 DEF TextInv, TextTypeOK, StartOK, TextRight, InStart
  <2> QED
    BY <2>2, <2>3 DEF TextInv
<1>5. CASE BlankText
  <2>1. pc = "blank" /\ pc' = "wipe" /\ starting \in Text
        /\ UNCHANGED <<starting, writing, count, told, early>>
        /\ text' = [text EXCEPT ![starting] = Blank(Size[starting])]
    BY <1>5 DEF BlankText, Goto, TextInv, StartOK, TextTypeOK
  <2>2. TextTypeOK'
    <3>1. Blank(Size[starting]) \in [1..Size[starting] -> Byte]
      BY DEF Blank, Byte
    <3> QED
      BY <2>1, <3>1 DEF TextInv, TextTypeOK
  <2>3. StartOK' /\ TextRight'
    BY <2>1 DEF TextInv, TextTypeOK, StartOK, TextRight, InStart
  <2> QED
    BY <2>2, <2>3 DEF TextInv
<1>6. CASE Wipe
  <2>1. pc = "wipe" /\ pc' = "top" /\ starting \in Text /\ starting' = "none"
        /\ UNCHANGED textVars
    BY <1>6 DEF Wipe, Goto, TextInv, StartOK, TextTypeOK
  <2>2. TextTypeOK' /\ StartOK'
    BY <2>1 DEF TextInv, TextTypeOK, StartOK, InStart, Text, textVars
  <2>3. told[starting] = <<>> /\ (~early[starting] => count[starting] = 0)
    BY <2>1 DEF TextInv, StartOK, InStart
  <2>4. TextRight'
    BY <2>1, <2>3, Constants DEF TextInv, TextTypeOK, TextRight, InStart, textVars
  <2> QED
    BY <2>2, <2>4 DEF TextInv
<1> QED
  BY <1>1, <1>2, <1>3, <1>4, <1>5, <1>6 DEF Reader

(* A byte of a text: the handler's part for the text t, when it is no dash.*)
TypeOf(t) == /\ count[t] \in 0..Size[t] /\ text[t] \in [1..Size[t] -> Byte]
             /\ told[t] \in Seq(Byte)
StartOf(t) == InStart(t) => /\ told[t] = <<>>
                            /\ pc \in {"blank", "wipe"} /\ ~early[t] => count[t] = 0
Shown(t) == LET n == Len(told[t]) IN
            /\ n <= count[t]
            /\ \A i \in 1..n : text[t][count[t] - n + i] = told[t][i]
            /\ ~early[t] => n = count[t]
RightOf(t) == ~InStart(t) => Shown(t)

LEMMA WriteText ==
  ASSUME TextInv, NEW b \in Byte \ {Dash}, Fits(b), Write(b), NEW t \in Text,
         early'[t] = (early[t] \/ InStart(t)), UNCHANGED <<pc, starting>>
  PROVE  TypeOf(t)' /\ StartOf(t)' /\ RightOf(t)'
<1> DEFINE n == Len(told[t])
<1>0. /\ count[t] \in 0..Size[t] /\ text[t] \in [1..Size[t] -> Byte]
      /\ told[t] \in Seq(Byte) /\ Size[t] \in Nat /\ n \in Nat
  BY Constants DEF TextInv, TextTypeOK
<1>1. StartOf(t) /\ RightOf(t)
  BY DEF TextInv, StartOK, TextRight, StartOf, RightOf, Shown
<1>2. InStart(t)' <=> InStart(t)
  BY DEF InStart
<1>3. ~early'[t] => ~early[t] /\ ~InStart(t)
  OBVIOUS
<1>4. CASE ~writing[t]
  <2>1. count'[t] = count[t] /\ text'[t] = text[t] /\ told'[t] = told[t]
    BY <1>4 DEF Write
  <2>2. TypeOf(t)' /\ StartOf(t)'
    BY <2>1, <1>0, <1>1, <1>2, <1>3 DEF TypeOf, StartOf
  <2>3. Shown(t) => Shown(t)'
    BY <2>1, <1>3 DEF Shown
  <2> QED
    BY <2>2, <2>3, <1>1, <1>2 DEF RightOf
<1>5. CASE writing[t]
  <2>1. count[t] < Size[t]
    BY <1>5 DEF Fits
  <2>2. /\ count'[t] = count[t] + 1
        /\ text'[t] = [text[t] EXCEPT ![count[t] + 1] = b]
        /\ told'[t] = IF ~InStart(t) THEN Append(told[t], b) ELSE told[t]
    BY <1>5 DEF Write
  <2>3. TypeOf(t)'
    BY <2>1, <2>2, <1>0 DEF TypeOf
  <2>4. StartOf(t)'
    BY <2>2, <1>1, <1>2, <1>3 DEF StartOf
  <2>5. CASE InStart(t)
    BY <2>3, <2>4, <2>5, <1>2 DEF RightOf
  <2>6. CASE ~InStart(t)
    <3>1. /\ told'[t] \in Seq(Byte) /\ Len(told'[t]) = n + 1
          /\ \A i \in 1..n : told'[t][i] = told[t][i]
          /\ told'[t][n + 1] = b
      BY <2>2, <2>6, <1>0
    <3>2. /\ n <= count[t]
          /\ \A i \in 1..n : text[t][count[t] - n + i] = told[t][i]
          /\ ~early[t] => n = count[t]
      BY <2>6, <1>1 DEF RightOf, Shown
    <3>3. ASSUME NEW i \in 1..n + 1
          PROVE  text'[t][count[t] - n + i] = told'[t][i]
      <4>1. CASE i = n + 1
        <5>1. count[t] - n + i = count[t] + 1
          BY <4>1, <1>0
        <5> QED
          BY <5>1, <4>1, <3>1, <2>1, <2>2, <1>0
      <4>2. CASE i \in 1..n
        <5>1. count[t] - n + i \in 1..count[t]
          BY <4>2, <3>2, <1>0
        <5>2. text'[t][count[t] - n + i] = text[t][count[t] - n + i]
          BY <5>1, <2>1, <2>2, <1>0
        <5> QED
          BY <5>2, <4>2, <3>1, <3>2
      <4> QED
        BY <4>1, <4>2, <1>0
    <3>4. count[t] \in Int /\ n \in Int
      BY <1>0
    <3>5. count'[t] - Len(told'[t]) = count[t] - n
      <4>1. count'[t] = count[t] + 1 /\ Len(told'[t]) = n + 1
        BY <3>1, <2>2
      <4> HIDE DEF n
      <4> QED
        BY <4>1, <3>4
    <3>6. /\ Len(told'[t]) <= count'[t]
          /\ ~early'[t] => Len(told'[t]) = count'[t]
      <4>1. count'[t] = count[t] + 1 /\ Len(told'[t]) = n + 1
        BY <3>1, <2>2
      <4>2. n <= count[t] /\ (~early'[t] => n = count[t])
        BY <3>2, <1>3
      <4> HIDE DEF n
      <4> QED
        BY <4>1, <4>2, <3>4
    <3>7. \A i \in 1..Len(told'[t]) :
             text'[t][count'[t] - Len(told'[t]) + i] = told'[t][i]
      BY <3>1, <3>3, <3>5
    <3>8. Shown(t)'
      BY <3>6, <3>7 DEF Shown
    <3> QED
      BY <3>8, <2>3, <2>4 DEF RightOf
  <2> QED
    BY <2>5, <2>6
<1> QED
  BY <1>4, <1>5

LEMMA TypeText ==
  ASSUME TextInv, Type PROVE TextInv'
<1>1. PICK b \in Typed : UART0_Handler(b)
  BY DEF Type
<1>2. /\ b \in Byte /\ Fits(b) /\ Write(b)
      /\ UNCHANGED <<pc, starting>>
      /\ early' = [t \in Text |-> early[t] \/ InStart(t)]
  BY <1>1, Constants DEF UART0_Handler, readerVars
<1>3. early' \in [Text -> BOOLEAN] /\ \A t \in Text : early'[t] = (early[t] \/ InStart(t))
  BY <1>2 DEF InStart
<1>4. CASE b = Dash
  <2>1. writing' \in [Text -> BOOLEAN] /\ UNCHANGED <<count, text, told>>
    BY <1>2, <1>4 DEF Write
  <2>2. TextTypeOK' /\ StartOK'
    BY <1>2, <1>3, <2>1 DEF TextInv, TextTypeOK, StartOK, InStart
  <2>3. TextRight'
    <3>1. ASSUME NEW t \in Text, ~InStart(t)' PROVE Shown(t)'
      <4>1. ~InStart(t) /\ (~early'[t] => ~early[t])
        BY <3>1, <1>2, <1>3 DEF InStart
      <4>2. Shown(t)
        BY <4>1 DEF TextInv, TextRight, Shown
      <4> QED
        BY <4>1, <4>2, <2>1 DEF Shown
    <3> QED
      BY <3>1 DEF TextRight, Shown
  <2> QED
    BY <2>2, <2>3 DEF TextInv
<1>5. CASE b # Dash
  <2>1. writing' = writing /\ DOMAIN count' = Text /\ DOMAIN text' = Text
        /\ told' = [t \in Text |-> told'[t]]
    BY <1>2, <1>5 DEF Write
  <2>2. \A t \in Text : TypeOf(t)' /\ StartOf(t)' /\ RightOf(t)'
    BY <1>2, <1>3, <1>5, WriteText
  <2>3. TextTypeOK'
    BY <1>2, <1>3, <2>1, <2>2 DEF TextInv, TextTypeOK, TypeOf
  <2>4. StartOK'
    BY <1>2, <2>2 DEF TextInv, StartOK, StartOf
  <2>5. TextRight'
    <3>1. \A t \in Text : ~InStart(t)' => Shown(t)'
      BY <2>2 DEF RightOf
    <3> QED
      BY <3>1 DEF TextRight, Shown
  <2> QED
    BY <2>3, <2>4, <2>5 DEF TextInv
<1> QED
  BY <1>4, <1>5

LEMMA TextStep ==
  ASSUME TextInv, [Next]_vars PROVE TextInv'
<1>1. CASE UNCHANGED vars
  BY <1>1, TextAlone DEF vars, readerVars
<1> QED
  BY <1>1, ReaderText, TypeText DEF Next

(* A text holds what was typed after its prompt, for texts of every size.  *)
THEOREM TextsComplete == Spec => []TextRight
<1>1. Spec => []TextInv
  BY TextInit, TextStep, PTL DEF Spec
<1> QED
  BY <1>1, PTL DEF TextInv

(* Types; that the pointer stays in the ring is part of it.                *)
THEOREM TypeCorrect == Spec => []TypeOK
<1>1. RingInv /\ TextInv => TypeOK
  BY DEF RingInv, TextInv, RingTypeOK, TextTypeOK, TypeOK
<1>2. Spec => [](RingInv /\ TextInv)
  BY RingInit, RingStep, TextInit, TextStep, PTL DEF Spec
<1> QED
  BY <1>1, <1>2, PTL
=============================================================================
