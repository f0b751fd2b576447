---------------------------- MODULE PowerProofs ----------------------------
(***************************************************************************)
(* Proofs about Power, for every choice of the counts: its types; the      *)
(* modem's switch is never on without its supply, but inside a reset block;*)
(* the count to the powering lies ahead of a modem without power; and the  *)
(* count to the AT commands, or a request for them, lies ahead of a modem  *)
(* that has had none.                                                      *)
(***************************************************************************)
EXTENDS Power, TLAPS

LEMMA Delays ==
    /\ OnDelay \in Nat /\ ATDelay \in Nat \ {0} /\ Busy \in Nat /\ AnswerMax \in Nat
    /\ PulseAt \in Nat /\ ModemAt \in Nat \ {0} /\ InitAt \in Nat /\ Period \in Nat
    /\ ModemAt + ATDelay < InitAt /\ InitAt < Period
BY CountAssumption

(* A counter goes on by one, or round to 0.                                *)
LEMMA CountedInRange ==
    ASSUME NEW c \in 0..Period - 1
    PROVE  /\ Counted(c) \in 0..Period - 1
           /\ Counted(c) = IF c + 1 = Period THEN 0 ELSE c + 1
<1>1. CASE c + 1 = Period
  <2>1. Counted(c) = 0
    BY <1>1, Delays DEF Counted
  <2> QED BY <1>1, <2>1, Delays
<1>2. CASE c + 1 # Period
  <2>1. c + 1 \in 0..Period - 1
    BY <1>2, Delays
  <2>2. Counted(c) = c + 1
    BY <2>1, Delays DEF Counted
  <2> QED BY <1>2, <2>1, <2>2
<1> QED BY <1>1, <1>2

----------------------------------------------------------------------------
(* The modes and the reset.                                                *)
LEMMA ControlStep ==
    ASSUME [Next]_vars PROVE [Control!Next]_modeVars
<1>1. CASE ResetStep
  BY <1>1 DEF ResetStep, Control!Next
<1>2. CASE LoopEnd
  BY <1>2 DEF LoopEnd, Leave, Control!Next
<1>3. CASE UNCHANGED modeVars
  BY <1>3
<1>4. CASE ~ResetStep /\ ~LoopEnd
  <2>1. UNCHANGED modeVars
    BY <1>4 DEF Next, Task, Top, Fix, ReceiverOn, Started, ReceiverOff,
                SendAT, SentAT, Tick, Follow, Stop, vars
  <2> QED BY <2>1
<1> QED BY <1>1, <1>2, <1>4

LEMMA ControlTypes ==
    ASSUME Control!TypeOK, [Control!Next]_modeVars PROVE Control!TypeOK'
BY DEF Control!TypeOK, Control!Next, Control!Switch, Control!AskReset,
       Control!Reset, Control!Mode, modeVars

----------------------------------------------------------------------------
(* Types, one part for each group of variables.                            *)
Label == {"top", "command", "on", "starting", "off", "at", "sending", "end",
          "reset"}
TaskTypes ==
    /\ pc \in Label /\ step \in 1..9 /\ (step # 1 => pc = "reset")
    /\ sleep \in Nat /\ late \in BOOLEAN
CountTypes == GSM_tick_cnt \in 0..Period - 1 /\ GPS_tick_cnt \in 0..Period - 1
FlagTypes == flag \in [Flag -> {0, 1}]
PinTypes == /\ batt \in BOOLEAN /\ modem \in BOOLEAN /\ pulse \in BOOLEAN
            /\ obeys \in BOOLEAN /\ status \in BOOLEAN
            /\ answer \in -1..AnswerMax
HistoryTypes == initialised \in BOOLEAN

LEMMA BlockSteps == DOMAIN Block = 1..9 /\ Block[9] = "reset_flag"
                    /\ \A i \in 1..8 : Block[i] # "reset_flag"
BY DEF Block

LEMMA TaskStep == ASSUME TaskTypes, [Next]_vars PROVE TaskTypes'
<1> USE DEF TaskTypes, Label
<1>1. CASE Top
  BY <1>1 DEF Top, At
<1>2. CASE ResetStep
  <2>1. pc = "reset" /\ sleep' = sleep /\ late' = late
    BY <1>2 DEF ResetStep, At
  <2>2. CASE Block[step] = "reset_flag"
    <3>1. step' = 1 /\ pc' = "command"
      BY <1>2, <2>2 DEF ResetStep
    <3> QED BY <2>1, <3>1
  <2>3. CASE Block[step] # "reset_flag"
    <3>1. step' = step + 1 /\ pc' = pc
      BY <1>2, <2>3 DEF ResetStep
    <3>2. step \in 1..8
      BY <2>3, BlockSteps
    <3> QED BY <2>1, <3>1, <3>2
  <2> QED BY <2>2, <2>3
<1>3. CASE LoopEnd
  BY <1>3, Delays DEF LoopEnd, At
<1>4. CASE Fix
  BY <1>4 DEF Fix, At
<1>5. CASE ReceiverOn
  BY <1>5, Delays DEF ReceiverOn, At
<1>6. CASE Started
  BY <1>6 DEF Started, At
<1>7. CASE ReceiverOff
  BY <1>7 DEF ReceiverOff, At
<1>8. CASE SendAT
  BY <1>8, Delays DEF SendAT, At
<1>9. CASE SentAT
  BY <1>9 DEF SentAT, At
<1>10. CASE Tick
  BY <1>10 DEF Tick
<1>11. CASE UNCHANGED <<pc, step, sleep, late>>
  BY <1>11
<1> QED BY <1>1, <1>2, <1>3, <1>4, <1>5, <1>6, <1>7, <1>8, <1>9, <1>10, <1>11
        DEF Next, Task, Follow, Stop, vars

LEMMA CountStep == ASSUME CountTypes, [Next]_vars PROVE CountTypes'
<1> USE Delays DEF CountTypes
<1>1. CASE ResetStep
  BY <1>1 DEF ResetStep
<1>2. CASE Tick
  <2>1. /\ GSM_tick_cnt' = Counted(GSM_tick_cnt)
        /\ GPS_tick_cnt' = GPSCount(Counted(GPS_tick_cnt))
    BY <1>2 DEF Tick
  <2> QED BY <2>1, CountedInRange DEF GPSCount
<1>3. CASE UNCHANGED countVars
  BY <1>3 DEF countVars
<1> QED BY <1>1, <1>2, <1>3 DEF Next, Task, Top, LoopEnd, Fix, ReceiverOn,
      Started, ReceiverOff, SendAT, SentAT, Follow, Stop, vars

LEMMA FlagStep == ASSUME FlagTypes, [Next]_vars PROVE FlagTypes'
<1> USE DEF FlagTypes, Set
<1>1. CASE Top
  BY <1>1 DEF Top
<1>2. CASE ResetStep
  BY <1>2 DEF ResetStep
<1>3. CASE Fix
  BY <1>3 DEF Fix
<1>4. CASE Started
  BY <1>4 DEF Started
<1>5. CASE ReceiverOff
  BY <1>5 DEF ReceiverOff
<1>6. CASE SentAT
  BY <1>6 DEF SentAT
<1>7. CASE Tick
  BY <1>7 DEF Tick
<1>8. CASE UNCHANGED flag
  BY <1>8
<1> QED BY <1>1, <1>2, <1>3, <1>4, <1>5, <1>6, <1>7, <1>8
        DEF Next, Task, LoopEnd, ReceiverOn, SendAT, Follow, Stop, vars

LEMMA PinStep == ASSUME PinTypes, [Next]_vars PROVE PinTypes'
<1> USE Delays DEF PinTypes, gpsVars
<1>1. CASE ResetStep
  BY <1>1 DEF ResetStep
<1>2. CASE Tick
  <2>1. /\ pulse' = Pulse(Counted(GPS_tick_cnt))
        /\ batt' = (batt \/ Counted(GSM_tick_cnt) = ModemAt)
        /\ modem' = (modem \/ Counted(GSM_tick_cnt) = ModemAt)
        /\ obeys' = obeys /\ status' = status
    BY <1>2 DEF Tick
  <2>2. pulse' \in BOOLEAN /\ batt' \in BOOLEAN /\ modem' \in BOOLEAN
    BY <2>1, Zenon DEF Pulse
  <2>3. answer' \in -1..AnswerMax
    <3>1. CASE ~pulse /\ pulse' /\ answer = -1
      BY <1>2, <3>1 DEF Tick
    <3>2. CASE ~(~pulse /\ pulse' /\ answer = -1)
      <4>1. answer' = IF answer > 0 THEN answer - 1 ELSE answer
        BY <1>2, <3>2 DEF Tick
      <4> QED BY <4>1
    <3> QED BY <3>1, <3>2
  <2> QED BY <2>1, <2>2, <2>3
<1>3. CASE Follow
  BY <1>3 DEF Follow, pinVars
<1>4. CASE Stop
  BY <1>4 DEF Stop, pinVars
<1>5. CASE UNCHANGED <<pinVars, gpsVars>>
  BY <1>5 DEF pinVars
<1> QED BY <1>1, <1>2, <1>3, <1>4, <1>5 DEF Next, Task, Top, LoopEnd, Fix,
      ReceiverOn, Started, ReceiverOff, SendAT, SentAT, vars

LEMMA HistoryStep ==
    ASSUME HistoryTypes, [Next]_vars PROVE HistoryTypes'
<1>1. CASE ResetStep
  BY <1>1, Zenon DEF ResetStep, HistoryTypes
<1>2. CASE SendAT
  BY <1>2, Zenon DEF SendAT, HistoryTypes
<1>3. CASE UNCHANGED initialised
  BY <1>3 DEF HistoryTypes
<1> QED BY <1>1, <1>2, <1>3 DEF Next, Task, Top, LoopEnd, Fix, ReceiverOn,
      Started, ReceiverOff, SentAT, Tick, Follow, Stop, vars

Types == Control!TypeOK /\ TaskTypes /\ CountTypes /\ FlagTypes /\ PinTypes
         /\ HistoryTypes

LEMMA TypesInvariant == Spec => []Types
<1>1. Init => Types
  <2> SUFFICES ASSUME Init PROVE Types
    OBVIOUS
  <2>1. Control!TypeOK
    BY DEF Init, Control!Init, Control!TypeOK, Control!Mode
  <2>2. TaskTypes
    <3>1. pc = "top" /\ step = 1 /\ sleep = 0
      BY DEF Init
    <3>2. late \in BOOLEAN
      BY DEF Init
    <3>3. 1 \in 1..9 /\ 0 \in Nat
      OBVIOUS
    <3> QED BY <3>1, <3>2, <3>3, Zenon DEF TaskTypes, Label
  <2>3. CountTypes
    BY Delays DEF Init, CountTypes
  <2>4. FlagTypes
    BY DEF Init, FlagTypes
  <2>5. PinTypes
    <3>1. /\ batt = FALSE /\ modem = FALSE /\ pulse = FALSE
          /\ obeys \in BOOLEAN /\ status \in BOOLEAN /\ answer = -1
      BY DEF Init
    <3>2. -1 \in -1..AnswerMax
      BY Delays
    <3> QED BY <3>1, <3>2 DEF PinTypes
  <2>6. HistoryTypes
    BY DEF Init, HistoryTypes
  <2> QED BY <2>1, <2>2, <2>3, <2>4, <2>5, <2>6 DEF Types
<1>2. Types /\ [Next]_vars => Types'
  BY ControlStep, ControlTypes, TaskStep, CountStep, FlagStep, PinStep,
     HistoryStep DEF Types
<1> QED BY <1>1, <1>2, PTL DEF Spec

(* Counters, flags, pins and the reset's index keep their types.           *)
THEOREM TypeCorrect == Spec => []TypeOK
<1>1. Types => TypeOK
  BY BlockSteps DEF Types, TypeOK, TaskTypes, Label, CountTypes, FlagTypes, PinTypes,
                  HistoryTypes
<1> QED BY <1>1, TypesInvariant, PTL

----------------------------------------------------------------------------
LEMMA LaterSteps ==
    ASSUME NEW i \in 3..9 PROVE Block[i] # "batt" /\ Block[i] # "modem"
<1>1. i = 3 \/ i = 4 \/ i = 5 \/ i = 6 \/ i = 7 \/ i = 8 \/ i = 9
  OBVIOUS
<1> QED BY <1>1 DEF Block

(* PB14 is high without PD19 only between the reset block's assignments of *)
(* the two, a tick that powers both coming before, between or after them.  *)
Supplied == modem /\ ~batt => pc = "reset" /\ step = 2

LEMMA SuppliedStep ==
    ASSUME Supplied, TaskTypes, [Next]_vars PROVE Supplied'
<1> USE DEF Supplied, pinVars
<1>1. CASE ResetStep
  <2>1. pc = "reset" /\ step \in 1..9
    BY <1>1 DEF ResetStep, At, TaskTypes
  <2>2. /\ batt' = (batt /\ Block[step] # "batt")
        /\ modem' = (modem /\ Block[step] # "modem")
    BY <1>1 DEF ResetStep
  <2>3. CASE step = 1
    <3>1. step' = 2 /\ pc' = "reset"
      BY <1>1, <2>1, <2>3 DEF ResetStep, Block
    <3> QED BY <3>1
  <2>4. CASE step = 2
    <3>1. ~modem'
      BY <2>2, <2>4 DEF Block
    <3> QED BY <3>1
  <2>5. CASE step \in 3..9
    <3>1. Block[step] # "batt" /\ Block[step] # "modem"
      BY <2>5, LaterSteps
    <3>2. (modem' => modem) /\ (batt' <=> batt)
      BY <2>2, <3>1
    <3> QED BY <2>5, <3>2
  <2> QED BY <2>1, <2>3, <2>4, <2>5
<1>2. CASE Tick
  BY <1>2 DEF Tick
<1>3. CASE UNCHANGED pinVars /\ ~ResetStep /\ ~Tick
  <2>1. CASE modem /\ ~batt
    <3>1. pc = "reset" /\ step = 2
      BY <2>1
    <3>2. UNCHANGED <<pc, step>>
      BY <1>3, <3>1 DEF Next, Task, Top, LoopEnd, Fix, ReceiverOn, Started,
           ReceiverOff, SendAT, SentAT, Follow, Stop, At, vars
    <3> QED BY <1>3, <3>1, <3>2
  <2>2. CASE ~(modem /\ ~batt)
    BY <1>3, <2>2
  <2> QED BY <2>1, <2>2
<1>4. UNCHANGED pinVars \/ ResetStep \/ Tick
  BY DEF Next, Task, Top, LoopEnd, Fix, ReceiverOn, Started, ReceiverOff,
         SendAT, SentAT, Follow, Stop, vars
<1> QED BY <1>1, <1>2, <1>3, <1>4

(* Outside the reset block the modem is never switched on without supply.  *)
THEOREM SupplySafe == Spec => []ModemSupplied
<1>1. Init => Supplied
  BY DEF Init, Supplied
<1>2. Types => TaskTypes
  BY DEF Types
<1>3. Supplied /\ TaskTypes /\ [Next]_vars => Supplied'
  BY SuppliedStep
<1>4. Supplied => ModemSupplied
  BY DEF Supplied, ModemSupplied
<1> QED BY <1>1, <1>2, <1>3, <1>4, TypesInvariant, PTL DEF Spec

----------------------------------------------------------------------------
(* From the reset block's seventh assignment on, which restarts the count, *)
(* the modem is powered or its count is short of ModemAt.                  *)
Restarted == ~(pc = "reset" /\ step <= 7)
Ahead == Restarted => (batt /\ modem) \/ GSM_tick_cnt < ModemAt

(* How the count of the modem goes on.                                     *)
LEMMA CountStays ==
    ASSUME [Next]_vars, ~Tick, ~ResetStep
    PROVE  UNCHANGED <<GSM_tick_cnt, batt, modem, step>>
BY DEF Next, Task, Top, LoopEnd, Fix, ReceiverOn, Started, ReceiverOff, SendAT,
       SentAT, Follow, Stop, vars, countVars, pinVars

LEMMA Restarts ==
    ASSUME TaskTypes, [Next]_vars, ~ResetStep, Restarted'
    PROVE  Restarted
<1>1. CASE Top
  <2>1. pc = "top"
    BY <1>1 DEF Top, At
  <2> QED BY <2>1 DEF Restarted
<1>2. CASE ~Top /\ pc = "reset"
  <2>1. UNCHANGED <<pc, step>>
    BY <1>2 DEF Next, Task, LoopEnd, Fix, ReceiverOn, Started, ReceiverOff,
                SendAT, SentAT, Tick, Follow, Stop, At, vars
  <2> QED BY <2>1 DEF Restarted
<1> QED BY <1>1, <1>2 DEF Restarted

(* What the reset block does to the modem's count and pins.                *)
LEMMA ResetEffects ==
    ASSUME TaskTypes, PinTypes, ResetStep, Restarted'
    PROVE  \/ GSM_tick_cnt' = 0
           \/ /\ Restarted
              /\ UNCHANGED <<GSM_tick_cnt, batt, modem, flag>>
              /\ initialised' = (initialised /\ modem)
<1>1. pc = "reset" /\ step \in 1..9
  BY DEF ResetStep, At, TaskTypes
<1>2. CASE step \in 1..6
  <2>1. Block[step] # "reset_flag"
    BY <1>2, BlockSteps
  <2>2. pc' = pc /\ step' = step + 1
    BY <2>1 DEF ResetStep
  <2> QED BY <1>1, <1>2, <2>2 DEF Restarted
<1>3. CASE step = 7
  BY <1>3 DEF ResetStep, Block
<1>4. CASE step \in 8..9
  <2>1. /\ Block[step] # "batt" /\ Block[step] # "modem"
        /\ Block[step] \notin Flag /\ Block[step] # "GSM_tick_cnt"
    <3>1. step = 8 \/ step = 9
      BY <1>4
    <3> QED BY <3>1 DEF Block, Flag
  <2>2. UNCHANGED <<GSM_tick_cnt, flag>>
    BY <2>1 DEF ResetStep
  <2>3. UNCHANGED <<batt, modem>>
    BY <2>1 DEF ResetStep, PinTypes
  <2>4. initialised' = (initialised /\ modem')
    BY DEF ResetStep
  <2>5. Restarted
    BY <1>4 DEF Restarted
  <2> QED BY <2>2, <2>3, <2>4, <2>5
<1> QED BY <1>1, <1>2, <1>3, <1>4

LEMMA AheadStep ==
    ASSUME Ahead, TaskTypes, CountTypes, PinTypes, [Next]_vars PROVE Ahead'
<1> SUFFICES ASSUME Restarted' PROVE ((batt /\ modem) \/ GSM_tick_cnt < ModemAt)'
  BY DEF Ahead
<1>1. CASE ResetStep
  BY <1>1, ResetEffects, Delays DEF Ahead
<1>2. CASE Tick
  <2>1. /\ GSM_tick_cnt' = Counted(GSM_tick_cnt)
        /\ batt' = (batt \/ Counted(GSM_tick_cnt) = ModemAt)
        /\ modem' = (modem \/ Counted(GSM_tick_cnt) = ModemAt)
    BY <1>2 DEF Tick
  <2>2. (batt /\ modem) \/ GSM_tick_cnt < ModemAt
    <3>1. Restarted
      BY <1>2 DEF Tick, Restarted
    <3> QED BY <3>1 DEF Ahead
  <2>3. CASE batt /\ modem
    BY <2>1, <2>3
  <2>4. CASE GSM_tick_cnt < ModemAt
    <3>1. Counted(GSM_tick_cnt) = GSM_tick_cnt + 1
      BY <2>4, CountedInRange, Delays DEF CountTypes
    <3>2. CASE Counted(GSM_tick_cnt) = ModemAt
      BY <2>1, <3>2, Zenon
    <3>3. CASE Counted(GSM_tick_cnt) # ModemAt
      BY <2>1, <2>4, <3>1, <3>3, Delays DEF CountTypes
    <3> QED BY <3>2, <3>3
  <2> QED BY <2>2, <2>3, <2>4
<1>3. CASE ~Tick /\ ~ResetStep
  <2>1. Restarted
    BY <1>3, Restarts
  <2>2. UNCHANGED <<GSM_tick_cnt, batt, modem, step>>
    BY <1>3, CountStays
  <2>3. (batt /\ modem) \/ GSM_tick_cnt < ModemAt
    BY <2>1 DEF Ahead
  <2> QED BY <2>2, <2>3
<1> QED BY <1>1, <1>2, <1>3

LEMMA Invariant1 == Spec => [](Types /\ Ahead)
<1>1. Init => Ahead
  BY Delays DEF Init, Ahead
<1>2. Types => TaskTypes /\ CountTypes /\ PinTypes
  BY DEF Types
<1>3. Ahead /\ TaskTypes /\ CountTypes /\ PinTypes /\ [Next]_vars => Ahead'
  BY AheadStep
<1> QED BY <1>1, <1>2, <1>3, TypesInvariant, PTL DEF Spec

(* Outside the reset block a modem without one of its pins has less than   *)
(* ModemAt behind it, wherever ticks have fallen: it is powered, and not   *)
(* only after the counter has come round.                                  *)
THEOREM PoweredAgain == Spec => []ModemPowered
<1>1. Ahead => ModemPowered
  BY DEF Ahead, Restarted, ModemPowered
<1> QED BY <1>1, Invariant1, PTL

----------------------------------------------------------------------------
(* The AT commands.  Sent to a modem without power they end before the     *)
(* count reaches InitAt: a tick more than the delay may come before the    *)
(* loop goes on, and ModemAt + ATDelay < InitAt.                           *)
Slack == IF sleep = 0 /\ late THEN 0 ELSE 1
Wasted == pc = "sending" =>
              initialised \/ GSM_tick_cnt + sleep + Slack <= ModemAt + ATDelay
Requested == Restarted => \/ initialised \/ GSM_tick_cnt < InitAt
                          \/ modem /\ flag["GSM_init_flag"] = 1

LEMMA WastedStep ==
    ASSUME Wasted, Ahead, TaskTypes, CountTypes, PinTypes, HistoryTypes, [Next]_vars
    PROVE  Wasted'
<1> SUFFICES ASSUME pc' = "sending", ~initialised'
             PROVE  (GSM_tick_cnt + sleep + Slack <= ModemAt + ATDelay)'
  BY DEF Wasted
<1> USE Delays DEF TaskTypes, CountTypes
<1>1. CASE Tick
  <2>1. /\ GSM_tick_cnt' = Counted(GSM_tick_cnt) /\ (sleep > 0 \/ ~late)
        /\ late' = (sleep = 0) /\ sleep' = (IF sleep > 0 THEN sleep - 1 ELSE 0)
        /\ pc = "sending" /\ ~initialised
    BY <1>1 DEF Tick
  <2>2. GSM_tick_cnt + sleep + Slack <= ModemAt + ATDelay
    BY <2>1 DEF Wasted
  <2>3. GSM_tick_cnt' <= GSM_tick_cnt + 1
    BY <2>1, CountedInRange
  <2>4. CASE sleep > 0
    BY <2>1, <2>2, <2>3, <2>4, CountedInRange DEF Slack
  <2>5. CASE sleep = 0
    <3>1. late' = (sleep = 0) /\ ~late /\ sleep' = 0
      BY <2>1, <2>5
    <3>2. Slack = 1 /\ Slack' = 0
      <4>1. late'
        BY <3>1, <2>5, Zenon
      <4> QED BY <3>1, <4>1, <2>5 DEF Slack
    <3> QED BY <2>1, <2>2, <2>3, <2>5, <3>1, <3>2, CountedInRange
  <2> QED BY <2>4, <2>5
<1>2. CASE SendAT
  <2>1. pc = "at" /\ UNCHANGED <<GSM_tick_cnt, late>>
    BY <1>2 DEF SendAT, At, countVars
  <2>2. sleep' = ATDelay /\ ~modem
    BY <1>2, <2>1 DEF SendAT
  <2>3. GSM_tick_cnt < ModemAt
    BY <2>1, <2>2 DEF Ahead, Restarted
  <2> QED BY <2>1, <2>2, <2>3 DEF Slack
<1>3. CASE ~Tick /\ ~SendAT
  <2>1. UNCHANGED <<pc, sleep, late, GSM_tick_cnt, initialised>>
    BY <1>3 DEF Next, Task, Top, ResetStep, LoopEnd, Fix, ReceiverOn, Started,
                ReceiverOff, SentAT, Follow, Stop, vars, countVars, At
  <2>2. (GSM_tick_cnt + sleep + Slack <= ModemAt + ATDelay)
    BY <2>1 DEF Wasted
  <2>3. Slack' = Slack
    BY <2>1 DEF Slack
  <2> QED BY <2>1, <2>2, <2>3
<1> QED BY <1>1, <1>2, <1>3

LEMMA RequestedStep ==
    ASSUME Requested, Wasted, Ahead, Types, [Next]_vars
    PROVE  Requested'
<1> SUFFICES ASSUME Restarted', ~initialised', ~(GSM_tick_cnt < InitAt)'
             PROVE  (modem /\ flag["GSM_init_flag"] = 1)'
  BY DEF Requested
<1> USE Delays DEF Types, CountTypes
<1>1. CASE ResetStep
  <2>1. /\ Restarted /\ UNCHANGED <<GSM_tick_cnt, batt, modem, flag>>
        /\ initialised' = (initialised /\ modem)
    BY <1>1, ResetEffects
  <2>2. modem
    BY <2>1 DEF Ahead
  <2>3. ~initialised
    BY <2>1, <2>2
  <2> QED BY <2>1, <2>2, <2>3 DEF Requested
<1>2. CASE Tick
  <2>1. GSM_tick_cnt' = Counted(GSM_tick_cnt) /\ initialised' = initialised
    BY <1>2 DEF Tick
  <2>2. Restarted
    BY <1>2 DEF Tick, Restarted
  <2>3. Counted(GSM_tick_cnt) = GSM_tick_cnt + 1
    BY <2>1, CountedInRange
  <2>4. modem
    BY <2>1, <2>2, <2>3 DEF Ahead
  <2>5. modem'
    BY <1>2, <2>4, Zenon DEF Tick
  <2>6. CASE Counted(GSM_tick_cnt) = InitAt
    BY <1>2, <2>5, <2>6 DEF Tick, FlagTypes, Flag
  <2>7. CASE Counted(GSM_tick_cnt) # InitAt
    <3>1. ~(GSM_tick_cnt < InitAt)
      BY <2>1, <2>3, <2>7
    <3>2. flag["GSM_init_flag"] = 1
      BY <2>1, <2>2, <3>1 DEF Requested
    <3>3. flag' = flag
      BY <1>2, <2>7 DEF Tick
    <3> QED BY <2>5, <3>2, <3>3
  <2> QED BY <2>6, <2>7
<1>3. CASE ~Tick /\ ~ResetStep
  <2>1. Restarted /\ UNCHANGED <<GSM_tick_cnt, modem>>
    BY <1>3, CountStays, Restarts
  <2>2. ~initialised
    BY <1>3 DEF Next, Task, Top, LoopEnd, Fix, ReceiverOn, Started, ReceiverOff,
                SendAT, SentAT, Follow, Stop, vars, HistoryTypes
  <2>3. modem /\ flag["GSM_init_flag"] = 1
    BY <2>1, <2>2 DEF Requested
  <2>4. CASE SentAT
    <3>1. pc = "sending" /\ sleep = 0
      BY <2>4 DEF SentAT, At
    <3>2. GSM_tick_cnt + sleep + Slack <= ModemAt + ATDelay
      BY <2>2, <3>1 DEF Wasted
    <3>3. GSM_tick_cnt < InitAt
      BY <3>1, <3>2 DEF Slack
    <3> QED BY <2>1, <3>3
  <2>5. CASE ~SentAT
    <3>1. flag'["GSM_init_flag"] = flag["GSM_init_flag"]
      BY <1>3, <2>5 DEF Next, Task, Top, LoopEnd, Fix, ReceiverOn, Started,
         ReceiverOff, SendAT, Follow, Stop, vars, Set, FlagTypes, Flag
    <3> QED BY <2>1, <2>3, <3>1
  <2> QED BY <2>4, <2>5
<1> QED BY <1>1, <1>2, <1>3

(* Outside the reset block a modem that is on and has had no AT commands   *)
(* has a request for them pending, or InitAt ticks have not yet gone: no   *)
(* step of any mode and no tick, in the reset block or at the end of the   *)
(* commands, loses the request.                                            *)
THEOREM RequestSafe == Spec => []RequestAhead
<1>1. Init => Requested /\ Wasted
  BY Delays DEF Init, Requested, Wasted
<1>2. Types => TaskTypes /\ CountTypes /\ PinTypes /\ HistoryTypes
  BY DEF Types
<1>3. Types /\ Ahead /\ Wasted /\ Requested /\ [Next]_vars
          => Wasted' /\ Requested'
  BY <1>2, WastedStep, RequestedStep
<1>4. Requested => RequestAhead
  BY DEF Requested, Restarted, RequestAhead
<1> QED BY <1>1, <1>3, <1>4, Invariant1, PTL DEF Spec
=============================================================================
