------------------------------- MODULE Power -------------------------------
(***************************************************************************)
(* Switching the modem and the GPS receiver on, and again after a reset.   *)
(* The tick hook counts milliseconds: it pulses the receiver's on/off pin, *)
(* powers the modem and asks for its initialisation at fixed counts.  The  *)
(* task of the mode that runs watches the receiver's status pin, and in    *)
(* init also finds the fix, sends the modem its first AT commands and      *)
(* carries out the reset.  Which mode runs, and when a reset is asked for, *)
(* is ModeControl, which Modes implements.                                 *)
(***************************************************************************)
EXTENDS Integers

CONSTANTS
    PulseAt,        \* 1000: GPS_tick_cnt that raises the on/off pin
    RetryAt,        \* 2001: GPS_tick_cnt that starts the count again
    ModemAt,        \* 1005: GSM_tick_cnt that powers the modem
    InitAt,         \* 10000: GSM_tick_cnt that asks for the AT commands
    OnDelay,        \* 1000: vTaskDelay before the receiver counts as started
    ATDelay,        \* 2000: the two vTaskDelay's of the AT commands
    Period,         \* 2^32: the values of the counters
    Busy,           \* the longest the rest of a loop takes (printing, an SMS)
    AnswerMax       \* the receiver follows a pulse within this many ticks

ASSUME CountAssumption ==
    /\ {PulseAt, RetryAt, ModemAt, InitAt, OnDelay, ATDelay} \subseteq Nat \ {0}
    /\ Busy \in Nat /\ AnswerMax \in Nat
    /\ PulseAt + 1 < RetryAt /\ ModemAt + ATDelay < InitAt
    /\ Period \in Nat /\ RetryAt < Period /\ InitAt < Period

VARIABLES
    mode, resetting,    \* of ModeControl
    pc,                 \* where the running mode's loop stands
    step,               \* the next assignment of the reset block
    sleep,              \* ticks until the task goes on
    late,               \* a tick came since the loop was last at its top
    GSM_tick_cnt, GPS_tick_cnt,
    flag,               \* GSM_init_flag, init_flag, GPS_start_flag, GPS_fix_flag
    batt, modem,        \* pins PD19 and PB14
    pulse,              \* pin PD26
    obeys,              \* the receiver follows each pulse, and nothing else
    status,             \* pin PD24: the receiver is on
    answer,             \* ticks until the receiver follows a pulse, or -1
    initialised         \* history: the modem has had AT commands since it is on

modeVars == <<mode, resetting>>
countVars == <<GSM_tick_cnt, GPS_tick_cnt>>
pinVars == <<batt, modem, pulse>>
gpsVars == <<obeys, status, answer>>
vars == <<modeVars, pc, step, sleep, late, countVars, flag, pinVars, gpsVars, initialised>>

Control == INSTANCE ModeControl

Flag == {"GSM_init_flag", "init_flag", "GPS_start_flag", "GPS_fix_flag"}

(* The reset block's steps that matter here, in its order. *)
BlockModemFirst ==
    <<"modem", "batt", "init_flag", "GSM_init_flag", "GPS_start_flag",
      "GPS_fix_flag", "GSM_tick_cnt", "GPS_tick_cnt", "reset_flag">>
Block == <<"batt", "modem", "init_flag", "GSM_init_flag", "GPS_start_flag",
           "GPS_fix_flag", "GSM_tick_cnt", "GPS_tick_cnt", "reset_flag">>

Init ==
    /\ Control!Init
    /\ pc = "top" /\ step = 1 /\ sleep = 0 /\ late = FALSE
    /\ GSM_tick_cnt = 0 /\ GPS_tick_cnt = 0
    /\ flag = [f \in Flag |-> 0]
    /\ batt = FALSE /\ modem = FALSE /\ pulse = FALSE
    /\ obeys \in BOOLEAN /\ status \in BOOLEAN /\ answer = -1
    /\ initialised = FALSE

Set(f, v) == flag' = [flag EXCEPT ![f] = v]

----------------------------------------------------------------------------
(* The loop of the mode that runs.                                         *)
At(l) == pc = l /\ sleep = 0

(* The menu is shown once the receiver is on, has its fix and the modem is *)
(* initialised; then the reset, if one is asked for.                       *)
Top ==
    /\ At("top")
    /\ late' = FALSE
    /\ flag' = IF /\ mode = "init" /\ flag["GSM_init_flag"] = 0
                  /\ \A f \in Flag \ {"GSM_init_flag"} : flag[f] = 1
               THEN [flag EXCEPT !["init_flag"] = 0] ELSE flag
    /\ pc' = IF mode = "init" /\ resetting THEN "reset"
             ELSE IF mode = "init" THEN "command" ELSE "on"
    /\ UNCHANGED <<modeVars, step, sleep, countVars, pinVars, gpsVars, initialised>>

(* One assignment of the reset block.                                      *)
ResetKeepsCounts ==
    /\ At("reset")
    /\ LET b == Block[step] IN
        /\ batt' = (batt /\ b # "batt")
        /\ modem' = (modem /\ b # "modem")
        /\ flag' = IF b \in Flag THEN [flag EXCEPT ![b] = 0] ELSE flag
        /\ UNCHANGED countVars
        /\ IF b = "reset_flag"
           THEN Control!Reset /\ step' = 1 /\ pc' = "command"
           ELSE UNCHANGED <<modeVars, pc>> /\ step' = step + 1
    /\ initialised' = (initialised /\ modem')
    /\ UNCHANGED <<sleep, late, pulse, gpsVars>>
ResetStep ==
    /\ At("reset")
    /\ LET b == Block[step] IN
        /\ batt' = (batt /\ b # "batt")
        /\ modem' = (modem /\ b # "modem")
        /\ flag' = IF b \in Flag THEN [flag EXCEPT ![b] = 0] ELSE flag
        /\ GSM_tick_cnt' = IF b = "GSM_tick_cnt" THEN 0 ELSE GSM_tick_cnt
        /\ GPS_tick_cnt' = IF b = "GPS_tick_cnt" THEN 0 ELSE GPS_tick_cnt
        /\ IF b = "reset_flag"
           THEN Control!Reset /\ step' = 1 /\ pc' = "command"
           ELSE UNCHANGED <<modeVars, pc>> /\ step' = step + 1
    /\ initialised' = (initialised /\ modem')
    /\ UNCHANGED <<sleep, late, pulse, gpsVars>>

(* A command may leave init before the rest of its loop, and any mode      *)
(* after it; what the loop does elsewhere takes up to Busy ticks.          *)
Leave == (\E m \in Control!Mode : Control!Switch(m)) \/ Control!AskReset
LoopEnd ==
    /\ \/ At("command") \/ At("end")
    /\ \/ Leave
       \/ pc = "end" /\ UNCHANGED modeVars
    /\ sleep' \in 0..Busy
    /\ pc' = "top"
    /\ UNCHANGED <<step, late, countVars, flag, pinVars, gpsVars, initialised>>

(* Init notes the fix (pin PD23) of a started receiver, once.               *)
Fix ==
    /\ At("command")
    /\ \/ flag["GPS_start_flag"] = 1 /\ Set("GPS_fix_flag", 1)
       \/ UNCHANGED flag
    /\ pc' = "on"
    /\ UNCHANGED <<modeVars, step, sleep, late, countVars, pinVars, gpsVars, initialised>>

(* The status pin is high and the receiver does not count as started: wait *)
(* a second (and print), then it does.                                     *)
ReceiverOn ==
    /\ At("on")
    /\ IF status /\ flag["GPS_start_flag"] = 0
       THEN pc' = "starting" /\ sleep' \in OnDelay..OnDelay + 1
       ELSE pc' = "off" /\ UNCHANGED sleep
    /\ UNCHANGED <<modeVars, step, late, countVars, flag, pinVars, gpsVars, initialised>>

Started ==
    /\ At("starting")
    /\ Set("GPS_start_flag", 1)
    /\ pc' = "off"
    /\ UNCHANGED <<modeVars, step, sleep, late, countVars, pinVars, gpsVars, initialised>>

ReceiverOff ==
    /\ At("off")
    /\ flag' = IF ~status /\ flag["GPS_start_flag"] = 1
               THEN [flag EXCEPT !["GPS_start_flag"] = 0] ELSE flag
    /\ pc' = IF mode = "init" THEN "at" ELSE "end"
    /\ UNCHANGED <<modeVars, step, sleep, late, countVars, pinVars, gpsVars, initialised>>

(* Init sends the modem its AT commands when the tick hook asked for it.   *)
SendATOnce ==
    /\ At("at")
    /\ IF flag["GSM_init_flag"] = 1 /\ flag["init_flag"] = 0
       THEN pc' = "sending" /\ sleep' = ATDelay /\ initialised' = (initialised \/ modem)
       ELSE pc' = "end" /\ UNCHANGED <<sleep, initialised>>
    /\ UNCHANGED <<modeVars, step, late, countVars, flag, pinVars, gpsVars>>
SendAT ==
    /\ At("at")
    /\ IF flag["GSM_init_flag"] = 1
       THEN pc' = "sending" /\ sleep' = ATDelay /\ initialised' = (initialised \/ modem)
       ELSE pc' = "end" /\ UNCHANGED <<sleep, initialised>>
    /\ UNCHANGED <<modeVars, step, late, countVars, flag, pinVars, gpsVars>>

SentAT ==
    /\ At("sending")
    /\ flag' = [flag EXCEPT !["GSM_init_flag"] = 0, !["init_flag"] = 1]
    /\ pc' = "end"
    /\ UNCHANGED <<modeVars, step, sleep, late, countVars, pinVars, gpsVars, initialised>>

Task == \/ Top \/ ResetStep \/ LoopEnd \/ Fix \/ ReceiverOn \/ Started
        \/ ReceiverOff \/ SendAT \/ SentAT

----------------------------------------------------------------------------
(* vApplicationTickHook, as far as it counts to these.  A loop takes less  *)
(* than a tick apart from its delays: one tick at most comes between two   *)
(* visits to its top, unless the task sleeps.                              *)
Counted(c) == (c + 1) % Period

GPSCount(gps) ==
    IF gps = RetryAt /\ flag["GPS_start_flag"] = 0 THEN 0 ELSE gps

PulseUnasked(gps) ==
    IF gps \in {PulseAt, PulseAt + 1} THEN gps = PulseAt ELSE pulse
Pulse(gps) ==
    IF flag["GPS_start_flag"] = 0 /\ gps \in {PulseAt, PulseAt + 1}
    THEN gps = PulseAt ELSE pulse

Tick ==
    LET gsm == Counted(GSM_tick_cnt)
        gps == Counted(GPS_tick_cnt)
    IN  /\ sleep > 0 \/ ~late
        /\ answer # 0
        /\ late' = (sleep = 0)
        /\ sleep' = IF sleep > 0 THEN sleep - 1 ELSE 0
        /\ pulse' = Pulse(gps)
        /\ batt' = (batt \/ gsm = ModemAt)
        /\ modem' = (modem \/ gsm = ModemAt)
        /\ flag' = IF gsm = InitAt THEN [flag EXCEPT !["GSM_init_flag"] = 1]
                   ELSE flag
        /\ GSM_tick_cnt' = gsm
        /\ GPS_tick_cnt' = GPSCount(gps)
        /\ answer' \in IF ~pulse /\ pulse' /\ answer = -1
                       THEN 0..AnswerMax \cup (IF obeys THEN {} ELSE {-1})
                       ELSE {IF answer > 0 THEN answer - 1 ELSE answer}
        /\ UNCHANGED <<modeVars, pc, step, obeys, status, initialised>>

(* The receiver: a pulse switches it over; it may also stop by itself.     *)
Follow ==
    /\ answer = 0
    /\ status' = ~status
    /\ answer' = -1
    /\ UNCHANGED <<modeVars, pc, step, sleep, late, countVars, flag, pinVars, obeys,
                   initialised>>
Stop ==
    /\ ~obeys /\ status
    /\ status' = FALSE
    /\ UNCHANGED <<modeVars, pc, step, sleep, late, countVars, flag, pinVars, obeys,
                   answer, initialised>>

Next == Task \/ Tick \/ Follow \/ Stop

Spec == Init /\ [][Next]_vars

(* The SysTick timer does not stop, the running task gets the processor    *)
(* between two ticks, and the receiver follows its deadline.               *)
FairSpec == Spec /\ WF_vars(Task) /\ WF_vars(Tick) /\ WF_vars(Follow)

----------------------------------------------------------------------------
TypeOK ==
    /\ Control!TypeOK
    /\ pc \in {"top", "command", "on", "starting", "off", "at", "sending", "end",
              "reset"}
    /\ step \in DOMAIN Block
    /\ sleep \in Nat /\ late \in BOOLEAN
    /\ GSM_tick_cnt \in 0..Period - 1 /\ GPS_tick_cnt \in 0..Period - 1
    /\ flag \in [Flag -> {0, 1}]
    /\ {batt, modem, pulse, obeys, status} \subseteq BOOLEAN
    /\ answer \in -1..AnswerMax
    /\ initialised \in BOOLEAN

(* The modem is not left switched on without its supply: the tick that     *)
(* powers both may fall between the reset block's switching them off, one  *)
(* after the other.                                                        *)
ModemSupplied == pc # "reset" => (modem => batt)

(* Whatever a tick does in the middle of a reset block, a modem that the   *)
(* block has left without one of its pins is powered within the next       *)
(* ModemAt ticks: the count to the powering lies ahead of it, not behind,  *)
(* when it would take 49 days to come round.                               *)
ModemPowered == pc # "reset" => (batt /\ modem) \/ GSM_tick_cnt < ModemAt

(* A modem that has had no AT commands since it is on has a request for    *)
(* them pending, in whatever mode it was made, or the count to the next one*)
(* lies ahead: a tick in the middle of a reset block may ask too early, and*)
(* the commands go to a modem without power, but then the block restarts   *)
(* the count.  And a user who goes back to init and stays there gets the   *)
(* modem initialised.                                                      *)
RequestAhead ==
    pc = "reset" \/ initialised \/ GSM_tick_cnt < InitAt
                 \/ (modem /\ flag["GSM_init_flag"] = 1)
StaysInInit == <>[](mode = "init" /\ ~resetting)
ModemInitialised == []RequestAhead /\ (StaysInInit => <>[]initialised)

(* Switched on with the receiver off and left in init, the tracker gets a  *)
(* receiver that follows its pulses on and keeps it on: the second pulse   *)
(* of the retry, which would switch it off, never comes before the receiver*)
(* counts as started, although its second's wait ends after the retry.     *)
ColdBoot == obeys /\ ~status /\ [](mode = "init" /\ ~resetting)
ReceiverComesUp == ColdBoot => <>[](status /\ flag["GPS_start_flag"] = 1)

----------------------------------------------------------------------------
(* What the comments say and the code does not do.                         *)

(* "After 10 seconds. Initialise the MODEM": the AT commands go to a modem *)
(* that was powered before.                                                *)
ATOnPoweredModem == pc = "sending" => modem
=============================================================================
