------------------------------- MODULE Modes -------------------------------
(***************************************************************************)
(* The mode machine of the tracker: test_task of main.c, which runs as     *)
(* four FreeRTOS tasks (init, GPS, GSM, I/O) that hand one queue item to   *)
(* each other, and the two interrupts that share flags with them: UART0    *)
(* (the user's keyboard) and the FreeRTOS tick hook.                       *)
(*                                                                         *)
(* A task step is a stretch of code between two reads or writes of state   *)
(* that an interrupt also touches, so every interleaving of a task with    *)
(* the interrupts is a behaviour.  A send is one step with the assignments *)
(* before it: no interrupt looks at the queues, so the two commute.        *)
(* The received bytes are kept to the last two and the write pointer to    *)
(* what the code's reading behind it tells apart; the ring they live in and*)
(* the pins, power, delays and the GPS ring have their own modules.        *)
(***************************************************************************)
EXTENDS Integers, Sequences

CONSTANTS
    QueueSize,      \* TASK_QUEUE_SIZE, the length of each task's queue
    Typed,          \* the bytes the user may type
    Foreign         \* what the code may read in memory before the ring

ASSUME QueueAssumption == QueueSize \in Nat \ {0}
ASSUME TypedAssumption == Typed \subseteq 0..255
ASSUME ForeignAssumption == Foreign \subseteq 0..255 /\ Foreign # {}

VARIABLES
    mail,   \* per mode: the number of items in its queue
    pc,     \* per mode: where its task stands
    idx,    \* per mode: the next entry of the list of flags it is going through
    flag,   \* the int flags of main.c that tasks and interrupts share
    chs,    \* per mode: its command byte (init_chs, GPS_chs, GSM_chs, IO_chs)
    rx,     \* the last two bytes typed into the RS232 ring, 0 for none
    place   \* wptr_RS232: 0, 1, or 2 for every place from 2 to 999

lineVars == <<rx, place>>
vars == <<mail, pc, idx, flag, chs, lineVars>>

Mode == {"init", "GPS", "GSM", "IO"}
Service == Mode \ {"init"}

Flag == {"reset_flag", "sms_flag", "cnt2_flag", "send_cstm_sms_flag",
         "GPS_wflag", "GSM_wflag", "GSM_atcmd_flag", "GSM_seq_flag",
         "GSM_cstmsms_flag", "GSM_phnnmb_flag", "GSM_reset_flag"}

Label == {"recv", "enter", "poll", "cmd", "copy", "clear", "act", "wipe",
          "top", "reset", "scan", "report", "transmit", "sent", "custom",
          "sendcustom", "customsent"}

CR == 13            \* Enter
Dash == 45          \* '-', the end of a text that is being written
Digit(n) == 48 + n  \* the key n

(* The flags each service mode polls at the top of its loop, in order.     *)
PollsGSMDeaf == [GPS |-> <<"cnt2_flag", "sms_flag">>,
                 GSM |-> <<"sms_flag", "GSM_reset_flag">>,
                 IO  |-> <<"sms_flag", "cnt2_flag">>]
Polls == [GPS |-> <<"cnt2_flag", "sms_flag">>,
          GSM |-> <<"sms_flag", "cnt2_flag", "GSM_reset_flag">>,
          IO  |-> <<"sms_flag", "cnt2_flag">>]

(* The reset block's assignments to these flags, in order.  The two that   *)
(* give the modem and the terminal back to each other set their flag.      *)
ResetOrderLetsGo == <<"reset_flag", "GPS_wflag", "cnt2_flag", "sms_flag", "GSM_wflag",
                      "GSM_atcmd_flag", "GSM_phnnmb_flag", "GSM_reset_flag",
                      "send_cstm_sms_flag", "GSM_seq_flag">>
ResetOrder == <<"GPS_wflag", "cnt2_flag", "sms_flag", "GSM_wflag",
                "GSM_atcmd_flag", "GSM_phnnmb_flag", "GSM_reset_flag",
                "send_cstm_sms_flag", "GSM_seq_flag">>
ResetValue(f) == IF f \in {"GSM_wflag", "GSM_atcmd_flag"} THEN 1 ELSE 0

----------------------------------------------------------------------------
(* main() creates the queues and the tasks and puts the one item there is  *)
(* into init's queue; the flags have their static initial values.          *)
Init ==
    /\ mail = [m \in Mode |-> IF m = "init" THEN 1 ELSE 0]
    /\ pc = [m \in Mode |-> "recv"]
    /\ idx = [m \in Mode |-> 1]
    /\ flag = [f \in Flag |-> ResetValue(f)]
    /\ chs = [m \in Mode |-> 0]
    /\ rx = <<0, 0>> /\ place = 0

Goto(m, l) == pc' = [pc EXCEPT ![m] = l]
Again(m) == Goto(m, IF m = "init" THEN "top" ELSE "poll")
            /\ idx' = [idx EXCEPT ![m] = 1]
Set(f, v) == flag' = [flag EXCEPT ![f] = v]
SetBoth(f, g, v) == flag' = [flag EXCEPT ![f] = v, ![g] = v]
Forget(m) == chs' = [chs EXCEPT ![m] = 0]

(* xQueueSendToBack to d and the break that takes m back to its receive.   *)
(* With a full queue the send blocks.                                      *)
HandOverRunsOn(m, d) ==
    /\ mail[d] < QueueSize
    /\ mail' = [mail EXCEPT ![d] = @ + 1]
    /\ Again(m)
HandOver(m, d) ==
    /\ mail[d] < QueueSize
    /\ mail' = [mail EXCEPT ![d] = @ + 1]
    /\ Goto(m, "recv")
    /\ idx' = [idx EXCEPT ![m] = 1]

Receive(m) ==
    /\ pc[m] = "recv"
    /\ mail[m] > 0
    /\ mail' = [mail EXCEPT ![m] = @ - 1]
    /\ Goto(m, IF m = "init" THEN "top" ELSE "enter")
    /\ UNCHANGED <<idx, flag, chs, lineVars>>

----------------------------------------------------------------------------
(* The command line, the same code in all four modes: if the last byte is  *)
(* Enter, take the byte before it and empty the buffer.  UART0 may run     *)
(* between the test, the copy and the clearing.  The code reads the places *)
(* before its pointer without going back over the ring's beginning: with   *)
(* the pointer at 0, and the second of them at 1, it reads what lies before*)
(* the ring.                                                               *)
LastByte == IF place = 0 THEN Foreign ELSE {rx[2]}
ByteBefore == IF place < 2 THEN Foreign ELSE {rx[1]}

TestEnterIdle(m) ==
    /\ pc[m] = "cmd"
    /\ \E b \in LastByte : Goto(m, IF b = CR /\ chs[m] = 0 THEN "copy" ELSE "act")
    /\ UNCHANGED <<mail, idx, flag, chs, lineVars>>
TestEnter(m) ==
    /\ pc[m] = "cmd"
    /\ \E b \in LastByte : Goto(m, IF b = CR THEN "copy" ELSE "act")
    /\ UNCHANGED <<mail, idx, flag, chs, lineVars>>

CopyKey(m) ==
    /\ pc[m] = "copy"
    /\ \E b \in ByteBefore : chs' = [chs EXCEPT ![m] = b]
    /\ Goto(m, "clear")
    /\ UNCHANGED <<mail, idx, flag, lineVars>>

ClearBuffer(m) ==
    /\ pc[m] = "clear"
    /\ rx' = <<0, 0>> /\ place' = 0
    /\ Goto(m, "act")
    /\ UNCHANGED <<mail, idx, flag, chs>>

----------------------------------------------------------------------------
(* The service modes.  Entering prints the menu and clears.                *)
EnterClearsTimer(m) ==
    /\ pc[m] = "enter"
    /\ Forget(m)
    /\ \/ m = "GPS" /\ Set("GPS_wflag", 0)
       \/ m = "GSM" /\ SetBoth("sms_flag", "cnt2_flag", 0)
       \/ m = "IO" /\ UNCHANGED flag
    /\ Goto(m, "poll")
    /\ UNCHANGED <<mail, idx, lineVars>>
Enter(m) ==
    /\ pc[m] = "enter"
    /\ Forget(m)
    /\ \/ m = "GPS" /\ Set("GPS_wflag", 0)
       \/ m = "GSM" /\ Set("sms_flag", 0)
       \/ m = "IO" /\ UNCHANGED flag
    /\ Goto(m, "poll")
    /\ UNCHANGED <<mail, idx, lineVars>>

(* A polled flag is up: hand over to init (GSM_reset_flag: print the menu  *)
(* again by going through the mode's own queue).                           *)
PollHit(m) ==
    /\ pc[m] = "poll"
    /\ LET f == Polls[m][idx[m]] IN
        /\ flag[f] = 1
        /\ flag' = [g \in Flag |-> IF \/ g = "GPS_wflag" /\ m = "GPS"
                                      \/ g = "GSM_reset_flag" /\ g = f
                                   THEN 0 ELSE flag[g]]
        /\ HandOver(m, IF f = "GSM_reset_flag" THEN m ELSE "init")
    /\ UNCHANGED <<chs, lineVars>>

PollMiss(m) ==
    /\ pc[m] = "poll"
    /\ flag[Polls[m][idx[m]]] = 0
    /\ IF idx[m] < Len(Polls[m])
       THEN idx' = [idx EXCEPT ![m] = @ + 1] /\ UNCHANGED pc
       ELSE idx' = [idx EXCEPT ![m] = 1] /\ Goto(m, "cmd")
    /\ UNCHANGED <<mail, flag, chs, lineVars>>

(* A key that changes mode and nothing else.                               *)
GPSLeaveKeepsPrinting(key, d) ==
    /\ chs["GPS"] = key
    /\ Forget("GPS")
    /\ HandOver("GPS", d)
    /\ UNCHANGED flag
GPSLeave(key, d) ==
    /\ chs["GPS"] = key
    /\ Forget("GPS")
    /\ Set("GPS_wflag", 0)
    /\ HandOver("GPS", d)
KeyLeave(m, key, d) ==
    /\ chs[m] = key
    /\ Forget(m)
    /\ HandOver(m, d)
    /\ UNCHANGED flag

(* Key 0: ask for a reset and go to init, where it is done.                *)
KeyResetToGSM(m) ==
    /\ chs[m] = Digit(0)
    /\ Forget(m)
    /\ Set("reset_flag", 1)
    /\ HandOver(m, "GSM")
KeyReset(m) ==
    /\ chs[m] = Digit(0)
    /\ Forget(m)
    /\ Set("reset_flag", 1)
    /\ HandOver(m, "init")

(* A byte that is no command of the mode stays in chs and is tried again.  *)
NoKey(m, keys) ==
    /\ chs[m] \notin keys
    /\ Again(m)
    /\ UNCHANGED <<mail, flag, chs>>

GPSPrintOn ==
    /\ chs["GPS"] = Digit(1) /\ flag["GPS_wflag"] = 0
    /\ Set("GPS_wflag", 1)
    /\ Forget("GPS") /\ Again("GPS") /\ UNCHANGED mail
GPSPrintOff ==
    /\ chs["GPS"] = Digit(1) /\ flag["GPS_wflag"] = 1
    /\ Set("GPS_wflag", 0)
    /\ Forget("GPS") /\ HandOver("GPS", "GPS")

GPSAct ==
    /\ pc["GPS"] = "act"
    /\ \/ GPSPrintOn
       \/ GPSPrintOff
       \/ GPSLeave(Digit(2), "GSM")
       \/ GPSLeave(Digit(3), "IO")
       \/ KeyReset("GPS")
       \/ NoKey("GPS", {Digit(n) : n \in 0..3})
    /\ UNCHANGED lineVars

(* Key 3: give the modem and the terminal to each other, or take them back.*)
DirectConnectionHalf ==
    /\ chs["GSM"] = Digit(3)
    /\ IF flag["GSM_atcmd_flag"] = flag["GSM_wflag"]
       THEN /\ Set("GSM_atcmd_flag", 1 - flag["GSM_wflag"])
            /\ Forget("GSM")
       ELSE UNCHANGED <<flag, chs>>
    /\ Again("GSM") /\ UNCHANGED mail
DirectConnection ==
    /\ chs["GSM"] = Digit(3)
    /\ IF flag["GSM_atcmd_flag"] = flag["GSM_wflag"]
       THEN /\ SetBoth("GSM_atcmd_flag", "GSM_wflag", 1 - flag["GSM_wflag"])
            /\ Forget("GSM")
       ELSE UNCHANGED <<flag, chs>>
    /\ Again("GSM") /\ UNCHANGED mail

(* Keys 4 and 7: ask for a report, or for the user's own message, and go   *)
(* to init, which sends it.                                                *)
GSMSend(key, f) ==
    /\ chs["GSM"] = key
    /\ Set(f, 1)
    /\ Forget("GSM") /\ HandOver("GSM", "init")

(* Keys 5 and 6: from now on UART0 takes what is typed as the message, or  *)
(* as the receiver's number.  The buffer is emptied after the flag is up.  *)
GSMWrite(key, f) ==
    /\ chs["GSM"] = key
    /\ Set(f, 1)
    /\ Forget("GSM")
    /\ Goto("GSM", "wipe") /\ UNCHANGED <<mail, idx>>

GSMWipe ==
    /\ pc["GSM"] = "wipe"
    /\ rx' = <<0, 0>> /\ place' = 0
    /\ Again("GSM")
    /\ UNCHANGED <<mail, flag, chs>>

(* Key 8: reports every two minutes, on and off.                           *)
GSMSequenceCounts ==
    /\ chs["GSM"] = Digit(8)
    /\ Set("GSM_seq_flag", flag["GSM_seq_flag"] + 1)
    /\ Forget("GSM") /\ Again("GSM") /\ UNCHANGED mail
GSMSequence ==
    /\ chs["GSM"] = Digit(8)
    /\ Set("GSM_seq_flag", 1 - flag["GSM_seq_flag"])
    /\ Forget("GSM") /\ Again("GSM") /\ UNCHANGED mail

GSMAct ==
    /\ pc["GSM"] = "act"
    /\ \/ KeyLeave("GSM", Digit(1), "IO")
       \/ KeyLeave("GSM", Digit(2), "GPS")
       \/ DirectConnection
       \/ GSMSend(Digit(4), "sms_flag")
       \/ GSMWrite(Digit(5), "GSM_cstmsms_flag")
       \/ GSMWrite(Digit(6), "GSM_phnnmb_flag")
       \/ GSMSend(Digit(7), "send_cstm_sms_flag")
       \/ GSMSequence
       \/ KeyReset("GSM")
       \/ NoKey("GSM", {Digit(n) : n \in 0..8})
    /\ UNCHANGED lineVars

(* Keys 3 to 7 read or set a pin.  The pin is read once for high and once  *)
(* for low, so an edge between the two leaves the key for the next round.  *)
IOPin ==
    /\ chs["IO"] \in {Digit(n) : n \in 3..7}
    /\ Forget("IO") \/ UNCHANGED chs
    /\ Again("IO")
    /\ UNCHANGED <<mail, flag>>

IOAct ==
    /\ pc["IO"] = "act"
    /\ \/ KeyLeave("IO", Digit(1), "GPS")
       \/ KeyLeave("IO", Digit(2), "GSM")
       \/ IOPin
       \/ KeyReset("IO")
       \/ NoKey("IO", {Digit(n) : n \in 0..7})
    /\ UNCHANGED lineVars

----------------------------------------------------------------------------
(* The init mode.  Its loop resets if asked to, takes a command, and sends *)
(* what is to be sent; the loop is left by a command or a message.         *)
TestResetNever ==
    /\ pc["init"] = "top"
    /\ Goto("init", "cmd")
    /\ UNCHANGED <<mail, idx, flag, chs, lineVars>>
TestReset ==
    /\ pc["init"] = "top"
    /\ Goto("init", IF flag["reset_flag"] = 1 THEN "reset" ELSE "cmd")
    /\ UNCHANGED <<mail, idx, flag, chs, lineVars>>

(* One assignment of the reset block at a time: interrupts run between.    *)
ResetFlag ==
    /\ pc["init"] = "reset"
    /\ idx["init"] <= Len(ResetOrder)
    /\ LET f == ResetOrder[idx["init"]] IN Set(f, ResetValue(f))
    /\ idx' = [idx EXCEPT !["init"] = @ + 1]
    /\ UNCHANGED <<mail, pc, chs, lineVars>>

ResetEnd ==
    /\ pc["init"] = "reset"
    /\ idx["init"] > Len(ResetOrder)
    /\ chs' = [m \in Mode |-> 0]
    /\ Set("reset_flag", 0)
    /\ idx' = [idx EXCEPT !["init"] = 1]
    /\ Goto("init", "cmd")
    /\ UNCHANGED <<mail, lineVars>>

InitLeaveKeepsKey(key, d) ==
    /\ chs["init"] = key
    /\ HandOver("init", d)
    /\ UNCHANGED <<flag, chs>>
InitLeave(key, d) == KeyLeave("init", key, d)

InitAct ==
    /\ pc["init"] = "act"
    /\ \/ InitLeave(Digit(1), "GPS")
       \/ InitLeave(Digit(2), "GSM")
       \/ InitLeave(Digit(3), "IO")
       \/ /\ chs["init"] \notin {Digit(1), Digit(2), Digit(3)}
          /\ Goto("init", "scan")
          /\ UNCHANGED <<mail, idx, flag, chs>>
    /\ UNCHANGED lineVars

(* The fix, the receiver and the modem, the scan of the GPS ring and the   *)
(* temperature come before the report and touch none of these flags.  They *)
(* delay it, and the scan does not end when the pointer of the GPS ring is *)
(* 0 and the receiver silent: nothing makes this step happen.              *)
EndScan ==
    /\ pc["init"] = "scan"
    /\ Goto("init", "report")
    /\ UNCHANGED <<mail, idx, flag, chs, lineVars>>

TestReport ==
    /\ pc["init"] = "report"
    /\ Goto("init", IF flag["cnt2_flag"] = 1 \/ flag["sms_flag"] = 1
                    THEN "transmit" ELSE "custom")
    /\ UNCHANGED <<mail, idx, flag, chs, lineVars>>

(* The report goes out in some 2.35 s, then both requests are taken down.  *)
Transmit ==
    /\ pc["init"] = "transmit"
    /\ Set("cnt2_flag", 0)
    /\ Goto("init", "sent")
    /\ UNCHANGED <<mail, idx, chs, lineVars>>

Sent ==
    /\ pc["init"] = "sent"
    /\ Set("sms_flag", 0)
    /\ HandOver("init", "GSM")
    /\ UNCHANGED <<chs, lineVars>>

TestCustom ==
    /\ pc["init"] = "custom"
    /\ Goto("init", IF flag["send_cstm_sms_flag"] = 1
                    THEN "sendcustom" ELSE "top")
    /\ UNCHANGED <<mail, idx, flag, chs, lineVars>>

SendCustom ==
    /\ pc["init"] = "sendcustom"
    /\ Set("send_cstm_sms_flag", 0)
    /\ Goto("init", "customsent")
    /\ UNCHANGED <<mail, idx, chs, lineVars>>

CustomSent ==
    /\ pc["init"] = "customsent"
    /\ HandOver("init", "GSM")
    /\ UNCHANGED <<flag, chs, lineVars>>

InitTask ==
    \/ TestReset \/ ResetFlag \/ ResetEnd \/ InitAct \/ EndScan \/ TestReport
    \/ Transmit \/ Sent \/ TestCustom \/ SendCustom \/ CustomSent

Task(m) ==
    \/ Receive(m) \/ TestEnter(m) \/ CopyKey(m) \/ ClearBuffer(m)
    \/ m \in Service /\ (Enter(m) \/ PollHit(m) \/ PollMiss(m))
    \/ m = "init" /\ InitTask
    \/ m = "GPS" /\ GPSAct
    \/ m = "GSM" /\ (GSMAct \/ GSMWipe)
    \/ m = "IO" /\ IOAct

----------------------------------------------------------------------------
(* UART0_Handler: a byte is typed.  It goes into the ring, behind whose    *)
(* last place the pointer is 0 again; a dash ends the writing of a message *)
(* or number and asks GSM to show its menu again.                          *)
UART0(b) ==
    LET writing == {f \in {"GSM_cstmsms_flag", "GSM_phnnmb_flag"} : flag[f] = 1}
    IN  /\ rx' = <<rx[2], b>>
        /\ place' \in IF place = 2 THEN {2, 0} ELSE {place + 1}
        /\ flag' = IF b = Dash /\ writing # {}
                   THEN [f \in Flag |-> IF f \in writing THEN 0
                                        ELSE IF f = "GSM_reset_flag" THEN 1
                                        ELSE flag[f]]
                   ELSE flag
        /\ UNCHANGED <<mail, pc, idx, chs>>

(* The tick hook finds an input that changed, every 750 ticks.             *)
TickInput ==
    /\ Set("sms_flag", 1)
    /\ UNCHANGED <<mail, pc, idx, chs, lineVars>>

(* The tick hook's two-minute counter, which runs while GSM_seq_flag is up.*)
TickTimer ==
    /\ flag["GSM_seq_flag"] = 1
    /\ Set("cnt2_flag", 1)
    /\ UNCHANGED <<mail, pc, idx, chs, lineVars>>

Type == \E b \in Typed : UART0(b)
Interrupt == Type \/ TickInput \/ TickTimer

Next == (\E m \in Mode : Task(m)) \/ Interrupt

Spec == Init /\ [][Next]_vars

(* The four tasks have one priority, so the tick gives each its time slice;*)
(* nothing makes a user type or an input change, or the scan end.          *)
FairSpec == Spec /\ \A m \in Mode : WF_vars(Task(m) /\ pc[m] # "scan")

----------------------------------------------------------------------------
TypeOK ==
    /\ mail \in [Mode -> 0..QueueSize]
    /\ pc \in [Mode -> Label]
    /\ idx \in [Mode -> 1..Len(ResetOrder) + 1]
    /\ flag \in [Flag -> {0, 1}]
    /\ chs \in [Mode -> 0..255]
    /\ rx \in (0..255) \X (0..255) /\ place \in 0..2

(* A mode holds the token when its item is queued or its task is running.  *)
Holds(m) == \/ mail[m] = 1 /\ pc[m] = "recv"
            \/ mail[m] = 0 /\ pc[m] # "recv"
Idle(m) == mail[m] = 0 /\ pc[m] = "recv"

(* Exactly one mode is active: there is one queue item for ever, each send *)
(* in test_task is followed by the break out of that mode's loop, so that  *)
(* no two modes' loops, which share all the flags without a lock, run at   *)
(* once and no send ever blocks on a full queue.                           *)
OneToken == \E m \in Mode : Holds(m) /\ \A n \in Mode \ {m} : Idle(n)

(* A reset is done before anything else: from key 0 until the end of the   *)
(* reset block the token is on its way to init or at init before or in the *)
(* block, so that no command is taken and nothing is sent with the reset   *)
(* still pending.                                                          *)
ResetFirst == flag["reset_flag"] = 1 =>
                  Holds("init") /\ pc["init"] \in {"recv", "top", "reset"}

(* The GPS receiver's text is copied to the terminal (UART1_Handler tests  *)
(* GPS_wflag) only while the GPS mode runs, or for the moment until the    *)
(* reset that key 0 asked for clears the flag.                             *)
NmeaOnlyInGPS == flag["GPS_wflag"] = 1 =>
                    \/ pc["GPS"] \notin {"recv", "enter"}
                    \/ flag["reset_flag"] = 1

(* The modem's two directions are connected or cut together: key 3 tests   *)
(* for both flags alike and would do nothing for ever if they differed.    *)
DirectBothWays == pc["init"] # "reset" =>
                      flag["GSM_wflag"] = flag["GSM_atcmd_flag"]

(* init_chs is not cleared when init is entered, so a mode key must be     *)
(* gone from it whenever init is not between reading and obeying a command:*)
(* init is entered to send a message and would leave at once without it.   *)
InitKeyTakenOnce == pc["init"] \notin {"clear", "act"} =>
                        chs["init"] \notin {Digit(1), Digit(2), Digit(3)}

(* A two-minute report's request goes down only after a report was sent    *)
(* or in a reset: no other mode's loop, menu or key takes it away.  (One   *)
(* raised while another report goes out goes down with that one's.)        *)
TimerKept == flag["cnt2_flag"] = 1 /\ flag'["cnt2_flag"] = 0
                 => pc["init"] \in {"transmit", "reset"}
TimerRequestKept == [][TimerKept]_vars

(* When the reset block lets go of reset_flag, the modes start from main's *)
(* initial values: nothing in the running system undid an assignment of    *)
(* the block while it ran, except a request the interrupts raised anew.    *)
(* The block forgets one flag, GSM_cstmsms_flag: after a reset in the      *)
(* middle of a message UART0 goes on taking what is typed as its text.     *)
Raised == {"sms_flag", "cnt2_flag", "GSM_reset_flag"}
Forgotten == {"GSM_cstmsms_flag"}
ResetCompletes ==
    flag["reset_flag"] = 1 /\ flag'["reset_flag"] = 0
        => /\ \A f \in Flag \ (Raised \union Forgotten) : flag'[f] = ResetValue(f)
           /\ \A m \in Mode : chs'[m] = 0
ResetComplete == [][ResetCompletes]_vars

(* A reset that is asked for is finished.                                  *)
ResetDone == (flag["reset_flag"] = 1) ~> (flag["reset_flag"] = 0)

(* When the keyboard falls silent, every report that is due is sent or     *)
(* dropped by GSM's entry, whichever mode is active: every mode polls for  *)
(* it and hands over to init.  This takes a GPS receiver that sends, or a  *)
(* pointer of its ring that is not 0: init has to come out of its scan.    *)
Silence == <>[][~Type]_vars
ScansEnd == []<>(pc["init"] # "scan")
ReportsSent ==
    Silence /\ ScansEnd => /\ (flag["cnt2_flag"] = 1) ~> (flag["cnt2_flag"] = 0)
                           /\ (flag["sms_flag"] = 1) ~> (flag["sms_flag"] = 0)

(* An Enter that lies before the pointer is taken by some mode when the    *)
(* keyboard falls silent, however often inputs and reports make the modes  *)
(* hand over to each other before they come to read, if init's scans end.  *)
(* An Enter in the last place of the ring has the pointer at 0: no mode    *)
(* sees it until another byte is typed.                                    *)
EnterSeen == rx[2] = CR /\ place > 0
EnterTaken == Silence /\ ScansEnd => (EnterSeen ~> ~EnterSeen)

(* The abstract specification, with the token's holder as the mode.        *)
Active == CHOOSE m \in Mode : Holds(m)
Resetting == flag["reset_flag"] = 1
Abs == INSTANCE ModeControl WITH mode <- Active, resetting <- Resetting
ModeControlSpec == Abs!Spec

----------------------------------------------------------------------------
(* What the documentation says and the code does not do.                   *)

(* README: "When a message is requested to be sent, this case is briefly   *)
(* entered again ... packing the data, and sending the SMS": a request     *)
(* for a report goes down only when the report was sent, or in a reset.    *)
ReportRequestKept ==
    [][flag["sms_flag"] = 1 /\ flag'["sms_flag"] = 0
         => pc["init"] \in {"sent", "reset"}]_vars
=============================================================================
