---------------------------- MODULE ModesProofs ----------------------------
(***************************************************************************)
(* Theorems about Modes, for every queue length and every alphabet.  The   *)
(* inductive invariant adds three facts to the properties: which labels    *)
(* each task can stand at, how far its list index goes, and what the reset *)
(* block has already assigned.                                             *)
(***************************************************************************)
EXTENDS Modes, TLAPS

(* The labels of each task's program. *)
Common == {"recv", "cmd", "copy", "clear", "act"}
Labels == [init |-> Common \cup {"top", "reset", "scan", "report", "transmit", "sent",
                                 "custom", "sendcustom", "customsent"},
           GPS  |-> Common \cup {"enter", "poll"},
           GSM  |-> Common \cup {"enter", "poll", "wipe"},
           IO   |-> Common \cup {"enter", "poll"}]
LabelInv == \A m \in Mode : pc[m] \in Labels[m]

(* The index is 1 except where a list is being gone through. *)
IndexInv ==
    /\ \A m \in Service : /\ idx[m] \in 1..Len(Polls[m])
                          /\ pc[m] # "poll" => idx[m] = 1
    /\ pc["init"] # "reset" => idx["init"] = 1

(* What the block assigned stays assigned, unless an interrupt raises it.  *)
ResetProgress ==
    pc["init"] = "reset" =>
        \A j \in 1..Len(ResetOrder) :
            j < idx["init"] /\ ResetOrder[j] \notin Raised
                => flag[ResetOrder[j]] = ResetValue(ResetOrder[j])

IInv == /\ TypeOK
        /\ LabelInv
        /\ IndexInv
        /\ OneToken
        /\ ResetFirst
        /\ ResetProgress
        /\ NmeaOnlyInGPS
        /\ DirectBothWays
        /\ InitKeyTakenOnce

----------------------------------------------------------------------------
(* The initial state. *)
LEMMA InitIInv == Init => IInv
<1> SUFFICES ASSUME Init PROVE IInv
  OBVIOUS
<1> USE QueueAssumption DEF Init, Mode, Service, Flag
<1>1. TypeOK
  BY DEF TypeOK, Label, ResetValue, ResetOrder
<1>2. LabelInv
  BY DEF LabelInv, Labels, Common
<1>3. IndexInv
  BY DEF IndexInv, Polls
<1>4. OneToken
  BY DEF OneToken, Holds, Idle
<1>5. ResetFirst /\ ResetProgress /\ NmeaOnlyInGPS /\ DirectBothWays
  BY DEF ResetFirst, ResetProgress, NmeaOnlyInGPS, DirectBothWays, ResetValue
<1>6. InitKeyTakenOnce
  BY DEF InitKeyTakenOnce, Digit
<1> QED
  BY <1>1, <1>2, <1>3, <1>4, <1>5, <1>6 DEF IInv

(* Types, one variable at a time.                                          *)
LEMMA FlagType == TypeOK /\ [Next]_vars => flag' \in [Flag -> {0, 1}]
<1> SUFFICES ASSUME TypeOK, [Next]_vars PROVE flag' \in [Flag -> {0, 1}]
  OBVIOUS
<1>0. flag \in [Flag -> {0, 1}]
  BY DEF TypeOK
<1>1. ASSUME NEW f, NEW v \in {0, 1}, Set(f, v)
      PROVE  flag' \in [Flag -> {0, 1}]
  BY <1>0, <1>1 DEF Set
<1>2. ASSUME NEW f, NEW g, NEW v \in {0, 1}, SetBoth(f, g, v)
      PROVE  flag' \in [Flag -> {0, 1}]
  BY <1>0, <1>2 DEF SetBoth
<1>3. CASE UNCHANGED flag
  BY <1>0, <1>3
<1>4. CASE InitTask
  BY <1>1, <1>3, <1>4 DEF InitTask, TestReset, ResetFlag, ResetEnd, InitAct, EndScan, TestReport,
     Transmit, Sent, TestCustom, SendCustom, CustomSent, InitLeave, KeyLeave, ResetValue
<1>5. CASE GPSAct
  BY <1>1, <1>3, <1>5 DEF GPSAct, GPSPrintOn, GPSPrintOff, GPSLeave, KeyReset, NoKey
<1>6. CASE GSMAct
  <2>1. 1 - flag["GSM_wflag"] \in {0, 1} /\ 1 - flag["GSM_seq_flag"] \in {0, 1}
    BY <1>0 DEF Flag
  <2> QED
    BY <1>1, <1>2, <1>3, <1>6, <2>1 DEF GSMAct, KeyLeave, DirectConnection, GSMSend, GSMWrite,
       GSMSequence, KeyReset, NoKey
<1>7. CASE IOAct
  BY <1>1, <1>3, <1>7 DEF IOAct, IOPin, KeyLeave, KeyReset, NoKey
<1>8. CASE Interrupt
  BY <1>0, <1>1, <1>8 DEF Interrupt, Type, UART0, TickInput, TickTimer
<1>9. ASSUME NEW m \in Mode, PollHit(m) PROVE flag' \in [Flag -> {0, 1}]
  BY <1>0, <1>9 DEF PollHit
<1> QED
  BY <1>1, <1>3, <1>4, <1>5, <1>6, <1>7, <1>8, <1>9 DEF Next, Task, Receive, TestEnter,
     CopyKey, ClearBuffer, Enter, PollMiss, GSMWipe, vars

(* Where each task can stand.  A step moves one task to one label, or none.*)
LEMMA LabelStep ==
  TypeOK /\ LabelInv /\ [Next]_vars => LabelInv' /\ pc' \in [Mode -> Label]
<1> DEFINE Good == LabelInv' /\ pc' \in [Mode -> Label]
<1> SUFFICES ASSUME TypeOK, LabelInv, [Next]_vars PROVE Good
  OBVIOUS
<1>0. pc \in [Mode -> Label]
  BY DEF TypeOK
<1>1. ASSUME NEW m \in Mode, NEW l \in Labels[m], Goto(m, l) PROVE Good
  <2>1. l \in Label
    BY DEF Labels, Common, Label, Mode
  <2> QED
    BY <1>0, <1>1, <2>1 DEF Goto, LabelInv
<1>2. CASE UNCHANGED pc
  BY <1>0, <1>2 DEF LabelInv
<1>3. \A m \in Mode : Common \subseteq Labels[m]
  BY DEF Labels, Mode
<1>4. \A m \in Service : "poll" \in Labels[m] /\ "enter" \in Labels[m]
  BY DEF Labels, Mode, Service
<1>5. \A l \in {"top", "reset", "scan", "report", "transmit", "sent", "custom",
                "sendcustom", "customsent"} : l \in Labels["init"]
  BY DEF Labels, Common
<1>6. \A m \in Mode : m \in Service \/ m = "init"
  BY DEF Service
<1>7. /\ "init" \in Mode /\ "init" \notin Service
      /\ \A m \in {"GPS", "GSM", "IO"} : m \in Service /\ m \in Mode
  BY DEF Service, Mode
<1>8. ASSUME NEW m \in Mode, NEW d, HandOver(m, d) PROVE Good
  BY <1>1, <1>3, <1>8 DEF HandOver, Common
<1>9. ASSUME NEW m \in Mode, Again(m) PROVE Good
  BY <1>1, <1>4, <1>5, <1>6, <1>9 DEF Again
<1>10. ASSUME NEW m \in Mode,
              Receive(m) \/ TestEnter(m) \/ CopyKey(m) \/ ClearBuffer(m)
       PROVE  Good
  BY <1>1, <1>3, <1>4, <1>5, <1>6, <1>10
     DEF Receive, TestEnter, CopyKey, ClearBuffer, Common
<1>11. ASSUME NEW m \in Service, Enter(m) \/ PollHit(m) \/ PollMiss(m)
       PROVE  Good
  BY <1>1, <1>2, <1>3, <1>4, <1>8, <1>11
     DEF Enter, PollHit, PollMiss, Common, Service
<1>12. CASE InitTask
  BY <1>1, <1>2, <1>3, <1>5, <1>7, <1>8, <1>12
     DEF InitTask, TestReset, ResetFlag, ResetEnd, InitAct, EndScan, TestReport,
     Transmit, Sent, TestCustom, SendCustom, CustomSent, InitLeave, KeyLeave,
     Common
<1>13. CASE GPSAct
  BY <1>7, <1>8, <1>9, <1>13
     DEF GPSAct, GPSPrintOn, GPSPrintOff, GPSLeave, KeyReset, NoKey
<1>14. CASE GSMAct \/ GSMWipe
  <2>1. "wipe" \in Labels["GSM"]
    BY DEF Labels
  <2> QED
    BY <1>1, <1>7, <1>8, <1>9, <1>14, <2>1
       DEF GSMAct, GSMWipe, KeyLeave, DirectConnection, GSMSend, GSMWrite,
       GSMSequence, KeyReset, NoKey
<1>15. CASE IOAct
  BY <1>7, <1>8, <1>9, <1>15 DEF IOAct, IOPin, KeyLeave, KeyReset, NoKey
<1>16. CASE Interrupt
  BY <1>2, <1>16 DEF Interrupt, Type, UART0, TickInput, TickTimer
<1> QED
  BY <1>2, <1>10, <1>11, <1>12, <1>13, <1>14, <1>15, <1>16
     DEF Next, Task, vars, Service

(***************************************************************************)
(* The token.  Seen through the queues and labels alone a step is one of   *)
(* four things.                                                            *)
(***************************************************************************)
Works(m) == /\ pc[m] # "recv"
            /\ \E l \in Label \ {"recv"} : Goto(m, l)
            /\ UNCHANGED mail
Sends(m, d) == pc[m] # "recv" /\ HandOver(m, d)

LEMMA Shape ==
  TypeOK /\ [Next]_vars =>
      \/ UNCHANGED <<mail, pc>>
      \/ \E m \in Mode : Receive(m) \/ Works(m) \/ \E d \in Mode : Sends(m, d)
<1> DEFINE Good == \/ UNCHANGED <<mail, pc>>
                   \/ \E m \in Mode : \/ Receive(m) \/ Works(m)
                                      \/ \E d \in Mode : Sends(m, d)
<1> SUFFICES ASSUME TypeOK, [Next]_vars PROVE Good
  OBVIOUS
<1>0. pc \in [Mode -> Label]
  BY DEF TypeOK
<1>1. /\ \A m \in {"init", "GPS", "GSM", "IO"} : m \in Mode
      /\ \A m \in Service : m \in Mode
  BY DEF Mode, Service
<1>2. \A l \in {"top", "cmd", "copy", "clear", "act", "poll", "enter", "wipe",
                "reset", "scan", "report", "transmit", "sent", "custom", "sendcustom",
                "customsent"} : l \in Label \ {"recv"}
  BY DEF Label
<1>3. ASSUME NEW m \in Mode, pc[m] # "recv", Again(m), UNCHANGED mail
      PROVE  Good
  BY <1>2, <1>3 DEF Again, Works
<1>4. ASSUME NEW m \in Mode, TestEnter(m) \/ CopyKey(m) \/ ClearBuffer(m)
      PROVE  Works(m)
  BY <1>2, <1>4 DEF TestEnter, CopyKey, ClearBuffer, Works
<1>5. ASSUME NEW m \in Service, Enter(m) \/ PollMiss(m)
      PROVE  Good
  BY <1>1, <1>2, <1>5 DEF Enter, PollMiss, Works
<1>6. ASSUME NEW m \in Service, PollHit(m) PROVE Good
  BY <1>1, <1>6 DEF PollHit, Sends
<1>7. CASE InitTask
  <2>1. CASE InitAct
    BY <1>1, <1>2, <2>1 DEF InitAct, InitLeave, KeyLeave, Sends, Works
  <2>2. CASE Sent \/ CustomSent
    BY <1>1, <2>2 DEF Sent, CustomSent, Sends
  <2>3. CASE ResetFlag
    BY <2>3 DEF ResetFlag
  <2>4. CASE TestReset \/ ResetEnd \/ TestReport \/ Transmit \/ TestCustom
             \/ SendCustom \/ EndScan
    BY <1>1, <1>2, <2>4
       DEF TestReset, ResetEnd, EndScan, TestReport, Transmit, TestCustom, SendCustom,
       Works
  <2> QED
    BY <1>7, <2>1, <2>2, <2>3, <2>4 DEF InitTask
<1>8. CASE GPSAct
  <2>1. pc["GPS"] # "recv"
    BY <1>8 DEF GPSAct
  <2> QED
    BY <1>1, <1>3, <1>8, <2>1 DEF GPSAct, GPSPrintOn, GPSPrintOff, GPSLeave,
       KeyReset, NoKey, Sends
<1>9. CASE GSMAct \/ GSMWipe
  <2>1. pc["GSM"] # "recv"
    BY <1>9 DEF GSMAct, GSMWipe
  <2> QED
    BY <1>1, <1>2, <1>3, <1>9, <2>1
       DEF GSMAct, GSMWipe, KeyLeave, DirectConnection, GSMSend, GSMWrite,
       GSMSequence, KeyReset, NoKey, Sends, Works
<1>10. CASE IOAct
  <2>1. pc["IO"] # "recv"
    BY <1>10 DEF IOAct
  <2> QED
    BY <1>1, <1>3, <1>10, <2>1
       DEF IOAct, IOPin, KeyLeave, KeyReset, NoKey, Sends
<1>11. CASE Interrupt
  BY <1>11 DEF Interrupt, Type, UART0, TickInput, TickTimer
<1>12. CASE UNCHANGED vars
  BY <1>12 DEF vars
<1> QED
  BY <1>1, <1>4, <1>5, <1>6, <1>7, <1>8, <1>9, <1>10, <1>11, <1>12
     DEF Next, Task

(* A task that is not waiting is the one that has the token. *)
LEMMA Holder ==
  ASSUME OneToken, NEW m \in Mode, pc[m] # "recv"
  PROVE  mail[m] = 0 /\ \A n \in Mode \ {m} : Idle(n)
BY DEF OneToken, Holds, Idle

LEMMA TokenStep ==
  TypeOK /\ OneToken /\ [Next]_vars =>
      OneToken' /\ mail' \in [Mode -> 0..QueueSize]
<1> SUFFICES ASSUME TypeOK, OneToken, [Next]_vars
             PROVE  OneToken' /\ mail' \in [Mode -> 0..QueueSize]
  OBVIOUS
<1>0. mail \in [Mode -> 0..QueueSize] /\ pc \in [Mode -> Label]
  BY DEF TypeOK
<1>1. CASE UNCHANGED <<mail, pc>>
  BY <1>0, <1>1 DEF OneToken, Holds, Idle
<1>2. ASSUME NEW m \in Mode, Receive(m)
      PROVE  OneToken' /\ mail' \in [Mode -> 0..QueueSize]
  <2>1. mail[m] = 1 /\ \A n \in Mode \ {m} : Idle(n)
    BY <1>0, <1>2 DEF OneToken, Holds, Idle, Receive
  <2>2. mail' = [mail EXCEPT ![m] = 0]
    BY <1>0, <1>2, <2>1 DEF Receive
  <2>3. pc'[m] # "recv" /\ \A n \in Mode \ {m} : pc'[n] = pc[n]
    BY <1>0, <1>2 DEF Receive, Goto
  <2>4. Holds(m)' /\ \A n \in Mode \ {m} : Idle(n)'
    BY <1>0, <2>1, <2>2, <2>3 DEF Holds, Idle
  <2> QED
    BY <1>0, <2>2, <2>4, QueueAssumption DEF OneToken
<1>3. ASSUME NEW m \in Mode, Works(m)
      PROVE  OneToken' /\ mail' \in [Mode -> 0..QueueSize]
  <2>1. mail[m] = 0 /\ \A n \in Mode \ {m} : Idle(n)
    BY <1>3, Holder DEF Works
  <2>2. Holds(m)' /\ \A n \in Mode \ {m} : Idle(n)'
    BY <1>0, <1>3, <2>1 DEF Works, Goto, Holds, Idle
  <2> QED
    BY <1>0, <1>3, <2>2 DEF OneToken, Works
<1>4. ASSUME NEW m \in Mode, NEW d \in Mode, Sends(m, d)
      PROVE  OneToken' /\ mail' \in [Mode -> 0..QueueSize]
  <2>1. mail[m] = 0 /\ \A n \in Mode \ {m} : Idle(n)
    BY <1>4, Holder DEF Sends
  <2>2. mail[d] = 0
    BY <2>1 DEF Idle
  <2>3. mail' = [mail EXCEPT ![d] = 1] /\ pc' = [pc EXCEPT ![m] = "recv"]
    BY <1>4, <2>2 DEF Sends, HandOver, Goto
  <2>4. Holds(d)' /\ \A n \in Mode \ {d} : Idle(n)'
    BY <1>0, <2>1, <2>3 DEF Holds, Idle
  <2> QED
    BY <1>0, <2>3, <2>4, QueueAssumption DEF OneToken
<1> QED
  BY <1>1, <1>2, <1>3, <1>4, Shape

(***************************************************************************)
(* The list indices.                                                       *)
(***************************************************************************)
LEMMA IndexStep ==
  TypeOK /\ LabelInv /\ IndexInv /\ [Next]_vars =>
      IndexInv' /\ idx' \in [Mode -> 1..Len(ResetOrder) + 1]
<1> DEFINE Good == IndexInv' /\ idx' \in [Mode -> 1..Len(ResetOrder) + 1]
<1> SUFFICES ASSUME TypeOK, LabelInv, IndexInv, [Next]_vars PROVE Good
  OBVIOUS
<1>0. /\ pc \in [Mode -> Label] /\ idx \in [Mode -> 1..10]
      /\ Len(ResetOrder) = 9
      /\ \A m \in Service : Len(Polls[m]) \in {2, 3}
  BY DEF TypeOK, ResetOrder, Polls, Service, Mode
<1>1. ASSUME NEW m \in Mode, NEW l, Goto(m, l), idx' = [idx EXCEPT ![m] = 1]
      PROVE  Good
  BY <1>0, <1>1 DEF IndexInv, Goto, Service, Mode
<1>2. ASSUME NEW m \in Mode, NEW l, Goto(m, l), UNCHANGED idx, idx[m] = 1
      PROVE  Good
  BY <1>0, <1>2 DEF IndexInv, Goto, Service, Mode
<1>3. ASSUME UNCHANGED <<pc, idx>> PROVE Good
  BY <1>0, <1>3 DEF IndexInv
<1>4. \A m \in Mode : pc[m] \notin {"poll", "reset"} => idx[m] = 1
  BY DEF IndexInv, Service, Mode
<1>5. ASSUME NEW m \in Mode, Again(m) PROVE Good
  BY <1>1, <1>5 DEF Again
<1>6. ASSUME NEW m \in Mode, NEW d, HandOver(m, d) PROVE Good
  BY <1>1, <1>6 DEF HandOver
<1>7. /\ \A m \in {"init", "GPS", "GSM", "IO"} : m \in Mode
      /\ \A m \in Service : m \in Mode
  BY DEF Mode, Service
<1>8. ASSUME NEW m \in Mode,
             Receive(m) \/ TestEnter(m) \/ CopyKey(m) \/ ClearBuffer(m)
      PROVE  Good
  BY <1>2, <1>4, <1>8 DEF Receive, TestEnter, CopyKey, ClearBuffer
<1>9. ASSUME NEW m \in Service, Enter(m) \/ PollHit(m) PROVE Good
  BY <1>2, <1>4, <1>6, <1>7, <1>9 DEF Enter, PollHit
<1>10. ASSUME NEW m \in Service, PollMiss(m) PROVE Good
  <2>1. CASE idx[m] < Len(Polls[m])
    <3>1. idx[m] + 1 \in 1..Len(Polls[m])
      BY <1>0, <2>1, <1>7
    <3>2. /\ idx' = [idx EXCEPT ![m] = idx[m] + 1] /\ UNCHANGED pc
          /\ pc[m] = "poll"
      BY <1>10, <2>1 DEF PollMiss
    <3>3. idx[m] + 1 \in 1..10
      <4>1. ASSUME NEW i \in 1..10, NEW n \in {2, 3}, i < n
            PROVE  i + 1 \in 1..10
        BY <4>1
      <4>2. m \in Mode /\ idx[m] \in 1..10 /\ Len(Polls[m]) \in {2, 3}
        BY <1>0, <1>7
      <4> QED
        BY <2>1, <4>1, <4>2
    <3>4. idx' \in [Mode -> 1..10] /\ "init" # m
      BY <1>0, <3>2, <3>3 DEF Service
    <3>5. IndexInv'
      BY <1>0, <1>7, <3>1, <3>2, <3>4 DEF IndexInv
    <3> QED
      BY <1>0, <3>4, <3>5
  <2>2. CASE ~(idx[m] < Len(Polls[m]))
    BY <1>1, <1>7, <1>10, <2>2 DEF PollMiss
  <2> QED
    BY <2>1, <2>2
<1>11. CASE InitTask
  <2>1. CASE ResetFlag
    BY <1>0, <2>1 DEF ResetFlag, IndexInv, Mode, Service
  <2>2. CASE ResetEnd
    BY <1>1, <1>7, <2>2 DEF ResetEnd
  <2>3. CASE InitAct
    BY <1>2, <1>4, <1>6, <1>7, <2>3 DEF InitAct, InitLeave, KeyLeave
  <2>4. CASE Sent \/ CustomSent
    BY <1>6, <1>7, <2>4 DEF Sent, CustomSent
  <2>5. CASE TestReset \/ TestReport \/ Transmit \/ TestCustom \/ SendCustom
             \/ EndScan
    BY <1>2, <1>4, <1>7, <2>5
       DEF TestReset, EndScan, TestReport, Transmit, TestCustom, SendCustom
  <2> QED
    BY <1>11, <2>1, <2>2, <2>3, <2>4, <2>5 DEF InitTask
<1>12. CASE GPSAct
  BY <1>5, <1>6, <1>7, <1>12
     DEF GPSAct, GPSPrintOn, GPSPrintOff, GPSLeave, KeyReset, NoKey
<1>13. CASE GSMAct \/ GSMWipe
  BY <1>2, <1>4, <1>5, <1>6, <1>7, <1>13
     DEF GSMAct, GSMWipe, KeyLeave, DirectConnection, GSMSend, GSMWrite,
     GSMSequence, KeyReset, NoKey
<1>14. CASE IOAct
  BY <1>5, <1>6, <1>7, <1>14 DEF IOAct, IOPin, KeyLeave, KeyReset, NoKey
<1>15. CASE Interrupt
  BY <1>3, <1>15 DEF Interrupt, Type, UART0, TickInput, TickTimer
<1>16. CASE UNCHANGED vars
  BY <1>3, <1>16 DEF vars
<1> QED
  BY <1>8, <1>9, <1>10, <1>11, <1>12, <1>13, <1>14, <1>15, <1>16
     DEF Next, Task

(***************************************************************************)
(* The flags.  A step of a task that holds the token and is not in the     *)
(* reset has no reset pending.                                             *)
(***************************************************************************)
LEMMA NoResetPending ==
  ASSUME TypeOK, OneToken, ResetFirst, NEW m \in Mode,
         \/ pc[m] \notin {"recv", "top", "reset"}
         \/ m # "init" /\ pc[m] # "recv"
  PROVE  flag["reset_flag"] = 0
<1>1. SUFFICES ASSUME flag["reset_flag"] = 1 PROVE FALSE
  BY DEF TypeOK, Flag
<1>2. Holds("init") /\ pc["init"] \in {"recv", "top", "reset"}
  BY <1>1 DEF ResetFirst
<1>3. mail[m] = 0 /\ \A n \in Mode \ {m} : Idle(n)
  BY Holder
<1> QED
  BY <1>2, <1>3 DEF Holds, Idle, Mode

(* What an interrupt does to the flags and labels. *)
LEMMA InterruptEffect ==
  ASSUME TypeOK, Interrupt
  PROVE  /\ UNCHANGED <<mail, pc, idx, chs>>
         /\ \A f \in Flag \ {"sms_flag", "cnt2_flag", "GSM_reset_flag",
                             "GSM_cstmsms_flag", "GSM_phnnmb_flag"} :
                flag'[f] = flag[f]
         /\ flag["GSM_phnnmb_flag"] = 0 => flag'["GSM_phnnmb_flag"] = 0
<1>0. flag \in [Flag -> {0, 1}]
  BY DEF TypeOK
<1>1. CASE TickInput \/ TickTimer
  <2>1. flag' = [flag EXCEPT !["sms_flag"] = 1] \/
        flag' = [flag EXCEPT !["cnt2_flag"] = 1]
    BY <1>1 DEF TickInput, TickTimer, Set
  <2>2. "GSM_phnnmb_flag" \in Flag
    BY DEF Flag
  <2> QED
    BY <1>0, <1>1, <2>1, <2>2 DEF TickInput, TickTimer
<1>2. ASSUME NEW b \in Typed, UART0(b)
      PROVE  /\ UNCHANGED <<mail, pc, idx, chs>>
             /\ \A f \in Flag \ {"GSM_reset_flag", "GSM_cstmsms_flag",
                                 "GSM_phnnmb_flag"} : flag'[f] = flag[f]
             /\ flag["GSM_phnnmb_flag"] = 0 => flag'["GSM_phnnmb_flag"] = 0
  <2>1. "GSM_phnnmb_flag" \in Flag
    BY DEF Flag
  <2> QED
    BY <1>0, <1>2, <2>1 DEF UART0
<1> QED
  BY <1>1, <1>2 DEF Interrupt, Type

(* The reset is pending only on its way through init. *)
LEMMA ResetFirstStep ==
  TypeOK /\ OneToken /\ ResetFirst /\ [Next]_vars => ResetFirst'
<1> SUFFICES ASSUME TypeOK, OneToken, ResetFirst, [Next]_vars,
                    flag'["reset_flag"] = 1
             PROVE  Holds("init")' /\ pc'["init"] \in {"recv", "top", "reset"}
  BY DEF ResetFirst
<1> DEFINE Good == Holds("init")' /\ pc'["init"] \in {"recv", "top", "reset"}
<1>0. /\ mail \in [Mode -> 0..QueueSize] /\ pc \in [Mode -> Label]
      /\ flag \in [Flag -> {0, 1}] /\ "reset_flag" \in Flag
  BY DEF TypeOK, Flag
<1>1. CASE Interrupt \/ UNCHANGED vars
  <2>1. flag["reset_flag"] = 1 /\ UNCHANGED <<mail, pc>>
    BY <1>0, <1>1, InterruptEffect DEF vars
  <2> QED
    BY <2>1 DEF ResetFirst, Holds
<1>2. ASSUME NEW m \in Mode, Receive(m) PROVE Good
  <2>1. Holds("init") /\ pc["init"] \in {"recv", "top", "reset"}
    BY <1>2 DEF Receive, ResetFirst
  <2>2. m = "init"
    BY <1>0, <1>2, <2>1 DEF Receive, OneToken, Holds, Idle, Mode
  <2> QED
    BY <1>0, <1>2, <2>1, <2>2 DEF Receive, Goto, Holds
<1>3. ASSUME NEW m \in Mode, KeyReset(m), m # "init", pc[m] = "act" PROVE Good
  <2>1. \A n \in Mode \ {m} : Idle(n)
    BY <1>3, Holder
  <2>2. "init" \in Mode /\ mail["init"] = 0 /\ pc["init"] = "recv"
    BY <1>3, <2>1 DEF Idle, Mode
  <2> QED
    BY <1>0, <1>3, <2>2 DEF KeyReset, HandOver, Goto, Holds
<1>4. ASSUME NEW m \in Mode, pc[m] # "recv",
             m # "init" \/ pc[m] \notin {"recv", "top", "reset"},
             flag'["reset_flag"] = flag["reset_flag"]
      PROVE  FALSE
  BY <1>4, NoResetPending
<1>5. /\ \A m \in {"init", "GPS", "GSM", "IO"} : m \in Mode
      /\ \A m \in Service : m \in Mode /\ m # "init"
  BY DEF Mode, Service
<1>6. CASE \E m \in Mode : TestEnter(m) \/ CopyKey(m) \/ ClearBuffer(m)
  BY <1>4, <1>6 DEF TestEnter, CopyKey, ClearBuffer
<1>7. CASE \E m \in Service : Enter(m) \/ PollHit(m) \/ PollMiss(m)
  BY <1>0, <1>4, <1>5, <1>7 DEF Enter, PollHit, PollMiss, Set
<1>8. CASE InitTask
  <2>1. CASE TestReset
    <3>1. flag["reset_flag"] = 1
      BY <2>1 DEF TestReset
    <3> QED
      BY <1>0, <1>5, <2>1, <3>1 DEF TestReset, Goto, ResetFirst, Holds
  <2>2. CASE ResetFlag
    <3>1. ResetOrder[idx["init"]] # "reset_flag"
      BY <2>2 DEF ResetFlag, ResetOrder, TypeOK, Mode
    <3>2. flag["reset_flag"] = 1 /\ UNCHANGED <<mail, pc>>
      BY <1>0, <2>2, <3>1 DEF ResetFlag, Set
    <3> QED
      BY <3>2 DEF ResetFirst, Holds
  <2>3. CASE ResetEnd
    BY <1>0, <2>3 DEF ResetEnd, Set
  <2>4. CASE InitAct \/ EndScan \/ TestReport \/ Transmit \/ Sent \/ TestCustom
             \/ SendCustom \/ CustomSent
    BY <1>0, <1>4, <1>5, <2>4 DEF InitAct, EndScan, TestReport, Transmit, Sent,
       TestCustom, SendCustom, CustomSent, InitLeave, KeyLeave, Set
  <2> QED
    BY <1>8, <2>1, <2>2, <2>3, <2>4 DEF InitTask
<1>9. CASE GPSAct
  BY <1>0, <1>3, <1>4, <1>5, <1>9
     DEF GPSAct, GPSPrintOn, GPSPrintOff, GPSLeave, NoKey, Set
<1>10. CASE GSMAct \/ GSMWipe
  BY <1>0, <1>3, <1>4, <1>5, <1>10
     DEF GSMAct, GSMWipe, KeyLeave, DirectConnection, GSMSend, GSMWrite,
     GSMSequence, NoKey, Set, SetBoth
<1>11. CASE IOAct
  BY <1>0, <1>3, <1>4, <1>5, <1>11 DEF IOAct, IOPin, KeyLeave, NoKey
<1> QED
  BY <1>1, <1>2, <1>6, <1>7, <1>8, <1>9, <1>10, <1>11 DEF Next, Task

(* While one mode's task runs no other does anything. *)
LEMMA OthersIdle ==
  ASSUME OneToken, NEW m \in Mode, pc[m] # "recv", NEW n \in Mode, n # m
  PROVE  pc[n] = "recv" /\ ~(mail[n] > 0)
<1>1. Idle(n)
  BY Holder
<1> QED
  BY <1>1 DEF Idle

LEMMA StepOf ==
  ASSUME OneToken, NEW m \in Mode, pc[m] # "recv", [Next]_vars
  PROVE  \/ Interrupt \/ UNCHANGED vars
         \/ TestEnter(m) \/ CopyKey(m) \/ ClearBuffer(m)
         \/ m \in Service /\ (Enter(m) \/ PollHit(m) \/ PollMiss(m))
         \/ m = "init" /\ InitTask
         \/ m = "GPS" /\ GPSAct
         \/ m = "GSM" /\ (GSMAct \/ GSMWipe)
         \/ m = "IO" /\ IOAct
<1>1. SUFFICES ASSUME NEW n \in Mode, Task(n), n # m PROVE FALSE
  BY DEF Next, Task, Receive
<1>2. pc[n] = "recv" /\ ~(mail[n] > 0)
  BY <1>1, OthersIdle
<1>3. InitTask => pc["init"] # "recv"
  BY DEF InitTask, TestReset, ResetFlag, ResetEnd, InitAct, EndScan, TestReport,
     Transmit, Sent, TestCustom, SendCustom, CustomSent
<1> QED
  BY <1>1, <1>2, <1>3 DEF Task, Receive, TestEnter, CopyKey, ClearBuffer,
     Enter, PollHit, PollMiss, GPSAct, GSMAct, GSMWipe, IOAct

(* In the reset block there are only the block's steps and interrupts. *)
LEMMA ResetSteps ==
  ASSUME OneToken, pc["init"] = "reset", [Next]_vars
  PROVE  ResetFlag \/ ResetEnd \/ Interrupt \/ UNCHANGED vars
<1>1. "init" \in Mode /\ "init" \notin Service /\ pc["init"] # "recv"
  BY DEF Mode, Service
<1>2. InitTask => ResetFlag \/ ResetEnd
  BY DEF InitTask, TestReset, InitAct, EndScan, TestReport, Transmit, Sent, TestCustom,
     SendCustom, CustomSent
<1> QED
  BY <1>1, <1>2, StepOf DEF TestEnter, CopyKey, ClearBuffer

LEMMA ResetEntry ==
  ASSUME TypeOK, [Next]_vars, pc["init"] # "reset", pc'["init"] = "reset"
  PROVE  TestReset
<1>0. pc \in [Mode -> Label]
  BY DEF TypeOK
<1>1. ASSUME NEW m \in Mode, NEW l, Goto(m, l), l # "reset" PROVE FALSE
  BY <1>0, <1>1 DEF Goto, Mode
<1>2. ASSUME NEW m \in Mode, NEW d, HandOver(m, d) PROVE FALSE
  BY <1>1, <1>2 DEF HandOver
<1>3. ASSUME NEW m \in Mode, Again(m) PROVE FALSE
  BY <1>1, <1>3 DEF Again
<1>4. /\ \A m \in {"init", "GPS", "GSM", "IO"} : m \in Mode
      /\ \A m \in Service : m \in Mode
  BY DEF Mode, Service
<1>5. CASE \E m \in Mode : \/ Receive(m) \/ TestEnter(m)
                           \/ CopyKey(m) \/ ClearBuffer(m)
  BY <1>1, <1>5 DEF Receive, TestEnter, CopyKey, ClearBuffer
<1>6. CASE \E m \in Service : Enter(m) \/ PollHit(m) \/ PollMiss(m)
  BY <1>1, <1>2, <1>4, <1>6 DEF Enter, PollHit, PollMiss
<1>7. CASE InitTask
  BY <1>1, <1>2, <1>4, <1>7 DEF InitTask, ResetFlag, ResetEnd, InitAct, EndScan,
     TestReport, Transmit, Sent, TestCustom, SendCustom, CustomSent, InitLeave,
     KeyLeave
<1>8. CASE GPSAct
  BY <1>2, <1>3, <1>4, <1>8
     DEF GPSAct, GPSPrintOn, GPSPrintOff, GPSLeave, KeyReset, NoKey
<1>9. CASE GSMAct \/ GSMWipe
  BY <1>1, <1>2, <1>3, <1>4, <1>9
     DEF GSMAct, GSMWipe, KeyLeave, DirectConnection, GSMSend, GSMWrite,
     GSMSequence, KeyReset, NoKey
<1>10. CASE IOAct
  BY <1>2, <1>3, <1>4, <1>10 DEF IOAct, IOPin, KeyLeave, KeyReset, NoKey
<1>11. CASE Interrupt \/ UNCHANGED vars
  BY <1>11 DEF Interrupt, Type, UART0, TickInput, TickTimer, vars
<1> QED
  BY <1>5, <1>6, <1>7, <1>8, <1>9, <1>10, <1>11 DEF Next, Task

(* What the reset block has assigned stays until its end. *)
LEMMA ResetProgressStep ==
  TypeOK /\ IndexInv /\ OneToken /\ ResetProgress /\ [Next]_vars
      => ResetProgress'
<1> SUFFICES ASSUME TypeOK, IndexInv, OneToken, ResetProgress, [Next]_vars,
                    pc'["init"] = "reset",
                    NEW j \in 1..Len(ResetOrder), j < idx'["init"],
                    ResetOrder[j] \notin Raised
             PROVE  flag'[ResetOrder[j]] = ResetValue(ResetOrder[j])
  BY DEF ResetProgress
<1>0. /\ flag \in [Flag -> {0, 1}] /\ idx \in [Mode -> 1..10] /\ "init" \in Mode
      /\ Len(ResetOrder) = 9
      /\ \A k \in 1..9 : ResetOrder[k] \in Flag \ ({"reset_flag"} \cup Forgotten)
  BY DEF TypeOK, ResetOrder, Flag, Mode, Forgotten
<1>1. CASE pc["init"] # "reset"
  BY <1>0, <1>1, ResetEntry DEF TestReset, IndexInv
<1>2. CASE pc["init"] = "reset" /\ ResetFlag
  <2>1. idx'["init"] = idx["init"] + 1 /\ idx["init"] \in 1..9
    BY <1>0, <1>2 DEF ResetFlag
  <2>2. flag' = [flag EXCEPT ![ResetOrder[idx["init"]]] =
                                 ResetValue(ResetOrder[idx["init"]])]
    BY <1>2 DEF ResetFlag, Set
  <2>3. CASE j = idx["init"]
    BY <1>0, <2>2, <2>3
  <2>4. CASE j < idx["init"]
    BY <1>0, <1>2, <2>2, <2>4 DEF ResetProgress
  <2> QED
    BY <1>0, <2>1, <2>3, <2>4
<1>3. CASE pc["init"] = "reset" /\ UNCHANGED vars
  BY <1>3 DEF ResetProgress, vars
<1>4. CASE pc["init"] = "reset" /\ Interrupt
  <2>1. flag[ResetOrder[j]] = ResetValue(ResetOrder[j])
    BY <1>4, InterruptEffect DEF ResetProgress
  <2> QED
    BY <1>0, <1>4, <2>1, InterruptEffect DEF Raised, Forgotten, ResetValue
<1>5. CASE pc["init"] = "reset" /\ ResetEnd
  BY <1>5 DEF ResetEnd, Goto, TypeOK, Mode
<1> QED
  BY <1>1, <1>2, <1>3, <1>4, <1>5, ResetSteps

LEMMA ResetFalls ==
  ASSUME IInv, [Next]_vars, flag["reset_flag"] = 1, flag'["reset_flag"] = 0
  PROVE  ResetEnd
<1>0. /\ flag \in [Flag -> {0, 1}] /\ "reset_flag" \in Flag
      /\ "init" \in Mode /\ "init" \notin Service
  BY DEF IInv, TypeOK, Flag, Mode, Service
<1>1. Holds("init") /\ pc["init"] \in {"recv", "top", "reset"}
  BY DEF IInv, ResetFirst
<1>2. ~Interrupt /\ ~UNCHANGED vars
  BY <1>0, InterruptEffect DEF IInv, vars
<1>3. CASE pc["init"] = "recv"
  <2>1. \A m \in Mode : pc[m] = "recv"
    <3>1. PICK m \in Mode : Holds(m) /\ \A n \in Mode \ {m} : Idle(n)
      BY DEF IInv, OneToken
    <3>2. ~Idle("init")
      BY <1>1, <1>3 DEF Holds, Idle
    <3>3. m = "init"
      BY <1>0, <3>1, <3>2
    <3> QED
      BY <1>3, <3>1, <3>3 DEF Idle
  <2>2. ASSUME NEW m \in Mode, Task(m) PROVE Receive(m)
    BY <2>1, <2>2 DEF Task, TestEnter, CopyKey, ClearBuffer, Enter, PollHit,
       PollMiss, InitTask, TestReset, ResetFlag, ResetEnd, InitAct, EndScan, TestReport,
       Transmit, Sent, TestCustom, SendCustom, CustomSent, GPSAct, GSMAct,
       GSMWipe, IOAct, Service, Mode
  <2> QED
    BY <1>2, <2>2 DEF Next, Receive
<1>4. CASE pc["init"] = "reset"
  <2>1. ASSUME ResetFlag PROVE FALSE
    <3>1. ResetOrder[idx["init"]] # "reset_flag"
      BY <2>1 DEF ResetFlag, ResetOrder, IInv, TypeOK, Mode
    <3> QED
      BY <1>0, <2>1, <3>1 DEF ResetFlag, Set
  <2> QED
    BY <1>2, <1>4, <2>1, ResetSteps DEF IInv
<1>5. CASE pc["init"] = "top"
  <2>1. InitTask => UNCHANGED flag
    BY <1>5 DEF InitTask, TestReset, ResetFlag, ResetEnd, InitAct, EndScan, TestReport,
       Transmit, Sent, TestCustom, SendCustom, CustomSent
  <2> QED
    BY <1>0, <1>2, <1>5, <2>1, StepOf
       DEF IInv, TestEnter, CopyKey, ClearBuffer
<1> QED
  BY <1>1, <1>3, <1>4, <1>5

LEMMA ResetCompletesStep == IInv /\ [Next]_vars => ResetCompletes
<1> SUFFICES ASSUME IInv, [Next]_vars,
                    flag["reset_flag"] = 1, flag'["reset_flag"] = 0
             PROVE  /\ \A f \in Flag \ (Raised \cup Forgotten) : flag'[f] = ResetValue(f)
                    /\ \A m \in Mode : chs'[m] = 0
  BY DEF ResetCompletes
<1>1. ResetEnd
  BY ResetFalls
<1>2. \A j \in 1..9 : ResetOrder[j] \notin Raised
          => flag[ResetOrder[j]] = ResetValue(ResetOrder[j])
  <2>1. idx["init"] = 10 /\ Len(ResetOrder) = 9
    BY <1>1 DEF ResetEnd, IInv, TypeOK, Mode, ResetOrder
  <2> QED
    BY <1>1, <2>1 DEF ResetEnd, IInv, ResetProgress
<1>3. \A f \in Flag \ (Raised \cup Forgotten \cup {"reset_flag"}) :
          \E j \in 1..9 : ResetOrder[j] = f
  <2>1. /\ ResetOrder[1] = "GPS_wflag" /\ ResetOrder[4] = "GSM_wflag"
        /\ ResetOrder[5] = "GSM_atcmd_flag" /\ ResetOrder[6] = "GSM_phnnmb_flag"
        /\ ResetOrder[8] = "send_cstm_sms_flag"
        /\ ResetOrder[9] = "GSM_seq_flag"
    BY DEF ResetOrder
  <2> QED
    BY <2>1 DEF Flag, Raised, Forgotten
<1>4. flag' = [flag EXCEPT !["reset_flag"] = 0] /\ flag \in [Flag -> {0, 1}]
  BY <1>1 DEF ResetEnd, Set, IInv, TypeOK
<1>5. ASSUME NEW f \in Flag \ (Raised \cup Forgotten) PROVE flag'[f] = ResetValue(f)
  <2>1. CASE f = "reset_flag"
    BY <1>4, <2>1 DEF ResetValue
  <2>2. CASE f # "reset_flag"
    <3>1. flag[f] = ResetValue(f)
      BY <1>2, <1>3, <2>2
    <3> QED
      BY <1>4, <2>2, <3>1
  <2> QED
    BY <2>1, <2>2
<1> QED
  BY <1>1, <1>5 DEF ResetEnd

(* The printing flag and the two connection flags. *)
LEMMA NmeaStep == IInv /\ [Next]_vars => NmeaOnlyInGPS'
<1> SUFFICES ASSUME IInv, [Next]_vars,
                    flag'["GPS_wflag"] = 1, flag'["reset_flag"] # 1
             PROVE  pc'["GPS"] \notin {"recv", "enter"}
  BY DEF NmeaOnlyInGPS
<1> DEFINE Good == pc'["GPS"] \notin {"recv", "enter"}
<1>0. /\ flag \in [Flag -> {0, 1}] /\ pc \in [Mode -> Label]
      /\ \A m \in {"init", "GPS", "GSM", "IO"} : m \in Mode
      /\ \A m \in Service : m \in Mode
      /\ "GPS_wflag" \in Flag /\ "reset_flag" \in Flag
  BY DEF IInv, TypeOK, Flag, Mode, Service
<1>1. flag["reset_flag"] = 0
  <2>1. SUFFICES ASSUME flag["reset_flag"] # 0 PROVE FALSE
    OBVIOUS
  <2>2. flag["reset_flag"] = 1 /\ flag'["reset_flag"] = 0
    BY <1>0, <2>1, FlagType DEF IInv
  <2>3. flag'["GPS_wflag"] = ResetValue("GPS_wflag")
    BY <1>0, <2>2, ResetCompletesStep DEF ResetCompletes, Raised, Forgotten
  <2> QED
    BY <2>3 DEF ResetValue
<1>2. ASSUME flag["GPS_wflag"] = 1, pc'["GPS"] = pc["GPS"] PROVE Good
  BY <1>1, <1>2 DEF IInv, NmeaOnlyInGPS
<1>3. ASSUME NEW m \in Mode, NEW l, Goto(m, l), l \notin {"recv", "enter"},
             flag["GPS_wflag"] = 1
      PROVE  Good
  BY <1>0, <1>2, <1>3 DEF Goto
<1>4. ASSUME NEW m \in Mode, m # "GPS", NEW l, Goto(m, l),
             flag["GPS_wflag"] = 1
      PROVE  Good
  BY <1>0, <1>2, <1>4 DEF Goto
<1>5. ASSUME NEW m \in Mode, m # "GPS", NEW d, HandOver(m, d),
             flag["GPS_wflag"] = 1
      PROVE  Good
  BY <1>4, <1>5 DEF HandOver
<1>6. ASSUME NEW m \in Mode, Again(m), flag["GPS_wflag"] = 1 PROVE Good
  BY <1>3, <1>6 DEF Again
<1>7. CASE Interrupt \/ UNCHANGED vars
  BY <1>0, <1>2, <1>7, InterruptEffect DEF IInv, vars
<1>8. CASE \E m \in Mode : TestEnter(m) \/ CopyKey(m) \/ ClearBuffer(m)
  BY <1>3, <1>8 DEF TestEnter, CopyKey, ClearBuffer
<1>9. ASSUME NEW m \in Mode, Receive(m) PROVE Good
  <2>1. pc[m] = "recv" /\ flag["GPS_wflag"] = 1
    BY <1>9 DEF Receive
  <2>2. m # "GPS"
    BY <1>1, <2>1 DEF IInv, NmeaOnlyInGPS
  <2> QED
    BY <1>4, <1>9, <2>1, <2>2 DEF Receive
<1>10. ASSUME NEW m \in Service, Enter(m) \/ PollHit(m) \/ PollMiss(m)
       PROVE  Good
  <2>1. m \in Mode /\ (m # "GPS" => flag["GPS_wflag"] = 1)
    BY <1>0, <1>10 DEF Enter, PollHit, PollMiss, Set
  <2>2. CASE m = "GPS"
    BY <1>0, <1>2, <1>3, <1>10, <2>1, <2>2 DEF Enter, PollHit, PollMiss, Set
  <2>3. CASE m # "GPS"
    BY <1>2, <1>4, <1>5, <1>10, <2>1, <2>3 DEF Enter, PollHit, PollMiss
  <2> QED
    BY <2>2, <2>3
<1>11. CASE InitTask
  <2>1. flag["GPS_wflag"] = 1
    <3>1. ResetValue("GPS_wflag") = 0
      BY DEF ResetValue
    <3> QED
      BY <1>0, <1>11, <3>1 DEF InitTask, TestReset, ResetFlag, ResetEnd,
         InitAct, EndScan, TestReport, Transmit, Sent, TestCustom, SendCustom,
         CustomSent, InitLeave, KeyLeave, Set
  <2> QED
    BY <1>0, <1>2, <1>4, <1>5, <1>11, <2>1 DEF InitTask, TestReset, ResetFlag,
       ResetEnd, InitAct, EndScan, TestReport, Transmit, Sent, TestCustom, SendCustom,
       CustomSent, InitLeave, KeyLeave
<1>12. CASE GPSAct
  <2>1. CASE GPSPrintOn
    BY <1>0, <2>1 DEF GPSPrintOn, Again, Goto
  <2>2. ASSUME KeyReset("GPS") PROVE FALSE
    BY <1>0, <2>2 DEF KeyReset, Set
  <2> QED
    BY <1>0, <1>6, <1>12, <2>1, <2>2
       DEF GPSAct, GPSPrintOff, GPSLeave, NoKey, Set
<1>13. CASE GSMAct \/ GSMWipe
  <2>1. flag["GPS_wflag"] = 1
    BY <1>0, <1>13 DEF GSMAct, GSMWipe, KeyLeave, DirectConnection, GSMSend,
       GSMWrite, GSMSequence, KeyReset, NoKey, Set, SetBoth
  <2> QED
    BY <1>0, <1>3, <1>5, <1>6, <1>13, <2>1
       DEF GSMAct, GSMWipe, KeyLeave, DirectConnection, GSMSend, GSMWrite,
       GSMSequence, KeyReset, NoKey
<1>14. CASE IOAct
  BY <1>0, <1>5, <1>6, <1>14 DEF IOAct, IOPin, KeyLeave, KeyReset, NoKey, Set
<1> QED
  BY <1>7, <1>8, <1>9, <1>10, <1>11, <1>12, <1>13, <1>14 DEF Next, Task

LEMMA DirectStep == IInv /\ [Next]_vars => DirectBothWays'
<1> SUFFICES ASSUME IInv, [Next]_vars, pc'["init"] # "reset"
             PROVE  flag'["GSM_wflag"] = flag'["GSM_atcmd_flag"]
  BY DEF DirectBothWays
<1> DEFINE Good == flag'["GSM_wflag"] = flag'["GSM_atcmd_flag"]
<1>0. /\ flag \in [Flag -> {0, 1}]
      /\ "GSM_wflag" \in Flag /\ "GSM_atcmd_flag" \in Flag
  BY DEF IInv, TypeOK, Flag
<1>1. CASE pc["init"] = "reset"
  <2>1. CASE ResetEnd
    <3>1. /\ ResetOrder[4] = "GSM_wflag" /\ ResetOrder[5] = "GSM_atcmd_flag"
          /\ Len(ResetOrder) = 9
          /\ "GSM_wflag" \notin Raised /\ "GSM_atcmd_flag" \notin Raised
      BY DEF ResetOrder, Raised
    <3>2. idx["init"] = 10
      BY <2>1, <3>1 DEF ResetEnd, IInv, TypeOK, Mode
    <3>3. flag["GSM_wflag"] = 1 /\ flag["GSM_atcmd_flag"] = 1
      BY <1>1, <3>1, <3>2 DEF IInv, ResetProgress, ResetValue
    <3> QED
      BY <1>0, <2>1, <3>3 DEF ResetEnd, Set
  <2>2. ~ResetFlag /\ (Interrupt \/ UNCHANGED vars => UNCHANGED pc)
    BY <1>1, InterruptEffect DEF ResetFlag, IInv, vars
  <2> QED
    BY <1>1, <2>1, <2>2, ResetSteps DEF IInv
<1>2. ASSUME flag["GSM_wflag"] = flag["GSM_atcmd_flag"],
             \/ UNCHANGED flag
             \/ \E f \in Flag \ {"GSM_wflag", "GSM_atcmd_flag"} : \E v : Set(f, v)
             \/ \E v : SetBoth("GSM_atcmd_flag", "GSM_wflag", v)
      PROVE  Good
  BY <1>0, <1>2 DEF Set, SetBoth
<1>3. CASE pc["init"] # "reset"
  <2>0. /\ flag["GSM_wflag"] = flag["GSM_atcmd_flag"]
        /\ \A f \in {"reset_flag", "sms_flag", "cnt2_flag", "GPS_wflag",
                     "send_cstm_sms_flag", "GSM_seq_flag", "GSM_cstmsms_flag",
                     "GSM_phnnmb_flag", "GSM_reset_flag"} :
               f \in Flag \ {"GSM_wflag", "GSM_atcmd_flag"}
    BY <1>3 DEF IInv, DirectBothWays, Flag
  <2>1. CASE Interrupt \/ UNCHANGED vars
    BY <1>0, <2>0, <2>1, InterruptEffect DEF IInv, vars
  <2>2. CASE \E m \in Mode : \/ Receive(m) \/ TestEnter(m)
                             \/ CopyKey(m) \/ ClearBuffer(m)
    BY <2>0, <2>2 DEF Receive, TestEnter, CopyKey, ClearBuffer
  <2>3. CASE \E m \in Service : Enter(m) \/ PollHit(m) \/ PollMiss(m)
    BY <1>0, <1>2, <2>0, <2>3 DEF Enter, PollHit, PollMiss
  <2>4. CASE InitTask
    BY <1>2, <1>3, <2>0, <2>4 DEF InitTask, TestReset, ResetFlag, ResetEnd,
       InitAct, EndScan, TestReport, Transmit, Sent, TestCustom, SendCustom, CustomSent,
       InitLeave, KeyLeave
  <2>5. CASE GPSAct
    BY <1>2, <2>0, <2>5
       DEF GPSAct, GPSPrintOn, GPSPrintOff, GPSLeave, KeyReset, NoKey
  <2>6. CASE GSMAct \/ GSMWipe
    BY <1>2, <2>0, <2>6 DEF GSMAct, GSMWipe, KeyLeave, DirectConnection,
       GSMSend, GSMWrite, GSMSequence, KeyReset, NoKey
  <2>7. CASE IOAct
    BY <1>2, <2>0, <2>7 DEF IOAct, IOPin, KeyLeave, KeyReset, NoKey
  <2> QED
    BY <2>1, <2>2, <2>3, <2>4, <2>5, <2>6, <2>7 DEF Next, Task
<1> QED
  BY <1>1, <1>3

(* The command bytes. *)
LEMMA KeyType == TypeOK /\ [Next]_vars => chs' \in [Mode -> 0..255]
<1> SUFFICES ASSUME TypeOK, [Next]_vars PROVE chs' \in [Mode -> 0..255]
  OBVIOUS
<1>0. chs \in [Mode -> 0..255] /\ rx[1] \in 0..255
  BY DEF TypeOK
<1>1. ASSUME NEW m, Forget(m) PROVE chs' \in [Mode -> 0..255]
  <2>1. 0 \in 0..255
    OBVIOUS
  <2>2. \A B : 0 \in B /\ chs \in [Mode -> B] => chs' \in [Mode -> B]
    BY <1>1 DEF Forget
  <2> QED
    BY <1>0, <2>1, <2>2
<1>2. ASSUME NEW m, CopyKey(m) PROVE chs' \in [Mode -> 0..255]
  <2>1. PICK b \in ByteBefore : chs' = [chs EXCEPT ![m] = b]
    BY <1>2 DEF CopyKey
  <2>2. b \in 0..255
    BY <1>0, ForeignAssumption DEF ByteBefore
  <2>3. \A B : b \in B /\ chs \in [Mode -> B] => chs' \in [Mode -> B]
    BY <2>1
  <2> QED
    BY <1>0, <2>2, <2>3
<1>3. ASSUME ResetEnd PROVE chs' \in [Mode -> 0..255]
  BY <1>3 DEF ResetEnd
<1>4. InitTask => ResetEnd \/ Forget("init") \/ UNCHANGED chs
  BY DEF InitTask, TestReset, ResetFlag, InitAct, EndScan, TestReport, Transmit, Sent,
     TestCustom, SendCustom, CustomSent, InitLeave, KeyLeave
<1>5. GPSAct => Forget("GPS") \/ UNCHANGED chs
  BY DEF GPSAct, GPSPrintOn, GPSPrintOff, GPSLeave, KeyReset, NoKey
<1>6. GSMAct \/ GSMWipe => Forget("GSM") \/ UNCHANGED chs
  BY DEF GSMAct, GSMWipe, KeyLeave, DirectConnection, GSMSend, GSMWrite,
     GSMSequence, KeyReset, NoKey
<1>7. IOAct => Forget("IO") \/ UNCHANGED chs
  BY DEF IOAct, IOPin, KeyLeave, KeyReset, NoKey
<1>8. Interrupt => UNCHANGED chs
  BY InterruptEffect
<1> QED
  BY <1>0, <1>1, <1>2, <1>3, <1>4, <1>5, <1>6, <1>7, <1>8 DEF Next, Task,
     Receive, TestEnter, ClearBuffer, Enter, PollHit, PollMiss, vars

(* The line that is being typed. *)
LineType == rx \in (0..255) \X (0..255) /\ place \in 0..2
LEMMA RxType == TypeOK /\ [Next]_vars => LineType'
<1> SUFFICES ASSUME TypeOK, [Next]_vars PROVE LineType'
  OBVIOUS
<1>0. rx \in (0..255) \X (0..255) /\ rx[2] \in 0..255
  BY DEF TypeOK
<1>a. place \in 0..2
  BY DEF TypeOK
<1>1. ASSUME NEW b \in Typed, UART0(b) PROVE LineType'
  <2>1. rx' \in (0..255) \X (0..255)
    BY <1>0, <1>1, TypedAssumption DEF UART0
  <2>2. place' \in 0..2
    BY <1>a, <1>1 DEF UART0
  <2> QED
    BY <2>1, <2>2 DEF LineType
<1>2. ASSUME rx' = <<0, 0>>, place' = 0 PROVE LineType'
  BY <1>2 DEF LineType
<1>b. ASSUME UNCHANGED lineVars PROVE LineType'
  BY <1>0, <1>a, <1>b DEF LineType, lineVars
<1>3. InitTask => UNCHANGED lineVars
  BY DEF InitTask, TestReset, ResetFlag, ResetEnd, InitAct, EndScan, TestReport,
     Transmit, Sent, TestCustom, SendCustom, CustomSent
<1> QED
  BY <1>1, <1>2, <1>3, <1>b DEF Next, Task, Interrupt, Type, TickInput,
     TickTimer, Receive, TestEnter, CopyKey, ClearBuffer, Enter, PollHit,
     PollMiss, GPSAct, GSMAct, GSMWipe, IOAct, vars

LEMMA InitKeyStep == IInv /\ [Next]_vars => InitKeyTakenOnce'
<1> SUFFICES ASSUME IInv, [Next]_vars, pc'["init"] \notin {"clear", "act"}
             PROVE  chs'["init"] \notin {Digit(1), Digit(2), Digit(3)}
  BY DEF InitKeyTakenOnce
<1> DEFINE Good == chs'["init"] \notin {Digit(1), Digit(2), Digit(3)}
<1>0. /\ chs \in [Mode -> 0..255] /\ pc \in [Mode -> Label]
      /\ \A m \in {"init", "GPS", "GSM", "IO"} : m \in Mode
      /\ \A m \in Service : m \in Mode /\ m # "init"
      /\ 0 \notin {Digit(1), Digit(2), Digit(3)}
  BY DEF IInv, TypeOK, Mode, Service, Digit
<1>1. ASSUME pc'["init"] = pc["init"], UNCHANGED chs PROVE Good
  BY <1>1 DEF IInv, InitKeyTakenOnce
<1>2. ASSUME chs'["init"] = 0 PROVE Good
  BY <1>0, <1>2
<1>3. ASSUME pc["init"] \notin {"clear", "act"}, UNCHANGED chs PROVE Good
  BY <1>3 DEF IInv, InitKeyTakenOnce
<1>4. CASE Interrupt \/ UNCHANGED vars
  BY <1>1, <1>4, InterruptEffect DEF IInv, vars
<1>5. ASSUME NEW m \in Mode, m # "init",
             pc'["init"] = pc["init"], chs'["init"] = chs["init"]
      PROVE  Good
  BY <1>5 DEF IInv, InitKeyTakenOnce
<1>6. ASSUME NEW m \in Mode, Receive(m) PROVE Good
  BY <1>0, <1>1, <1>3, <1>6 DEF Receive, Goto
<1>7. ASSUME NEW m \in Mode, TestEnter(m) \/ CopyKey(m) \/ ClearBuffer(m)
      PROVE  Good
  <2>1. CASE m = "init"
    BY <1>0, <1>3, <1>7, <2>1 DEF TestEnter, CopyKey, ClearBuffer, Goto
  <2>2. CASE m # "init"
    BY <1>0, <1>5, <1>7, <2>2 DEF TestEnter, CopyKey, ClearBuffer, Goto
  <2> QED
    BY <2>1, <2>2
<1>8. ASSUME NEW m \in Service, Enter(m) \/ PollHit(m) \/ PollMiss(m)
      PROVE  Good
  BY <1>0, <1>5, <1>8 DEF Enter, PollHit, PollMiss, Goto, Forget, HandOver
<1>9. CASE InitTask
  <2>1. CASE InitAct
    BY <1>0, <1>2, <2>1 DEF InitAct, InitLeave, KeyLeave, Forget
  <2>2. CASE ResetEnd
    BY <1>0, <1>2, <2>2 DEF ResetEnd
  <2> QED
    BY <1>3, <1>9, <2>1, <2>2 DEF InitTask, TestReset, ResetFlag, EndScan, TestReport,
       Transmit, Sent, TestCustom, SendCustom, CustomSent
<1>10. ASSUME NEW m \in Service, Forget(m) \/ UNCHANGED chs
       PROVE  chs'["init"] = chs["init"]
  BY <1>0, <1>10 DEF Forget
<1>11. ASSUME NEW m \in Service,
              (\E d : HandOver(m, d)) \/ Again(m) \/ Goto(m, "wipe")
       PROVE  pc'["init"] = pc["init"]
  BY <1>0, <1>11 DEF HandOver, Again, Goto
<1>12. /\ \A m \in {"GPS", "GSM", "IO"} : m \in Service
  BY DEF Service, Mode
<1>13. CASE GPSAct
  BY <1>0, <1>5, <1>10, <1>11, <1>12, <1>13
     DEF GPSAct, GPSPrintOn, GPSPrintOff, GPSLeave, KeyReset, NoKey
<1>14. CASE GSMAct \/ GSMWipe
  BY <1>0, <1>5, <1>10, <1>11, <1>12, <1>14
     DEF GSMAct, GSMWipe, KeyLeave, DirectConnection, GSMSend, GSMWrite,
     GSMSequence, KeyReset, NoKey
<1>15. CASE IOAct
  BY <1>0, <1>5, <1>10, <1>11, <1>12, <1>15
     DEF IOAct, IOPin, KeyLeave, KeyReset, NoKey
<1> QED
  BY <1>4, <1>6, <1>7, <1>8, <1>9, <1>13, <1>14, <1>15 DEF Next, Task

----------------------------------------------------------------------------
(* Who takes cnt2_flag down: init, when the report was sent or in a reset. *)
LEMMA TimerStep == IInv /\ [Next]_vars => TimerKept
<1> SUFFICES ASSUME IInv, [Next]_vars,
                    flag["cnt2_flag"] = 1, flag'["cnt2_flag"] = 0
             PROVE  pc["init"] \in {"transmit", "reset"}
  BY DEF TimerKept
<1>0. /\ flag \in [Flag -> {0, 1}] /\ "cnt2_flag" \in Flag
      /\ \A m \in {"GPS", "GSM", "IO"} : m \in Service
  BY DEF IInv, TypeOK, Flag, Service, Mode
<1>1. ~Interrupt /\ ~UNCHANGED vars
  <2>1. ASSUME NEW b \in Typed, UART0(b) PROVE FALSE
    BY <1>0, <2>1 DEF UART0
  <2> QED
    BY <1>0, <2>1 DEF Interrupt, Type, TickInput, TickTimer, Set, vars
<1>2. CASE InitTask
  BY <1>0, <1>2 DEF InitTask, TestReset, ResetFlag, ResetEnd, InitAct, EndScan,
     TestReport, Transmit, Sent, TestCustom, SendCustom, CustomSent,
     InitLeave, KeyLeave, Set
<1>3. CASE \E m \in Mode : \/ Receive(m) \/ TestEnter(m)
                           \/ CopyKey(m) \/ ClearBuffer(m)
  BY <1>0, <1>3 DEF Receive, TestEnter, CopyKey, ClearBuffer
<1>4. CASE \E m \in Service : Enter(m) \/ PollHit(m) \/ PollMiss(m)
  BY <1>0, <1>4 DEF Enter, PollHit, PollMiss, Set
<1>5. CASE GPSAct
  BY <1>0, <1>5
     DEF GPSAct, GPSPrintOn, GPSPrintOff, GPSLeave, KeyReset, NoKey, Set
<1>6. CASE GSMAct \/ GSMWipe
  BY <1>0, <1>6 DEF GSMAct, GSMWipe, KeyLeave, DirectConnection, GSMSend,
     GSMWrite, GSMSequence, KeyReset, NoKey, Set, SetBoth
<1>7. CASE IOAct
  BY <1>0, <1>7 DEF IOAct, IOPin, KeyLeave, KeyReset, NoKey, Set
<1> QED
  BY <1>1, <1>2, <1>3, <1>4, <1>5, <1>6, <1>7 DEF Next, Task

LEMMA IInvStep == IInv /\ [Next]_vars => IInv'
<1> SUFFICES ASSUME IInv, [Next]_vars PROVE IInv'
  OBVIOUS
<1>1. LabelInv' /\ IndexInv' /\ OneToken' /\ ResetFirst' /\ ResetProgress'
  BY LabelStep, IndexStep, TokenStep, ResetFirstStep, ResetProgressStep
     DEF IInv
<1>2. NmeaOnlyInGPS' /\ DirectBothWays' /\ InitKeyTakenOnce'
  BY NmeaStep, DirectStep, InitKeyStep
<1>3. TypeOK'
  BY TokenStep, LabelStep, IndexStep, FlagType, KeyType, RxType
     DEF IInv, TypeOK, LineType
<1> QED
  BY <1>1, <1>2, <1>3 DEF IInv

(* The inductive invariant holds: the theorems below are its parts, and    *)
(* what each says is stated there for the code.                            *)
THEOREM Invariance == Spec => []IInv
<1> QED
  BY InitIInv, IInvStep, PTL DEF Spec

(* The variables keep their types: no queue overflows, no index leaves its *)
(* list, every flag stays 0 or 1.                                          *)
THEOREM TypeCorrect == Spec => []TypeOK
<1>1. IInv => TypeOK
  BY DEF IInv
<1> QED
  BY <1>1, Invariance, PTL

(* One mode at a time, for every queue length: test_task's loops never run *)
(* together and no send blocks.                                            *)
THEOREM TokenSafe == Spec => []OneToken
<1>1. IInv => OneToken
  BY DEF IInv
<1> QED
  BY <1>1, Invariance, PTL

(* A reset that key 0 asked for comes before any other step of a task.     *)
THEOREM ResetSafe == Spec => []ResetFirst
<1>1. IInv => ResetFirst
  BY DEF IInv
<1> QED
  BY <1>1, Invariance, PTL

(* The receiver's text reaches the terminal in the GPS mode only.          *)
THEOREM NmeaSafe == Spec => []NmeaOnlyInGPS
<1>1. IInv => NmeaOnlyInGPS
  BY DEF IInv
<1> QED
  BY <1>1, Invariance, PTL

(* The two flags of the direct modem connection agree.                     *)
THEOREM DirectSafe == Spec => []DirectBothWays
<1>1. IInv => DirectBothWays
  BY DEF IInv
<1> QED
  BY <1>1, Invariance, PTL

(* No mode key is left in init_chs for the next visit to init.             *)
THEOREM InitKeySafe == Spec => []InitKeyTakenOnce
<1>1. IInv => InitKeyTakenOnce
  BY DEF IInv
<1> QED
  BY <1>1, Invariance, PTL

(* The reset block leaves the initial values, for every interleaving, but  *)
(* for requests raised anew and the one flag that it forgets.              *)
THEOREM ResetCompleteHolds == Spec => ResetComplete
<1>1. IInv /\ [Next]_vars => [ResetCompletes]_vars
  BY ResetCompletesStep
<1> QED
  BY <1>1, Invariance, PTL DEF Spec, ResetComplete

(* Between being raised by the tick hook and being answered by a report, a *)
(* two-minute request is taken down by a reset only.                       *)
THEOREM TimerSafe == Spec => TimerRequestKept
<1>1. IInv /\ [Next]_vars => [TimerKept]_vars
  BY TimerStep
<1> QED
  BY <1>1, Invariance, PTL DEF Spec, TimerRequestKept

----------------------------------------------------------------------------
(***************************************************************************)
(* Modes implements ModeControl.                                           *)
(***************************************************************************)
LEMMA ModeIs ==
  ASSUME OneToken, NEW m \in Mode, Holds(m)
  PROVE  Active = m
<1>1. \A n \in Mode : Holds(n) => n = m
  BY DEF OneToken, Holds, Idle
<1> QED
  BY <1>1 DEF Active

LEMMA RunningMode ==
  ASSUME OneToken, NEW m \in Mode, pc[m] # "recv"
  PROVE  Active = m /\ Holds(m)
<1>1. Holds(m)
  BY Holder DEF Holds
<1> QED
  BY <1>1, ModeIs

(* Init never hands over to itself, nor with a reset before it. *)
LEMMA InitSends ==
  ASSUME IInv, [Next]_vars, NEW d \in Mode, Sends("init", d)
  PROVE  d # "init" /\ pc["init"] \notin {"top", "reset"}
<1>0. /\ mail \in [Mode -> 0..QueueSize] /\ "init" \in Mode
      /\ "init" \notin Service /\ pc["init"] # "recv"
      /\ \A m \in {"GPS", "GSM", "IO"} : m \in Mode /\ m # "init"
  BY DEF IInv, TypeOK, Mode, Service, Sends
<1>1. mail' # mail
  BY <1>0 DEF Sends, HandOver
<1>2. ASSUME NEW e \in {"GPS", "GSM", "IO"}, HandOver("init", e)
      PROVE  d # "init"
  BY <1>0, <1>2 DEF Sends, HandOver
<1>3. ~Interrupt /\ ~UNCHANGED vars
  BY <1>1, InterruptEffect DEF IInv, vars
<1>4. InitTask
  BY <1>0, <1>1, <1>3, StepOf DEF IInv, TestEnter, CopyKey, ClearBuffer
<1>5. InitAct \/ Sent \/ CustomSent
  BY <1>1, <1>4 DEF InitTask, TestReset, ResetFlag, ResetEnd, EndScan,
     TestReport, Transmit, TestCustom, SendCustom
<1> QED
  BY <1>1, <1>2, <1>5 DEF InitAct, Sent, CustomSent, InitLeave, KeyLeave

(* reset_flag goes up in key 0 of a service mode only. *)
LEMMA ResetRises ==
  ASSUME IInv, [Next]_vars, flag["reset_flag"] = 0, flag'["reset_flag"] = 1
  PROVE  \E m \in Service : pc[m] = "act" /\ KeyReset(m)
<1>0. /\ flag \in [Flag -> {0, 1}] /\ "reset_flag" \in Flag
      /\ \A m \in {"GPS", "GSM", "IO"} : m \in Service
  BY DEF IInv, TypeOK, Flag, Service, Mode
<1>1. ~Interrupt /\ ~UNCHANGED vars
  BY <1>0, InterruptEffect DEF IInv, vars
<1>2. ~InitTask
  <2>1. ResetValue(ResetOrder[idx["init"]]) # 1 \/
        ResetOrder[idx["init"]] # "reset_flag"
    BY DEF ResetValue
  <2> QED
    BY <1>0, <2>1 DEF InitTask, TestReset, ResetFlag, ResetEnd, InitAct, EndScan,
       TestReport, Transmit, Sent, TestCustom, SendCustom, CustomSent,
       InitLeave, KeyLeave, Set
<1>3. CASE \E m \in Mode : \/ Receive(m) \/ TestEnter(m)
                           \/ CopyKey(m) \/ ClearBuffer(m)
  BY <1>0, <1>3 DEF Receive, TestEnter, CopyKey, ClearBuffer
<1>4. CASE \E m \in Service : Enter(m) \/ PollHit(m) \/ PollMiss(m)
  BY <1>0, <1>4 DEF Enter, PollHit, PollMiss, Set
<1>5. CASE GPSAct
  BY <1>0, <1>5
     DEF GPSAct, GPSPrintOn, GPSPrintOff, GPSLeave, NoKey, Set
<1>6. CASE GSMAct \/ GSMWipe
  BY <1>0, <1>6 DEF GSMAct, GSMWipe, KeyLeave, DirectConnection, GSMSend,
     GSMWrite, GSMSequence, NoKey, Set, SetBoth
<1>7. CASE IOAct
  BY <1>0, <1>7 DEF IOAct, IOPin, KeyLeave, NoKey
<1> QED
  BY <1>1, <1>2, <1>3, <1>4, <1>5, <1>6, <1>7 DEF Next, Task

LEMMA SimulationInit == Init => Abs!Init
<1> SUFFICES ASSUME Init PROVE Abs!Init
  OBVIOUS
<1>1. OneToken /\ Holds("init") /\ "init" \in Mode
  BY InitIInv DEF IInv, Init, Holds, Mode
<1>2. flag["reset_flag"] = 0
  BY DEF Init, Flag, ResetValue
<1> QED
  BY <1>1, <1>2, ModeIs DEF Abs!Init, Resetting

LEMMA SimulationStep == IInv /\ IInv' /\ [Next]_vars => [Abs!Next]_(Abs!vars)
<1> SUFFICES ASSUME IInv, IInv', [Next]_vars PROVE [Abs!Next]_(Abs!vars)
  OBVIOUS
<1> DEFINE reset == flag["reset_flag"]
<1>0. /\ TypeOK /\ OneToken /\ ResetFirst /\ OneToken'
      /\ reset \in {0, 1} /\ reset' \in {0, 1}
      /\ pc \in [Mode -> Label]
      /\ "init" \in Mode /\ \A m \in Service : m \in Mode /\ m # "init"
      /\ Mode = Abs!Mode
  BY DEF IInv, TypeOK, Flag, Mode, Service, Abs!Mode
<1>1. ASSUME NEW m \in Mode, Holds(m)' PROVE Active' = m
  <2>1. \A n \in Mode : Holds(n)' => n = m
    BY <1>0, <1>1 DEF OneToken, Holds, Idle
  <2> QED
    BY <1>1, <2>1 DEF Active
<1>2. CASE reset' = reset
  <2>1. ASSUME Active' = Active PROVE UNCHANGED Abs!vars
    BY <1>2, <2>1 DEF Abs!vars, Resetting
  <2>2. CASE UNCHANGED <<mail, pc>>
    BY <2>1, <2>2 DEF Active, Holds
  <2>3. ASSUME NEW m \in Mode, Receive(m) PROVE Active' = Active
    <3>1. mail[m] = 1 /\ pc[m] = "recv" /\ mail' = [mail EXCEPT ![m] = @ - 1]
          /\ pc'[m] # "recv" /\ mail[m] \in Nat
      BY <1>0, <2>3 DEF Receive, OneToken, Holds, Idle, Goto, TypeOK
    <3>2. Holds(m) /\ Holds(m)'
      BY <1>0, <3>1 DEF Holds, TypeOK
    <3> QED
      BY <1>0, <1>1, <3>2, ModeIs
  <2>4. ASSUME NEW m \in Mode, Works(m) PROVE Active' = Active
    <3>1. pc'[m] # "recv" /\ mail'[m] = 0
      BY <1>0, <2>4, Holder DEF Works, Goto
    <3> QED
      BY <1>0, <1>1, <2>4, <3>1, RunningMode DEF Works, Holds
  <2>5. ASSUME NEW m \in Mode, NEW d \in Mode, Sends(m, d)
        PROVE  Abs!Next
    <3>1. Active = m /\ pc[m] # "recv" /\ mail[m] = 0
          /\ \A n \in Mode \ {m} : Idle(n)
      BY <1>0, <2>5, RunningMode, Holder DEF Sends
    <3>2. mail'[d] = 1 /\ pc'[d] = "recv"
      BY <1>0, <2>5, <3>1 DEF Sends, HandOver, Goto, Idle, TypeOK
    <3>3. Active' = d
      BY <1>1, <3>2 DEF Holds
    <3>4. m = "init" => d # "init" /\ pc["init"] \notin {"top", "reset"}
      BY <2>5, InitSends
    <3>5. reset = 0
      BY <1>0, <3>1, <3>4, NoResetPending
    <3>6. Abs!Switch(d)
      BY <1>2, <3>1, <3>3, <3>4, <3>5 DEF Abs!Switch, Resetting
    <3> QED
      BY <1>0, <3>6 DEF Abs!Next
  <2> QED
    BY <1>0, <2>1, <2>2, <2>3, <2>4, <2>5, Shape
<1>3. CASE reset = 1 /\ reset' = 0
  <2>1. ResetEnd
    BY <1>3, ResetFalls
  <2>2. Active = "init" /\ mail["init"] = 0
    BY <1>0, <2>1, RunningMode, Holder DEF ResetEnd
  <2>3. Holds("init")'
    BY <1>0, <2>1, <2>2 DEF ResetEnd, Goto, Holds
  <2>4. Active' = "init"
    BY <1>0, <1>1, <2>3
  <2> QED
    BY <1>3, <2>2, <2>4 DEF Abs!Next, Abs!Reset, Resetting
<1>4. CASE reset = 0 /\ reset' = 1
  <2>1. PICK m \in Service : pc[m] = "act" /\ KeyReset(m)
    BY <1>4, ResetRises
  <2>2. Active = m /\ m \in Mode /\ m # "init" /\ Idle("init")
    BY <1>0, <2>1, RunningMode, Holder
  <2>3. Holds("init")'
    BY <1>0, <2>1, <2>2 DEF KeyReset, HandOver, Goto, Holds, Idle, TypeOK
  <2>4. Active' = "init"
    BY <1>0, <1>1, <2>3
  <2> QED
    BY <1>4, <2>2, <2>4 DEF Abs!Next, Abs!AskReset, Resetting
<1> QED
  BY <1>0, <1>2, <1>3, <1>4

(* Seen from outside, the tasks and interrupts behave as ModeControl: one  *)
(* mode at a time, and a reset that is asked for is the next thing done.   *)
THEOREM Refinement == Spec => ModeControlSpec
<1> QED
  BY SimulationInit, SimulationStep, Invariance, PTL
     DEF Spec, ModeControlSpec, Abs!Spec
=============================================================================
