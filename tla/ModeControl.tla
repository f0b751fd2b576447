---------------------------- MODULE ModeControl ----------------------------
(***************************************************************************)
(* What the four tasks of main.c promise together, with every flag, queue  *)
(* and interrupt hidden: the tracker is in exactly one mode at a time, any *)
(* of the three service modes can ask for a reset, a reset is carried out  *)
(* in the init mode and nothing else happens until it is finished.         *)
(***************************************************************************)

VARIABLES
    mode,       \* the mode that is running, or that the token is on its way to
    resetting   \* a reset has been asked for and is not finished

vars == <<mode, resetting>>

Mode == {"init", "GPS", "GSM", "IO"}        \* main.c's TaskEnumType

TypeOK == mode \in Mode /\ resetting \in BOOLEAN

Init == mode = "init" /\ resetting = FALSE

(* A mode hands over to another one; init never hands over to itself.      *)
Switch(m) ==
    /\ ~resetting
    /\ mode = "init" => m # "init"
    /\ mode' = m
    /\ UNCHANGED resetting

(* Key 0 in a service mode: go to init and reset there.                    *)
AskReset ==
    /\ ~resetting
    /\ mode # "init"
    /\ mode' = "init"
    /\ resetting' = TRUE

(* The reset block of the init mode has run to its end.                    *)
Reset ==
    /\ resetting
    /\ mode = "init"
    /\ resetting' = FALSE
    /\ UNCHANGED mode

Next == (\E m \in Mode : Switch(m)) \/ AskReset \/ Reset

Spec == Init /\ [][Next]_vars
=============================================================================
