------------------------------ MODULE MCModes ------------------------------
(* The alphabets of the runs of Modes, and the view of its safety run. *)
EXTENDS Modes

(* Enter, the dash and every key but 8, which the timer's run has.         *)
MenuKeys == {CR, Dash} \union {Digit(n) : n \in 0..7}

(* Enter, the keys that change mode, the reset and a text.                 *)
WalkKeys == {CR} \union {Digit(n) : n \in {0, 1, 2, 3, 5}}

(* Enter, the way into GSM, periodic reports and the reset. *)
TimerKeys == {CR, Digit(0), Digit(2), Digit(8)}

(* What lies before the ring is no key, or one that leaves init. *)
NoForeign == {0}
ForeignKey == {0, Digit(2)}

(* Two states are one for the safety run if they differ only in bytes that *)
(* nothing can read any more: those that the pointer has left behind, the  *)
(* byte before the last when the last is not Enter and no copy is under    *)
(* way, and a service mode's command when it is no key at all, is about to *)
(* be overwritten, or will be cleared on entry.                            *)
Line == IF place = 0 THEN <<0, 0>>
        ELSE IF place = 2 /\ (rx[2] = CR \/ \E m \in Mode : pc[m] = "copy") THEN rx
        ELSE <<0, rx[2]>>
Command(m) == IF \/ chs[m] \in {CR, Dash}
                 \/ m \in Service /\ pc[m] \in {"recv", "enter", "copy"}
              THEN 0 ELSE chs[m]
View == <<mail, pc, idx, flag, Line, place, [m \in Mode |-> Command(m)]>>
=============================================================================
