----------------------------- MODULE MCTerminal -----------------------------
(* The instance of Terminal that TLC checks. *)
EXTENDS Terminal

(* Enter, the end of a text, the keys 5 and 6, which start one, and a      *)
(* reset's.                                                                *)
Keys == {CR, Dash, Digit(0), Digit(5), Digit(6)}

SmallSize == [t \in Text |-> IF t = "sms" THEN 3 ELSE 2]

(* Before the ring: an upper byte of a counter, zero. *)
Zero == {0}

(* Two states are one if they differ only in what is overwritten before it *)
(* is read again, and agree on the invariants: the ring but for the bytes  *)
(* at the reader's pointers, the bytes rx has for a part of the ring that  *)
(* is not there, the contents of a text that is closed or not yet cleared, *)
(* and which of the two modes that read alike is on.                       *)
Reading == pc \in {"copy", "check"}
Read == {wptr - 1, wptr - 2} \union
        IF pc = "copy" THEN {seen - 1, seen - 2} ELSE {}
Told(t) == IF InStart(t) THEN <<early[t]>>
           ELSE IF writing[t] THEN <<early[t], text[t], told[t]>> ELSE <<>>
View ==
    <<IF mode = "GPS" THEN "IO" ELSE mode, pc, wptr,
      [i \in Index |-> IF i \in Read THEN ring[i] ELSE 0],
      IF pc \in {"copy", "check", "empty"} THEN <<IF at < 2 THEN 0 ELSE before, at>> ELSE <<>>,
      IF Reading THEN <<seen, rx>> ELSE <<0, <<IF wptr < 2 THEN 0 ELSE rx[1],
                                               IF wptr < 1 THEN 0 ELSE rx[2]>> >>,
      chs, reset_flag, starting, writing, count, moved,
      [t \in Text |-> Told(t)],
      LastTwo, TextRight, CommandRight>>
=============================================================================
