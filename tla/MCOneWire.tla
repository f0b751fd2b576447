----------------------------- MODULE MCOneWire -----------------------------
(* The identifiers of the runs of OneWire. *)
EXTENDS OneWire

(* The CRC of four bits is the parity: it catches any one wrong bit.       *)
EvenIds == {d \in Id : (d[1] + d[2] + d[3] + d[4]) % 2 = 0}
=============================================================================
