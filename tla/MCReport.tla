------------------------------ MODULE MCReport ------------------------------
(* The instance of Report that TLC checks. *)
EXTENDS Report, TLC

CONSTANTS in1, in2
TwoPins == {in1, in2}
PinSymmetry == Permutations(TwoPins)

(* The ends of the range: the least and the greatest voltage.              *)
EndSamples == {0, MaxSample}
=============================================================================
