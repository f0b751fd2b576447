--------------------------- MODULE MCThermometer ---------------------------
(* What the slave measures: -10.6, 10.6 (one of the values that are read   *)
(* again) and 21 degrees.                                                  *)
EXTENDS Thermometer

Weather == {-170, 170, 336}
=============================================================================
