------------------------------- MODULE MCNmea -------------------------------
(* Sentences for the runs of Nmea: one G for $GP, two letters to a sign,   *)
(* of which the first is a G too, as it is of GSV and GGA; one byte to a   *)
(* field.  LL skips a field and takes two, SAT takes one.                  *)
EXTENDS Nmea

Comma == 44
LLText(v) == <<71, 71, 65, Comma, Comma, v, Comma, v, Comma>>
SATText(v) == <<71, 71, 86, Comma, v, Comma>>

MCOrder == <<"SAT", "LL">>
MCSign == [SAT |-> <<71, 86>>, LL |-> <<71, 65>>]
MCSkip == [SAT |-> <<1>>, LL |-> <<2, 1>>]
MCTexts == [SAT |-> {SATText(v) : v \in {49, 50}}, LL |-> {LLText(v) : v \in {49}}]
MCOthers == {<<71, 87, Comma>>}
NoOthers == {}
MCLayout == [t \in MCTexts.SAT \cup MCTexts.LL |->
    IF t \in MCTexts.SAT THEN <<[from |-> 5, to |-> 6, said |-> 0]>>
    ELSE <<[from |-> 6, to |-> 7, said |-> 0], [from |-> 8, to |-> 9, said |-> 1]>>]
MCSays == [t \in MCTexts.SAT \cup MCTexts.LL |->
              IF t \in MCTexts.SAT THEN <<t[5]>> ELSE <<t[6], t[8]>>]
=============================================================================
