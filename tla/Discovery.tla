----------------------------- MODULE Discovery -----------------------------
(***************************************************************************)
(* What a 1-Wire search promises: called again and again it goes through   *)
(* all slaves of the bus, each once, in the order of their identifiers     *)
(* with the first bit sent as the most significant one.  Once the bus is   *)
(* disturbed it promises only that what was listed stays.                  *)
(***************************************************************************)
EXTENDS Naturals, Sequences

VARIABLES
    slaves,     \* the identifiers of the slaves, sequences of bits
    quiet,      \* no noise yet, and no slave has come or gone
    listed      \* the identifiers found, in the order they were found

vars == <<slaves, quiet, listed>>

(* d comes before e in the search. *)
Before(d, e) ==
    \E j \in DOMAIN d : /\ d[j] = 0 /\ e[j] = 1
                        /\ \A i \in 1..j - 1 : d[i] = e[i]

Listed == {listed[i] : i \in DOMAIN listed}

Init == quiet = TRUE /\ listed = <<>>

Discover(d) ==
    /\ quiet
    /\ d \in slaves \ Listed
    /\ \A e \in slaves \ Listed : e = d \/ Before(d, e)
    /\ listed' = Append(listed, d)
    /\ UNCHANGED <<slaves, quiet>>

Disturbed ==
    /\ ~quiet'
    /\ Len(listed') >= Len(listed)
    /\ \A i \in DOMAIN listed : listed'[i] = listed[i]
    /\ UNCHANGED slaves

Next == (\E d \in slaves : Discover(d)) \/ Disturbed

Spec == Init /\ [][Next]_vars
=============================================================================
