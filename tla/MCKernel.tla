------------------------------ MODULE MCKernel ------------------------------
(* The instance of Kernel that TLC checks. *)
EXTENDS Kernel, TLC

CONSTANTS a, b, timer, idle, q1

(* Two mode tasks, the timer task above them and the idle task below.      *)
Tasks == {a, b, timer, idle}
Priorities == (a :> 2) @@ (b :> 2) @@ (timer :> 4) @@ (idle :> 0)
Order == (0 :> <<idle>>) @@ (1 :> <<>>) @@ (2 :> <<a, b>>) @@ (3 :> <<>>) @@ (4 :> <<timer>>)
OneQueue == {q1}

(* The mode tasks wait without a limit and delay; the timer task waits with*)
(* one.                                                                    *)
C(kind, ticks) == [kind |-> kind, queue |-> q1, ticks |-> ticks, then |-> "none"]
Program ==
    (a :> {C("receive", Ticks - 1), C("delay", 2)})
    @@ (b :> {C("send", Ticks - 1), C("delay", 1)})
    @@ (timer :> {C("receive", 2), C("send", 0)})
    @@ (idle :> {})

(* A wake time is read only of a task in a delay list.                     *)
View == <<ready, delayed, overflow, blocked, waitVars, next, [t \in Timed |-> wake[t]],
          timeVars, schedulerVars, interruptVars, queueVars, callVars, hooks>>
=============================================================================
