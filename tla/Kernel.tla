------------------------------- MODULE Kernel -------------------------------
(***************************************************************************)
(* The FreeRTOS kernel as the firmware configures it: preemptive, equal    *)
(* priorities in turn, tick hook, vTaskSuspendAll.  Tasks send to and      *)
(* receive from queues, with a time to wait, and delay themselves; the tick*)
(* interrupt moves time on; interrupts may send and receive too, which the *)
(* kernel promises to bear though no interrupt of the firmware does.       *)
(* One step is one critical section, or what runs between two of them: an  *)
(* interrupt may come between any two steps, another task only while the   *)
(* scheduler is not suspended.  What a queue holds is only counted.        *)
(***************************************************************************)
EXTENDS Integers, SequencesExt

CONSTANTS
    Task,
    Priority,   \* per task: configured 0 (idle) to 4 (the timer task)
    Created,    \* per priority: its tasks, in the order of their creation
    Calls,      \* per task: the calls it may make; the idle task makes none
    Queue,
    Length,     \* uxLength of the queues
    IsrQueues,  \* the queues interrupts use
    Ticks,      \* 2^32: the number of values of the tick counter
    MaxMissed,  \* bound: ticks while the scheduler is suspended
    MaxLock     \* bound: what interrupts do to a locked queue

Level == 0..4
Tick == 0..Ticks - 1
portMAX_DELAY == Ticks - 1

(* What a task may wait for: to send to a queue or to receive from it.     *)
Side == {"send", "receive"}
Event == Queue \X Side
Other(e) == <<e[1], IF e[2] = "send" THEN "receive" ELSE "send">>

CallSet == [kind : Side, queue : Queue, ticks : Tick, then : {"none"}]
           \union [kind : {"delay"}, queue : Queue, ticks : Tick \ {0}, then : {"none"}]

ASSUME TaskAssumption ==
    /\ Priority \in [Task -> Level]
    /\ Created \in [Level -> Seq(Task)]
    /\ \A p \in Level : /\ IsInjective(Created[p])
                         /\ Range(Created[p]) = {t \in Task : Priority[t] = p}
ASSUME CallAssumption == Calls \in [Task -> SUBSET CallSet]
ASSUME IdleAssumption == \E t \in Task : Priority[t] = 0 /\ Calls[t] = {}
ASSUME TickAssumption == Ticks \in Nat /\ Ticks > 1
ASSUME QueueAssumption == Length \in Nat \ {0} /\ IsrQueues \subseteq Queue
ASSUME BoundAssumption == MaxMissed \in 0..Ticks - 1 /\ MaxLock \in Nat

VARIABLES
    ready,      \* pxReadyTasksLists, per priority
    delayed, overflow,  \* pxDelayedTaskList, pxOverflowDelayedTaskList
    blocked,    \* xSuspendedTaskList: those that wait without a limit
    pending,    \* xPendingReadyList
    waits,      \* per event: xTasksWaitingToSend, xTasksWaitingToReceive
    wake,       \* per task: the value of its list item, the time it wakes
    next,       \* xNextTaskUnblockTime
    tick,       \* xTickCount
    missed,     \* uxMissedTicks
    entry,      \* per task: its xTimeOut, and whether the counter began again
    current,    \* pxCurrentTCB
    suspended,  \* uxSchedulerSuspended
    xMissedYield,
    pendSV,     \* a context switch is requested
    masked,     \* the loop that runs with interrupts off, or "no"
    messages,   \* per queue: uxMessagesWaiting
    lock,       \* per event that it may wake: xRxLock, xTxLock
    pc, call,   \* per task: where it stands in which call
    left,       \* history: the ticks until its time is over
    hooks       \* history: the calls of the tick hook, as the counter counts

delayVars == <<delayed, overflow, blocked, wake, next>>
waitVars == <<pending, waits>>
listVars == <<ready, delayVars, waitVars>>
timeVars == <<tick, missed, entry>>
schedulerVars == <<current, suspended, xMissedYield>>
interruptVars == <<pendSV, masked>>
queueVars == <<messages, lock>>
callVars == <<pc, call, left>>
vars == <<listVars, timeVars, schedulerVars, interruptVars, queueVars, callVars, hooks>>

NoCall == [kind |-> "none", queue |-> CHOOSE q \in Queue : TRUE, ticks |-> 0,
           then |-> "none"]
NoEntry == [set |-> FALSE, tick |-> 0, wrapped |-> FALSE]

Init ==
    /\ ready = Created
    /\ delayed = <<>> /\ overflow = <<>> /\ blocked = {} /\ pending = <<>>
    /\ waits = [e \in Event |-> <<>>]
    /\ wake = [t \in Task |-> 0] /\ next = portMAX_DELAY
    /\ tick = 0 /\ missed = 0 /\ entry = [t \in Task |-> NoEntry]
    /\ \E t \in Task : /\ \A u \in Task : Priority[t] >= Priority[u]
                       /\ t = Last(ready[Priority[t]])
                       /\ current = t
    /\ suspended = FALSE /\ xMissedYield = FALSE
    /\ pendSV = FALSE /\ masked = "no"
    /\ messages = [q \in Queue |-> 0] /\ lock = [e \in Event |-> -1]
    /\ pc = [t \in Task |-> "run"] /\ call = [t \in Task |-> NoCall]
    /\ left = [t \in Task |-> 0] /\ hooks = 0

----------------------------------------------------------------------------
(* Lists.  A ready list is kept from the next task to the last one: taking *)
(* the next entry turns it, and vListInsertEnd, which inserts behind       *)
(* pxIndex and moves it, appends.                                          *)
uxListRemove(list, t) ==
    IF t \in Range(list) THEN RemoveAt(list, CHOOSE i \in DOMAIN list : list[i] = t)
    ELSE list

(* In order of the value, behind the entries of the same value.            *)
vListInsert(list, t, value) ==
    LET place == CHOOSE i \in 1..Len(list) + 1 :
                    /\ \A j \in 1..i - 1 : value[list[j]] <= value[t]
                    /\ i <= Len(list) => value[list[i]] > value[t]
    IN  InsertAt(list, place, t)

EventValue == [t \in Task |-> 5 - Priority[t]]
Top == CHOOSE p \in Level : /\ ready[p] # <<>>
                            /\ \A r \in p + 1..4 : ready[r] = <<>>

(* Both list items leave the lists they are in, and the task is ready.     *)
UnblockKeepsWaiting(t) ==
    /\ ready' = [ready EXCEPT ![Priority[t]] = Append(@, t)]
    /\ delayed' = uxListRemove(delayed, t) /\ overflow' = uxListRemove(overflow, t)
    /\ blocked' = blocked \ {t}
    /\ pending' = uxListRemove(pending, t)
    /\ UNCHANGED waits
Unblock(t) ==
    /\ ready' = [ready EXCEPT ![Priority[t]] = Append(@, t)]
    /\ delayed' = uxListRemove(delayed, t) /\ overflow' = uxListRemove(overflow, t)
    /\ blocked' = blocked \ {t}
    /\ pending' = uxListRemove(pending, t)
    /\ waits' = [e \in Event |-> uxListRemove(waits[e], t)]

(* The first task that waits: with the scheduler suspended it is only noted*)
(* as pending, and stays in the list it is delayed in.                     *)
xTaskRemoveFromEventList(e) ==
    /\ IF suspended
       THEN /\ waits' = [waits EXCEPT ![e] = Tail(@)]
            /\ pending' = Append(pending, Head(waits[e]))
            /\ UNCHANGED <<ready, delayed, overflow, blocked>>
       ELSE Unblock(Head(waits[e]))
    /\ UNCHANGED <<wake, next>>
Urgent(t) == Priority[t] >= Priority[current]

----------------------------------------------------------------------------
(* Time.                                                                   *)
NextWake(list) == IF list = <<>> THEN portMAX_DELAY ELSE wake[Head(list)]

(* The call of the tick hook at the end of vTaskIncrementTick: not when it *)
(* makes up for a missed tick, whose hook has been called (xTaskResumeAll  *)
(* takes the missed tick off its count only afterwards).                   *)
TickHook == hooks' = (hooks + 1) % Ticks
HookAlways == TickHook
HookUnlessMissed == IF missed = 0 THEN TickHook ELSE UNCHANGED hooks

(* vTaskIncrementTick: the tick counter moves on.  When it begins again the*)
(* lists are exchanged.  Then it looks for tasks whose time is over.       *)
vTaskIncrementTick(after) ==
    /\ tick' = (tick + 1) % Ticks
    /\ IF tick' = 0
       THEN /\ delayed' = overflow /\ overflow' = delayed
            /\ next' = NextWake(overflow)
            /\ entry' = [t \in Task |-> [entry[t] EXCEPT !.wrapped = entry[t].set]]
       ELSE UNCHANGED <<delayed, overflow, next, entry>>
    /\ masked' = IF tick' >= next' THEN "expire" ELSE after
    /\ HookUnlessMissed
    /\ UNCHANGED <<ready, blocked, waitVars, wake>>

(* prvCheckDelayedTasks, one turn of its loop; after the last one it goes  *)
(* on with the missed ticks of xTaskResumeAll, or the interrupt is over.   *)
prvCheckDelayedTasks ==
    /\ masked = "expire"
    /\ IF delayed # <<>> /\ wake[Head(delayed)] <= tick
       THEN Unblock(Head(delayed)) /\ UNCHANGED <<next, masked>>
       ELSE /\ next' = NextWake(delayed)
            /\ masked' = IF suspended THEN "drain" ELSE "no"
            /\ UNCHANGED <<ready, delayed, overflow, blocked, waitVars>>
    /\ UNCHANGED <<wake, timeVars, schedulerVars, pendSV, queueVars, callVars, hooks>>

AddKeepsNext(t, ticks) ==
    LET w == (tick + ticks) % Ticks
    IN  /\ wake' = [wake EXCEPT ![t] = w]
        /\ IF w < tick
           THEN overflow' = vListInsert(overflow, t, wake') /\ UNCHANGED <<delayed, next>>
           ELSE delayed' = vListInsert(delayed, t, wake') /\ UNCHANGED <<overflow, next>>
prvAddCurrentTaskToDelayedList(t, ticks) ==
    LET w == (tick + ticks) % Ticks
    IN  /\ wake' = [wake EXCEPT ![t] = w]
        /\ IF w < tick
           THEN overflow' = vListInsert(overflow, t, wake') /\ UNCHANGED <<delayed, next>>
           ELSE /\ delayed' = vListInsert(delayed, t, wake')
                /\ next' = IF w < next THEN w ELSE next
                /\ UNCHANGED overflow
LeaveReady(t) == ready' = [ready EXCEPT ![Priority[t]] = uxListRemove(@, t)]

----------------------------------------------------------------------------
(* Interrupts.                                                             *)
CountDown == [t \in Task |-> IF left[t] > 0 THEN left[t] - 1 ELSE 0]

(* Bound: the counter does not begin again twice while a call counts: the  *)
(* kernel could not tell (two rounds are 99 days).                         *)
RoundEnds == tick + missed = Ticks - 1
InTime == RoundEnds => \A t \in Task : ~entry[t].wrapped

SysTickKeepsTask ==
    /\ masked = "no" /\ InTime
    /\ IF ~suspended THEN vTaskIncrementTick("no") /\ UNCHANGED missed
       ELSE /\ missed < MaxMissed /\ missed' = missed + 1 /\ TickHook
            /\ UNCHANGED <<listVars, tick, entry, masked>>
    /\ left' = CountDown
    /\ UNCHANGED <<schedulerVars, pendSV, queueVars, pc, call>>
(* SysTick_Handler.  While the scheduler is suspended, vTaskIncrementTick  *)
(* counts the tick as missed and calls the hook: with a missed tick there, *)
(* not a second time at its end.                                           *)
SysTick ==
    /\ masked = "no" /\ InTime
    /\ pendSV' = TRUE
    /\ IF ~suspended THEN vTaskIncrementTick("no") /\ UNCHANGED missed
       ELSE /\ missed < MaxMissed /\ missed' = missed + 1 /\ TickHook
            /\ UNCHANGED <<listVars, tick, entry, masked>>
    /\ left' = CountDown
    /\ UNCHANGED <<schedulerVars, queueVars, pc, call>>

(* PendSV_Handler and vTaskSwitchContext.                                  *)
Turn == /\ current' = Head(ready[Top])
        /\ ready' = [ready EXCEPT ![Top] = Append(Tail(@), Head(@))]
PendSV ==
    /\ masked = "no" /\ pendSV /\ pendSV' = FALSE
    /\ IF suspended THEN xMissedYield' = TRUE /\ UNCHANGED <<ready, current>>
       ELSE Turn /\ UNCHANGED xMissedYield
    /\ UNCHANGED <<delayVars, waitVars, timeVars, suspended, masked, queueVars, callVars, hooks>>

(* Room for what is to be sent, or an item for a receiver.                 *)
Open(e) == IF e[2] = "send" THEN messages[e[1]] < Length ELSE messages[e[1]] > 0
Copy(e) == messages' = [messages EXCEPT ![e[1]] = @ + (IF e[2] = "send" THEN 1 ELSE -1)]

(* xQueueGenericSendFromISR, xQueueReceiveFromISR; the handler asks for a  *)
(* context switch when it is told to.  A failed call changes nothing.      *)
FromISR(e) ==
    /\ masked = "no"
    /\ Open(e) /\ Copy(e)
    /\ IF lock[Other(e)] >= 0
       THEN /\ lock[Other(e)] < MaxLock
            /\ lock' = [lock EXCEPT ![Other(e)] = @ + 1]
            /\ UNCHANGED <<listVars, pendSV>>
       ELSE /\ IF waits[Other(e)] = <<>> THEN UNCHANGED <<listVars, pendSV>>
               ELSE /\ xTaskRemoveFromEventList(Other(e))
                    /\ pendSV' = (pendSV \/ Urgent(Head(waits[Other(e)])))
            /\ UNCHANGED lock
    /\ UNCHANGED <<timeVars, schedulerVars, masked, callVars, hooks>>

Interrupt == SysTick \/ prvCheckDelayedTasks \/ PendSV
             \/ \E e \in IsrQueues \X Side : FromISR(e)

----------------------------------------------------------------------------
(* The running task: xQueueGenericSend, xQueueGenericReceive, vTaskDelay.  *)
At(label) == pc[current] = label /\ ~pendSV /\ masked = "no"
Goto(label) == pc' = [pc EXCEPT ![current] = label]
My == call[current]
MyEvent == <<My.queue, My.kind>>
Then(then) == call' = [call EXCEPT ![current].then = then]
Return == /\ Goto("run") /\ call' = [call EXCEPT ![current] = NoCall]
          /\ left' = [left EXCEPT ![current] = 0]
Forget == entry' = [entry EXCEPT ![current] = NoEntry]

Use ==
    /\ At("run")
    /\ \E c \in Calls[current] :
          /\ call' = [call EXCEPT ![current] = c]
          /\ Goto(IF c.kind = "delay" THEN "suspend" ELSE "try")
    /\ UNCHANGED <<listVars, timeVars, schedulerVars, interruptVars, queueVars, left, hooks>>

(* The first critical section of the loop, with room or an item.           *)
Succeed ==
    /\ At("try") /\ Open(MyEvent) /\ Copy(MyEvent)
    /\ IF waits[Other(MyEvent)] = <<>> THEN UNCHANGED <<listVars, pendSV>>
       ELSE /\ xTaskRemoveFromEventList(Other(MyEvent))
            /\ pendSV' = Urgent(Head(waits[Other(MyEvent)]))
    /\ Forget /\ Return
    /\ UNCHANGED <<tick, missed, schedulerVars, masked, lock, hooks>>

(* ... and without: the time to wait is over, or its count begins; of a    *)
(* call without a limit the count is never read.                           *)
Fail ==
    /\ At("try") /\ ~Open(MyEvent) /\ My.ticks = 0
    /\ Forget /\ Return
    /\ UNCHANGED <<listVars, tick, missed, schedulerVars, interruptVars, queueVars, hooks>>
vTaskSetTimeOutState ==
    entry' = [entry EXCEPT ![current] = [set |-> TRUE, tick |-> tick, wrapped |-> FALSE]]
Enter ==
    /\ At("try") /\ ~Open(MyEvent) /\ My.ticks # 0
    /\ IF entry[current].set \/ My.ticks = portMAX_DELAY THEN UNCHANGED <<entry, left>>
       ELSE vTaskSetTimeOutState /\ left' = [left EXCEPT ![current] = My.ticks]
    /\ Goto("suspend")
    /\ UNCHANGED <<listVars, tick, missed, schedulerVars, interruptVars, queueVars, call, hooks>>

vTaskSuspendAll ==
    /\ At("suspend")
    /\ suspended' = TRUE
    /\ IF My.kind = "delay"
       THEN Goto("delay") /\ left' = [left EXCEPT ![current] = My.ticks]
       ELSE Goto("lock") /\ UNCHANGED left
    /\ UNCHANGED <<listVars, timeVars, current, xMissedYield, interruptVars, queueVars, call, hooks>>

LockNothing ==
    /\ At("lock") /\ Goto("check")
    /\ UNCHANGED <<listVars, timeVars, schedulerVars, interruptVars, queueVars, call, left, hooks>>
prvLockQueue ==
    /\ At("lock") /\ Goto("check")
    /\ lock' = [e \in Event |-> IF e[1] = My.queue /\ lock[e] = -1 THEN 0 ELSE lock[e]]
    /\ UNCHANGED <<listVars, timeVars, schedulerVars, interruptVars, messages, call, left, hooks>>

(* A call without a limit does not look; the others take what has passed   *)
(* off the time they may still wait.                                       *)
Passed == (tick - entry[current].tick) % Ticks
TimedOut == /\ My.ticks # portMAX_DELAY
            /\ \/ entry[current].wrapped /\ tick >= entry[current].tick
               \/ Passed >= My.ticks
xTaskCheckForTimeOut ==
    /\ At("check")
    /\ IF TimedOut THEN Then("fail") /\ Goto("unlockTx") /\ UNCHANGED entry
       ELSE IF My.ticks = portMAX_DELAY THEN Goto("test") /\ UNCHANGED <<entry, call>>
       ELSE /\ call' = [call EXCEPT ![current].ticks = @ - Passed]
            /\ vTaskSetTimeOutState
            /\ Goto("test")
    /\ UNCHANGED <<listVars, tick, missed, schedulerVars, interruptVars, queueVars, left, hooks>>

(* prvIsQueueFull, prvIsQueueEmpty.                                        *)
Test ==
    /\ At("test")
    /\ IF Open(MyEvent) THEN Then("retry") /\ Goto("unlockTx")
       ELSE Then("wait") /\ Goto("place")
    /\ UNCHANGED <<listVars, timeVars, schedulerVars, interruptVars, queueVars, left, hooks>>

vTaskPlaceOnEventList ==
    /\ At("place") /\ Goto("unlockTx")
    /\ LeaveReady(current)
    /\ waits' = [waits EXCEPT ![MyEvent] = vListInsert(@, current, EventValue)]
    /\ IF My.ticks = portMAX_DELAY
       THEN blocked' = blocked \union {current} /\ UNCHANGED <<delayed, overflow, wake, next>>
       ELSE prvAddCurrentTaskToDelayedList(current, My.ticks) /\ UNCHANGED blocked
    /\ UNCHANGED <<pending, timeVars, schedulerVars, interruptVars, queueVars, call, left, hooks>>

(* prvUnlockQueue, a critical section per side: as many tasks are woken as *)
(* interrupts found the queue locked, while any waits.                     *)
Unlock(e) ==
    LET waiting == waits[e]
        n == IF lock[e] > Len(waiting) THEN Len(waiting)
             ELSE IF lock[e] > 0 THEN lock[e] ELSE 0
    IN  /\ waits' = [waits EXCEPT ![e] = SubSeq(waiting, n + 1, Len(waiting))]
        /\ pending' = pending \o SubSeq(waiting, 1, n)
        /\ xMissedYield' = (xMissedYield \/ \E i \in 1..n : Urgent(waiting[i]))
        /\ lock' = [lock EXCEPT ![e] = -1]
        /\ UNCHANGED <<ready, delayVars, timeVars, current, suspended, interruptVars, messages,
                       call, left, hooks>>
UnlockTx == At("unlockTx") /\ Unlock(<<My.queue, "receive">>) /\ Goto("unlockRx")
UnlockRx == At("unlockRx") /\ Unlock(<<My.queue, "send">>) /\ Goto("resume")

(* The body of vTaskDelay, with the scheduler suspended.                   *)
vTaskDelay ==
    /\ At("delay") /\ Goto("resume") /\ Then("sleep")
    /\ LeaveReady(current)
    /\ prvAddCurrentTaskToDelayedList(current, My.ticks)
    /\ UNCHANGED <<blocked, waitVars, timeVars, schedulerVars, interruptVars, queueVars, left, hooks>>

(* xTaskResumeAll, a critical section with two loops: the pending tasks,   *)
(* and then the missed ticks.  The count of the suspensions is taken down  *)
(* at its end: with interrupts off only vTaskIncrementTick looks at it.    *)
xTaskResumeAll ==
    /\ At("resume") /\ masked' = "drain"
    /\ UNCHANGED <<listVars, timeVars, schedulerVars, pendSV, queueVars, callVars, hooks>>
DrainPending ==
    /\ masked = "drain" /\ pending # <<>>
    /\ Unblock(Head(pending))
    /\ pendSV' = (pendSV \/ Urgent(Head(pending)))
    /\ UNCHANGED <<wake, next, timeVars, schedulerVars, masked, queueVars, callVars, hooks>>
ReplayTick ==
    /\ masked = "drain" /\ pending = <<>> /\ missed > 0
    /\ vTaskIncrementTick("drain") /\ missed' = missed - 1
    /\ pendSV' = TRUE
    /\ UNCHANGED <<schedulerVars, queueVars, callVars>>

(* The end of it, and where the call goes on.                              *)
Continue ==
    CASE My.then = "fail" -> Return /\ Forget
      [] My.then = "retry" -> Goto("try") /\ UNCHANGED <<call, left, entry>>
      [] My.then \in {"wait", "sleep"} ->
            /\ Goto(IF pendSV' THEN "back" ELSE "yield")
            /\ UNCHANGED <<call, left, entry>>
Resumed ==
    /\ masked = "drain" /\ pending = <<>> /\ missed = 0
    /\ masked' = "no" /\ suspended' = FALSE
    /\ pendSV' = (pendSV \/ xMissedYield) /\ xMissedYield' = FALSE
    /\ Continue
    /\ UNCHANGED <<listVars, tick, missed, current, queueVars, hooks>>

(* portYIELD_WITHIN_API; a task that comes back tries again, or its delay  *)
(* is over.                                                                *)
Yield ==
    /\ At("yield") /\ Goto("back") /\ pendSV' = TRUE
    /\ UNCHANGED <<listVars, timeVars, schedulerVars, masked, queueVars, call, left, hooks>>
Back ==
    /\ At("back")
    /\ IF My.kind = "delay" THEN Return
       ELSE Goto("try") /\ UNCHANGED <<call, left>>
    /\ UNCHANGED <<listVars, timeVars, schedulerVars, interruptVars, queueVars, hooks>>

Resume == xTaskResumeAll \/ DrainPending \/ ReplayTick \/ Resumed
Run == Use \/ Succeed \/ Fail \/ Enter \/ vTaskSuspendAll \/ prvLockQueue
       \/ xTaskCheckForTimeOut \/ Test \/ vTaskPlaceOnEventList \/ UnlockTx
       \/ UnlockRx \/ vTaskDelay \/ Resume \/ Yield \/ Back

Next == Interrupt \/ Run

Spec == Init /\ [][Next]_vars

----------------------------------------------------------------------------
Ready(t) == t \in Range(ready[Priority[t]])
Timed == Range(delayed) \union Range(overflow)
Waiting == UNION {Range(waits[e]) : e \in Event}
Sorted(list, value) == \A i, j \in DOMAIN list : i < j => value[list[i]] <= value[list[j]]

(* Every task is in one state list, and in at most one list of waiting     *)
(* tasks; the lists are in their order, and one that waits is not ready.   *)
TypeOK ==
    /\ tick \in Tick /\ next \in Tick /\ missed \in 0..MaxMissed
    /\ messages \in [Queue -> 0..Length]
    /\ lock \in [Event -> -1..MaxLock]
    /\ \A p \in Level : IsInjective(ready[p]) /\ \A t \in Range(ready[p]) : Priority[t] = p
    /\ IsInjective(delayed) /\ Sorted(delayed, wake)
    /\ IsInjective(overflow) /\ Sorted(overflow, wake)
    /\ \A t \in Task :
          \/ Ready(t) /\ t \notin Timed /\ t \notin blocked
          \/ t \in blocked /\ ~Ready(t) /\ t \notin Timed
          \/ t \in Timed /\ ~Ready(t) /\ t \notin blocked
    /\ Range(delayed) \intersect Range(overflow) = {}
    /\ \A e \in Event : IsInjective(waits[e]) /\ Sorted(waits[e], EventValue)
    /\ \A d, e \in Event : d # e => Range(waits[d]) \intersect Range(waits[e]) = {}
    /\ \A t \in Waiting \union Range(pending) : ~Ready(t)
    /\ Waiting \intersect Range(pending) = {} /\ IsInjective(pending)
    /\ blocked \subseteq Waiting \union Range(pending)
    /\ ~suspended => pending = <<>> /\ missed = 0 /\ ~xMissedYield

(* When no context switch is asked for and the scheduler runs, the task    *)
(* that runs is ready and none of a higher priority is: no wake-up, by a   *)
(* call, an interrupt or a tick, forgets to ask.  Only a task that has just*)
(* put itself to sleep is still on its way to yield.                       *)
HighestRuns ==
    \/ pendSV \/ suspended \/ pc[current] = "yield"
    \/ Ready(current) /\ Priority[current] = Top

(* A task waits for a queue that is not in its way only until the lock is  *)
(* taken off it, or a task that was woken comes to look at the queue.      *)
Looks(t, e) == /\ <<call[t].queue, call[t].kind>> = e /\ t \notin Waiting
               /\ pc[t] # "run" /\ call[t].then # "fail"
NoLostWakeUp ==
    \A e \in Event :
        waits[e] # <<>> /\ Open(e) => lock[e] > 0 \/ \E t \in Task : Looks(t, e)

(* Time is kept.  The tick hook is called once a tick; a task is in the    *)
(* delay lists exactly as long as its time is not over, however the counter*)
(* begins again and however late the ticks are counted; and no delay ends  *)
(* and no call gives up before.                                            *)
Remaining(t) == (wake[t] - tick) % Ticks
TimeKept ==
    /\ (tick + missed) % Ticks = hooks
    /\ \A t \in Timed :
          /\ Remaining(t) > 0 \/ masked = "expire"
          /\ left[t] = IF Remaining(t) > missed THEN Remaining(t) - missed ELSE 0
    /\ \A t \in Task : call[t].kind = "delay" /\ Ready(t) /\ pc[t] \in {"yield", "back"}
                            => left[t] = 0
    /\ \A t \in Task : call[t].then = "fail" => left[t] = 0
=============================================================================
