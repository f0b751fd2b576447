---------------------------- MODULE KernelProofs ----------------------------
(***************************************************************************)
(* Proofs about Kernel, for every set of tasks, calls and queues and every *)
(* width of the tick counter: that the task that runs is the most urgent   *)
(* one, that the lists are as TypeOK has them, that no wake-up is lost, and*)
(* that time is kept.  The invariant has four layers, each kept by the     *)
(* steps as long as the ones before it are:                                *)
(*   Control   types, the stages of a call, the suspension of the          *)
(*             scheduler, who may run;                                     *)
(*   Lists     the state lists and the lists of waiting tasks;             *)
(*   WakeUps   who waits, and who is on the way to the queue;              *)
(*   Times     the delay lists and the counts against the tick counter.    *)
(* The lemmas come with the layer that first needs them, those about lists *)
(* before all.                                                             *)
(***************************************************************************)
EXTENDS Kernel, SequenceTheorems, FiniteSetTheorems, WellFoundedInduction, TLAPS

----------------------------------------------------------------------------
(* The invariants.  Each part rests on the parts before it.                *)

(* Types, and the place of a call that each task is at.                    *)
Stage == {"run", "try", "suspend", "lock", "check", "test", "place", "unlockTx",
          "unlockRx", "delay", "resume", "yield", "back"}
CallType == [kind : Side \union {"delay"}, queue : Queue, ticks : Tick,
             then : {"none", "fail", "retry", "wait", "sleep"}]
EntryType == [set : BOOLEAN, tick : Tick, wrapped : BOOLEAN]
ListTypes ==
    /\ ready \in [Level -> Seq(Task)]
    /\ \A p \in Level : \A t \in Range(ready[p]) : Priority[t] = p
    /\ delayed \in Seq(Task) /\ overflow \in Seq(Task) /\ blocked \subseteq Task
    /\ pending \in Seq(Task) /\ waits \in [Event -> Seq(Task)]
    /\ wake \in [Task -> Tick] /\ next \in Tick
TimeTypes ==
    /\ tick \in Tick /\ missed \in 0..MaxMissed /\ entry \in [Task -> EntryType]
    /\ left \in [Task -> Nat] /\ hooks \in Tick
QueueTypes == messages \in [Queue -> 0..Length] /\ lock \in [Event -> -1..MaxLock]
SchedulerTypes ==
    /\ current \in Task /\ suspended \in BOOLEAN /\ xMissedYield \in BOOLEAN
    /\ pendSV \in BOOLEAN /\ masked \in {"no", "drain", "expire"}
CallTypes == pc \in [Task -> Stage] /\ call \in [Task -> CallType \union {NoCall}]
Types == ListTypes /\ TimeTypes /\ QueueTypes /\ SchedulerTypes /\ CallTypes

Ending == {"unlockTx", "unlockRx", "resume"}
StageOf(t) ==
    /\ pc[t] = "run" <=> call[t] = NoCall
    /\ Calls[t] = {} => pc[t] = "run"
    /\ call[t].kind = "delay" =>
          pc[t] \in {"suspend", "delay", "resume", "yield", "back"}
    /\ pc[t] = "delay" => call[t].kind = "delay"
    /\ pc[t] = "place" => call[t].then = "wait"
    /\ pc[t] \in Ending => IF call[t].kind = "delay" THEN call[t].then = "sleep"
                           ELSE call[t].then \in {"fail", "retry", "wait"}
    /\ pc[t] \in {"yield", "back"} => call[t].then \in {"wait", "sleep"}
    /\ call[t].then = "fail" => pc[t] \in Ending
    /\ pc[t] \notin {"run", "try"} => call[t].ticks > 0
Stages == \A t \in Task : StageOf(t)

(* The scheduler is suspended while the running task is in this part of its*)
(* call, and the loops with interrupts off belong to where they are run.   *)
Suspending == {"lock", "check", "test", "place", "unlockTx", "unlockRx", "delay", "resume"}
Suspension ==
    /\ suspended <=> pc[current] \in Suspending
    /\ \A t \in Task \ {current} : pc[t] \notin Suspending
    /\ masked = "drain" => suspended
    /\ masked # "no" /\ suspended => pc[current] = "resume"
    /\ masked = "expire" => pendSV

(* A task that is not ready waits or sleeps, or is about to; if it is the  *)
(* running one, it is about to be switched away from.                      *)
Resting ==
    /\ \A t \in Task : ~Ready(t) =>
          \/ pc[t] \in {"yield", "back"}
          \/ pc[t] \in Ending /\ call[t].then \in {"wait", "sleep"}
    /\ ~Ready(current) => suspended \/ pendSV \/ pc[current] = "yield"

(* Unless a context switch is asked for, or the scheduler is suspended and *)
(* has not made up for what it missed, no ready task is more urgent.       *)
NoneAbove == \A p \in Level : p > Priority[current] => ready[p] = <<>>
Urgency == ~pendSV \/ (suspended /\ masked = "no") => NoneAbove

Control == Types /\ Stages /\ Suspension /\ Resting /\ Urgency

(* The lists, as TypeOK has them.                                          *)
StateLists ==
    /\ \A p \in Level : IsInjective(ready[p])
    /\ IsInjective(delayed) /\ Sorted(delayed, wake)
    /\ IsInjective(overflow) /\ Sorted(overflow, wake)
    /\ \A t \in Task : Ready(t) => t \notin Timed /\ t \notin blocked
    /\ \A t \in Task : Ready(t) \/ t \in Timed \/ t \in blocked
    /\ blocked \intersect Timed = {}
    /\ Range(delayed) \intersect Range(overflow) = {}
WaitLists ==
    /\ \A e \in Event : IsInjective(waits[e]) /\ Sorted(waits[e], EventValue)
    /\ \A d, e \in Event : d # e => Range(waits[d]) \intersect Range(waits[e]) = {}
    /\ \A t \in Task : Ready(t) => t \notin Waiting /\ t \notin Range(pending)
    /\ Waiting \intersect Range(pending) = {} /\ IsInjective(pending)
    /\ blocked \subseteq Waiting \union Range(pending)
Caught == ~suspended => pending = <<>> /\ missed = 0 /\ ~xMissedYield
Lists == StateLists /\ WaitLists /\ Caught

(* A task in a list of waiting tasks, or taken from one, has come to the   *)
(* end of a call for that event.                                           *)
Waits(t) == /\ call[t].then = "wait" /\ call[t].kind \in Side
            /\ pc[t] \in Ending \union {"yield", "back"}
Waiters ==
    /\ \A e \in Event : \A t \in Range(waits[e]) : Waits(t) /\ <<call[t].queue, call[t].kind>> = e
    /\ \A t \in Range(pending) : Waits(t)

(* There are as many items for the tasks that wait, or room, as interrupts *)
(* noted in the lock and tasks are on their way to the queue.              *)
Available(e) == IF e[2] = "send" THEN Length - messages[e[1]] ELSE messages[e[1]]
Noted(e) == IF lock[e] > 0 THEN lock[e] ELSE 0
Lookers(e) ==
    {t \in Task : /\ <<call[t].queue, call[t].kind>> = e /\ t \notin Waiting
                  /\ \/ pc[t] \in {"try", "yield", "back"}
                     \/ pc[t] \in Ending /\ call[t].then \in {"retry", "wait"}}
Locked == pc[current] \in {"check", "test", "place"} =>
             \A e \in Event : e[1] = call[current].queue => lock[e] >= 0
Counted ==
    /\ \A e \in Event : waits[e] # <<>> => Available(e) <= Noted(e) + Cardinality(Lookers(e))
    /\ pc[current] = "place" => Available(MyEvent) <= Noted(MyEvent)
WakeUps == Waiters /\ Locked /\ Counted

(* The delay lists against the counter.                                    *)
DelayLists ==
    /\ \A t \in Range(delayed) : /\ wake[t] >= tick
                                 /\ masked # "expire" => wake[t] > tick /\ wake[t] >= next
    /\ \A t \in Range(overflow) : wake[t] < tick

(* What is left of a task's time: by its wake time, by the count of its    *)
(* call, and by the ticks it is to sleep.                                  *)
Off(n) == IF n > missed THEN n - missed ELSE 0
Elapsed(t) == tick - entry[t].tick + (IF entry[t].wrapped THEN Ticks ELSE 0)
EntryOf(t) ==
    /\ entry[t].wrapped => entry[t].set /\ tick + missed < Ticks
    /\ entry[t].set => /\ call[t].kind \in Side /\ call[t].ticks # portMAX_DELAY
                       /\ Elapsed(t) >= 0
                       /\ left[t] = Off(call[t].ticks - Elapsed(t))
    /\ call[t].kind \in Side /\ call[t].ticks # portMAX_DELAY /\ pc[t] # "try"
          => entry[t].set
    /\ pc[t] \in {"test", "place"} /\ entry[t].set => Elapsed(t) = 0
Entries == \A t \in Task : EntryOf(t)
Sleeps ==
    /\ \A t \in Timed : left[t] = Off(Remaining(t))
    /\ \A t \in Task : pc[t] = "delay" => left[t] = Off(call[t].ticks)
    /\ \A t \in Task : call[t].kind = "delay" /\ Ready(t) /\ pc[t] \in {"resume", "yield", "back"}
                          => left[t] = 0
    /\ \A t \in Task : call[t].then = "fail" => left[t] = 0
Hooks == (tick + missed) % Ticks = hooks
Times == DelayLists /\ Entries /\ Sleeps /\ Hooks

----------------------------------------------------------------------------
(* Lists.                                                                  *)

(* A set of numbers has a least one.                                       *)
LEMMA Least ==
    ASSUME NEW S \in SUBSET Nat, S # {}
    PROVE  \E x \in S : \A y \in S : x <= y
<1> DEFINE Less == {p \in Nat \X Nat : p[1] < p[2]}
<1>1. IsWellFoundedOn(Less, Nat)
  BY NatLessThanWellFounded DEF OpToRel
<1>2. \E x \in S : \A y \in S : <<y, x>> \notin Less
  <2> HIDE DEF Less
  <2> QED BY <1>1, WFMin
<1>3. \A x, y \in Nat : <<y, x>> \notin Less => x <= y
  OBVIOUS
<1> HIDE DEF Less
<1> QED BY <1>2, <1>3

(* A part of a list that lies in it.                                       *)
LEMMA PartOf ==
    ASSUME NEW S, NEW s \in Seq(S), NEW m \in 1..Len(s) + 1, NEW n \in m - 1..Len(s)
    PROVE  /\ SubSeq(s, m, n) \in Seq(S)
           /\ Len(SubSeq(s, m, n)) = n - m + 1
           /\ \A j \in 1..n - m + 1 : SubSeq(s, m, n)[j] = s[j + m - 1]
<1>1. Len(s) \in Nat /\ \A i \in 1..Len(s) : s[i] \in S
  BY LenProperties, ElementOfSeq
<1>2. m \in Int /\ n \in Int /\ \A i \in m..n : s[i] \in S
  BY <1>1
<1> DEFINE v == SubSeq(s, m, n)
<1>3. Len(v) = IF m <= n THEN n - m + 1 ELSE 0
  BY <1>2, SubSeqProperties
<1>4. v \in Seq(S) /\ \A j \in 1..n - m + 1 : v[j] = s[m + j - 1]
  BY <1>2, SubSeqProperties
<1> HIDE DEF v
<1>5. Len(v) = n - m + 1
  BY <1>1, <1>3
<1>6. ASSUME NEW j \in 1..n - m + 1 PROVE v[j] = s[j + m - 1]
  <2>1. m + j - 1 = j + m - 1
    OBVIOUS
  <2> QED BY <1>4, <2>1
<1> QED BY <1>4, <1>5, <1>6 DEF v

(* Taking an entry out of a list: the others stay, in their order.         *)
LEMMA RemoveParts ==
    ASSUME NEW S, NEW list \in Seq(S), NEW t, t \in Range(list)
    PROVE  \E i \in 1..Len(list) :
              /\ list[i] = t
              /\ uxListRemove(list, t) \in Seq(S)
              /\ Len(uxListRemove(list, t)) = Len(list) - 1
              /\ \A j \in 1..Len(list) - 1 :
                    uxListRemove(list, t)[j] = IF j < i THEN list[j] ELSE list[j + 1]
<1>1. DOMAIN list = 1..Len(list) /\ Len(list) \in Nat
  BY LenProperties
<1> DEFINE i == CHOOSE i \in DOMAIN list : list[i] = t
<1>2. i \in 1..Len(list) /\ list[i] = t
  BY <1>1 DEF Range
<1>3. uxListRemove(list, t) = SubSeq(list, 1, i - 1) \o SubSeq(list, i + 1, Len(list))
  BY DEF uxListRemove, RemoveAt
<1> HIDE DEF i
<1> DEFINE u == SubSeq(list, 1, i - 1)
           v == SubSeq(list, i + 1, Len(list))
<1>4. u \in Seq(S) /\ Len(u) = i - 1 /\ \A j \in 1..i - 1 : u[j] = list[j]
  <2>1. i - 1 \in 1 - 1..Len(list) /\ 1 \in 1..Len(list) + 1 /\ (i - 1) - 1 + 1 = i - 1
        /\ \A j \in 1..i - 1 : j + 1 - 1 = j
    BY <1>1, <1>2
  <2> QED BY <2>1, PartOf
<1>5. v \in Seq(S) /\ Len(v) = Len(list) - i /\ \A j \in 1..Len(list) - i : v[j] = list[j + i]
  <2>1. /\ i + 1 \in 1..Len(list) + 1 /\ Len(list) \in (i + 1) - 1..Len(list)
        /\ Len(list) - (i + 1) + 1 = Len(list) - i
        /\ \A j \in 1..Len(list) - i : j + (i + 1) - 1 = j + i
    BY <1>1, <1>2
  <2> QED BY <2>1, PartOf
<1> HIDE DEF u, v
<1>6. /\ u \o v \in Seq(S) /\ Len(u \o v) = Len(list) - 1
      /\ \A j \in 1..Len(list) - 1 : (u \o v)[j] = IF j <= i - 1 THEN u[j] ELSE v[j - (i - 1)]
  <2>1. Len(u) + Len(v) = Len(list) - 1 /\ Len(u) = i - 1
    BY <1>1, <1>2, <1>4, <1>5
  <2>2. /\ u \o v \in Seq(S) /\ Len(u \o v) = Len(u) + Len(v)
        /\ \A j \in 1..Len(u) + Len(v) : (u \o v)[j] = IF j <= Len(u) THEN u[j] ELSE v[j - Len(u)]
    BY <1>4, <1>5, ConcatProperties
  <2> QED BY <2>1, <2>2
<1>7. ASSUME NEW j \in 1..Len(list) - 1
      PROVE  (u \o v)[j] = IF j < i THEN list[j] ELSE list[j + 1]
  <2>1. CASE j < i
    BY <1>1, <1>2, <1>4, <1>6, <2>1
  <2>2. CASE j >= i
    <3>1. j - (i - 1) \in 1..Len(list) - i /\ j - (i - 1) + i = j + 1 /\ ~(j <= i - 1)
      BY <1>1, <1>2, <2>2
    <3> QED BY <1>1, <1>2, <1>5, <1>6, <2>2, <3>1
  <2>3. j < i \/ j >= i
    BY <1>1, <1>2
  <2> QED BY <2>1, <2>2, <2>3
<1> QED BY <1>2, <1>3, <1>6, <1>7 DEF u, v

LEMMA Removed ==
    ASSUME NEW S, NEW list \in Seq(S), NEW t
    PROVE  /\ uxListRemove(list, t) \in Seq(S)
           /\ Range(uxListRemove(list, t)) \subseteq Range(list)
           /\ Range(list) \ {t} \subseteq Range(uxListRemove(list, t))
           /\ IsInjective(list) =>
                 /\ IsInjective(uxListRemove(list, t))
                 /\ Range(uxListRemove(list, t)) = Range(list) \ {t}
           /\ \A value : Sorted(list, value) => Sorted(uxListRemove(list, t), value)
           /\ t \notin Range(list) => uxListRemove(list, t) = list
<1>1. CASE t \notin Range(list)
  <2>1. uxListRemove(list, t) = list
    BY <1>1 DEF uxListRemove
  <2> QED BY <1>1, <2>1
<1>2. CASE t \in Range(list)
  <2> DEFINE rest == uxListRemove(list, t)
  <2>1. PICK i \in 1..Len(list) :
           /\ list[i] = t /\ rest \in Seq(S) /\ Len(rest) = Len(list) - 1
           /\ \A j \in 1..Len(list) - 1 : rest[j] = IF j < i THEN list[j] ELSE list[j + 1]
    BY <1>2, RemoveParts
  <2> HIDE DEF rest
  <2>2. Len(list) \in Nat /\ DOMAIN list = 1..Len(list) /\ DOMAIN rest = 1..Len(list) - 1
    BY <2>1, LenProperties
  <2> DEFINE From(j) == IF j < i THEN j ELSE j + 1
  <2>3. \A j \in 1..Len(list) - 1 :
           From(j) \in 1..Len(list) /\ From(j) # i /\ rest[j] = list[From(j)]
    BY <2>1, <2>2
  <2>4. \A j, l \in 1..Len(list) - 1 :
           (From(j) = From(l) => j = l) /\ (j < l => From(j) < From(l))
    BY <2>2
  <2>5. \A l \in 1..Len(list) : l # i => \E j \in 1..Len(list) - 1 : From(j) = l
    <3> TAKE l \in 1..Len(list)
    <3>1. CASE l < i
      <4>1. l \in 1..Len(list) - 1 /\ From(l) = l
        BY <2>1, <2>2, <3>1
      <4> QED BY <4>1
    <3>2. CASE l > i
      <4>1. l - 1 \in 1..Len(list) - 1 /\ From(l - 1) = l
        BY <2>1, <2>2, <3>2
      <4> QED BY <4>1
    <3> QED BY <2>2, <3>1, <3>2
  <2> HIDE DEF From
  <2>6. Range(rest) \subseteq Range(list)
    BY <2>2, <2>3 DEF Range
  <2>7. Range(list) \ {t} \subseteq Range(rest)
    <3> SUFFICES ASSUME NEW l \in 1..Len(list), list[l] # t PROVE list[l] \in Range(rest)
      BY <2>2 DEF Range
    <3>1. PICK j \in 1..Len(list) - 1 : From(j) = l
      BY <2>1, <2>5
    <3> QED BY <2>2, <2>3, <3>1 DEF Range
  <2>8. ASSUME IsInjective(list)
        PROVE  IsInjective(rest) /\ t \notin Range(rest)
    <3>1. \A j, l \in 1..Len(list) : list[j] = list[l] => j = l
      BY <2>2, <2>8 DEF IsInjective
    <3>2. IsInjective(rest)
      BY <2>2, <2>3, <2>4, <3>1 DEF IsInjective
    <3>3. t \notin Range(rest)
      BY <2>1, <2>2, <2>3, <3>1 DEF Range
    <3> QED BY <3>2, <3>3
  <2>9. ASSUME NEW value, Sorted(list, value) PROVE Sorted(rest, value)
    <3>1. \A j, l \in 1..Len(list) : j < l => value[list[j]] <= value[list[l]]
      BY <2>2, <2>9 DEF Sorted
    <3> QED BY <2>2, <2>3, <2>4, <3>1 DEF Sorted
  <2> QED BY <1>2, <2>1, <2>6, <2>7, <2>8, <2>9 DEF rest
<1> QED BY <1>1, <1>2

(* There is always a place for an entry.                                   *)
LEMMA PlaceExists ==
    ASSUME NEW list \in Seq(Task), NEW t \in Task, NEW value \in [Task -> Int]
    PROVE  \E i \in 1..Len(list) + 1 :
              /\ \A j \in 1..i - 1 : value[list[j]] <= value[t]
              /\ i <= Len(list) => value[list[i]] > value[t]
<1> DEFINE Later == {i \in 1..Len(list) : value[list[i]] > value[t]}
<1>1. Len(list) \in Nat /\ \A i \in 1..Len(list) : list[i] \in Task
  BY LenProperties, ElementOfSeq
<1>2. CASE Later = {}
  <2>1. \A j \in 1..Len(list) : value[list[j]] <= value[t]
    BY <1>1, <1>2
  <2>2. Len(list) + 1 \in 1..Len(list) + 1 /\ Len(list) + 1 - 1 = Len(list)
        /\ ~(Len(list) + 1 <= Len(list))
    BY <1>1
  <2> QED BY <2>1, <2>2
<1>3. CASE Later # {}
  <2>1. Later \in SUBSET Nat
    BY <1>1
  <2>2. PICK i \in Later : \A j \in Later : i <= j
    <3> HIDE DEF Later
    <3> QED BY <1>3, <2>1, Least
  <2>3. i \in 1..Len(list) + 1 /\ value[list[i]] > value[t]
    BY <1>1, <2>2
  <2>4. \A j \in 1..i - 1 : value[list[j]] <= value[t]
    <3> TAKE j \in 1..i - 1
    <3>1. j \in 1..Len(list) /\ j \notin Later
      BY <1>1, <2>2
    <3>2. list[j] \in Task
      BY <1>1, <3>1
    <3> QED BY <3>1, <3>2
  <2> QED BY <2>3, <2>4
<1> QED BY <1>2, <1>3

(* Putting an entry into a list: the others stay, in their order.          *)
PutAt(list, t, value, more, i) ==
    /\ \A j \in 1..i - 1 : value[list[j]] <= value[t]
    /\ i <= Len(list) => value[list[i]] > value[t]
    /\ more \in Seq(Task) /\ Len(more) = Len(list) + 1
    /\ \A j \in 1..Len(list) + 1 :
          more[j] = IF j < i THEN list[j] ELSE IF j = i THEN t ELSE list[j - 1]
LEMMA InsertParts ==
    ASSUME NEW list \in Seq(Task), NEW t \in Task, NEW value \in [Task -> Int]
    PROVE  \E i \in 1..Len(list) + 1 : PutAt(list, t, value, vListInsert(list, t, value), i)
<1> DEFINE i == CHOOSE i \in 1..Len(list) + 1 :
                    /\ \A j \in 1..i - 1 : value[list[j]] <= value[t]
                    /\ i <= Len(list) => value[list[i]] > value[t]
<1>1. DOMAIN list = 1..Len(list) /\ Len(list) \in Nat
  BY LenProperties
<1>2. /\ i \in 1..Len(list) + 1
      /\ \A j \in 1..i - 1 : value[list[j]] <= value[t]
      /\ i <= Len(list) => value[list[i]] > value[t]
  <2> HIDE DEF i
  <2> QED BY PlaceExists DEF i
<1>3. vListInsert(list, t, value) = SubSeq(list, 1, i - 1) \o <<t>> \o SubSeq(list, i, Len(list))
  BY DEF vListInsert, InsertAt
<1> HIDE DEF i
<1> DEFINE u == SubSeq(list, 1, i - 1)
           v == SubSeq(list, i, Len(list))
           w == u \o <<t>>
<1>4. u \in Seq(Task) /\ Len(u) = i - 1 /\ \A j \in 1..i - 1 : u[j] = list[j]
  <2>1. i - 1 \in 1 - 1..Len(list) /\ 1 \in 1..Len(list) + 1 /\ (i - 1) - 1 + 1 = i - 1
        /\ \A j \in 1..i - 1 : j + 1 - 1 = j
    BY <1>1, <1>2
  <2> QED BY <2>1, PartOf
<1>5. v \in Seq(Task) /\ Len(v) = Len(list) - i + 1
      /\ \A j \in 1..Len(list) - i + 1 : v[j] = list[j + i - 1]
  <2>1. Len(list) \in i - 1..Len(list)
    BY <1>1, <1>2
  <2> QED BY <1>2, <2>1, PartOf
<1> HIDE DEF u, v
<1>6. /\ w \in Seq(Task) /\ Len(w) = i
      /\ \A j \in 1..i : w[j] = IF j < i THEN list[j] ELSE t
  <2>1. <<t>> \in Seq(Task) /\ Len(<<t>>) = 1 /\ <<t>>[1] = t
    OBVIOUS
  <2>2. /\ w \in Seq(Task) /\ Len(w) = Len(u) + 1
        /\ \A j \in 1..Len(u) + 1 : w[j] = IF j <= Len(u) THEN u[j] ELSE <<t>>[j - Len(u)]
    BY <1>4, <2>1, ConcatProperties
  <2> HIDE DEF w
  <2>3. Len(u) + 1 = i
    BY <1>1, <1>2, <1>4
  <2>4. ASSUME NEW j \in 1..i PROVE w[j] = IF j < i THEN list[j] ELSE t
    <3>1. CASE j < i
      <4>1. j \in 1..i - 1 /\ j <= Len(u)
        BY <1>1, <1>2, <1>4, <3>1
      <4> QED BY <1>4, <2>2, <2>3, <3>1, <4>1
    <3>2. CASE j = i
      <4>1. j - Len(u) = 1 /\ ~(j <= Len(u)) /\ ~(j < i)
        BY <1>1, <1>2, <1>4, <3>2
      <4> QED BY <2>1, <2>2, <2>3, <4>1
    <3>3. j < i \/ j = i
      BY <1>2
    <3> QED BY <3>1, <3>2, <3>3
  <2> QED BY <2>2, <2>3, <2>4
<1> HIDE DEF w
<1>7. /\ w \o v \in Seq(Task) /\ Len(w \o v) = Len(list) + 1
      /\ \A j \in 1..Len(list) + 1 : (w \o v)[j] = IF j <= i THEN w[j] ELSE v[j - i]
  <2>1. Len(w) + Len(v) = Len(list) + 1 /\ Len(w) = i
    BY <1>1, <1>2, <1>5, <1>6
  <2>2. /\ w \o v \in Seq(Task) /\ Len(w \o v) = Len(w) + Len(v)
        /\ \A j \in 1..Len(w) + Len(v) : (w \o v)[j] = IF j <= Len(w) THEN w[j] ELSE v[j - Len(w)]
    BY <1>5, <1>6, ConcatProperties
  <2> QED BY <2>1, <2>2
<1>8. ASSUME NEW j \in 1..Len(list) + 1
      PROVE  (w \o v)[j] = IF j < i THEN list[j] ELSE IF j = i THEN t ELSE list[j - 1]
  <2>1. CASE j <= i
    BY <1>1, <1>2, <1>6, <1>7, <2>1
  <2>2. CASE j > i
    <3>1. j - i \in 1..Len(list) - i + 1 /\ (j - i) + i - 1 = j - 1 /\ ~(j <= i) /\ ~(j < i) /\ j # i
      BY <1>1, <1>2, <2>2
    <3> QED BY <1>5, <1>7, <3>1
  <2>3. j <= i \/ j > i
    BY <1>1, <1>2
  <2> QED BY <2>1, <2>2, <2>3
<1> QED BY <1>2, <1>3, <1>7, <1>8 DEF u, v, w, PutAt

LEMMA Inserted ==
    ASSUME NEW list \in Seq(Task), NEW t \in Task, NEW value \in [Task -> Int]
    PROVE  /\ vListInsert(list, t, value) \in Seq(Task)
           /\ Range(vListInsert(list, t, value)) = Range(list) \union {t}
           /\ vListInsert(list, t, value) # <<>>
           /\ IsInjective(list) /\ t \notin Range(list)
                 => IsInjective(vListInsert(list, t, value))
           /\ Sorted(list, value) => Sorted(vListInsert(list, t, value), value)
<1> DEFINE more == vListInsert(list, t, value)
<1>0. PICK i \in 1..Len(list) + 1 : PutAt(list, t, value, more, i)
  BY InsertParts
<1> HIDE DEF more
<1>1. /\ i \in 1..Len(list) + 1
      /\ \A j \in 1..i - 1 : value[list[j]] <= value[t]
      /\ i <= Len(list) => value[list[i]] > value[t]
      /\ more \in Seq(Task) /\ Len(more) = Len(list) + 1
      /\ \A j \in 1..Len(list) + 1 :
            more[j] = IF j < i THEN list[j] ELSE IF j = i THEN t ELSE list[j - 1]
  BY <1>0 DEF PutAt
<1>2. /\ Len(list) \in Nat /\ DOMAIN list = 1..Len(list) /\ DOMAIN more = 1..Len(list) + 1
      /\ \A j \in 1..Len(list) : list[j] \in Task
  BY <1>1, LenProperties, ElementOfSeq
<1> DEFINE From(j) == IF j < i THEN j ELSE j - 1
<1>3. \A j \in 1..Len(list) + 1 : j # i => From(j) \in 1..Len(list) /\ more[j] = list[From(j)]
  <2> TAKE j \in 1..Len(list) + 1
  <2>1. j # i => From(j) \in 1..Len(list)
    BY <1>1, <1>2
  <2> QED BY <1>1, <2>1
<1>4. more[i] = t
  BY <1>1, <1>2
<1>5. \A j, l \in (1..Len(list) + 1) \ {i} :
         (From(j) = From(l) => j = l) /\ (j < l => From(j) < From(l))
  BY <1>2
<1>6. \A l \in 1..Len(list) : \E j \in 1..Len(list) + 1 : j # i /\ From(j) = l
  <2> TAKE l \in 1..Len(list)
  <2>1. CASE l < i
    <3>1. l \in 1..Len(list) + 1 /\ l # i /\ From(l) = l
      BY <1>1, <1>2, <2>1
    <3> QED BY <3>1
  <2>2. CASE l >= i
    <3>1. l + 1 \in 1..Len(list) + 1 /\ l + 1 # i /\ From(l + 1) = l
      BY <1>1, <1>2, <2>2
    <3> QED BY <3>1
  <2>3. l < i \/ l >= i
    BY <1>1, <1>2
  <2> QED BY <2>1, <2>2, <2>3
<1>7. \A j \in 1..Len(list) : (j < i => value[list[j]] <= value[t])
                               /\ (Sorted(list, value) /\ j >= i => value[t] <= value[list[j]])
  <2> TAKE j \in 1..Len(list)
  <2>1. ASSUME j < i PROVE value[list[j]] <= value[t]
    <3>1. j \in 1..i - 1
      BY <1>1, <1>2, <2>1
    <3> QED BY <1>1, <3>1
  <2>2. ASSUME Sorted(list, value), j >= i PROVE value[t] <= value[list[j]]
    <3>1. i \in 1..Len(list) /\ value[list[i]] > value[t]
      BY <1>1, <1>2, <2>2
    <3>2. i = j \/ i < j
      BY <2>2, <3>1
    <3>3. value[list[i]] <= value[list[j]]
      <4>1. CASE i = j
        BY <1>2, <3>1, <4>1
      <4>2. CASE i < j
        BY <1>2, <2>2, <3>1, <4>2 DEF Sorted
      <4> QED BY <3>2, <4>1, <4>2
    <3>4. /\ value[list[i]] \in Int /\ value[list[j]] \in Int /\ value[t] \in Int
      BY <1>2, <3>1
    <3> QED BY <3>1, <3>3, <3>4
  <2> QED BY <2>1, <2>2
<1>8. \A j \in (1..Len(list) + 1) \ {i} : (j < i => From(j) < i) /\ (j > i => From(j) >= i)
  BY <1>1, <1>2
<1> HIDE DEF From
<1>9. Range(more) = Range(list) \union {t}
  <2>1. Range(more) \subseteq Range(list) \union {t}
    BY <1>2, <1>3, <1>4 DEF Range
  <2>2. \A l \in 1..Len(list) : list[l] \in Range(more)
    BY <1>2, <1>3, <1>6 DEF Range
  <2>3. t \in Range(more)
    BY <1>2, <1>4 DEF Range
  <2> QED BY <1>2, <2>1, <2>2, <2>3 DEF Range
<1>10. more # <<>>
  BY <1>1, <1>2
<1>11. ASSUME IsInjective(list), t \notin Range(list) PROVE IsInjective(more)
  <2>1. \A j, l \in 1..Len(list) : list[j] = list[l] => j = l
    BY <1>2, <1>11 DEF IsInjective
  <2>2. \A j \in 1..Len(list) : list[j] # t
    BY <1>2, <1>11 DEF Range
  <2> QED BY <1>2, <1>3, <1>4, <1>5, <2>1, <2>2 DEF IsInjective
<1>12. ASSUME Sorted(list, value) PROVE Sorted(more, value)
  <2> SUFFICES ASSUME NEW j \in 1..Len(list) + 1, NEW l \in 1..Len(list) + 1, j < l
               PROVE  value[more[j]] <= value[more[l]]
    BY <1>2 DEF Sorted
  <2>1. \A m, n \in 1..Len(list) : m < n => value[list[m]] <= value[list[n]]
    BY <1>2, <1>12 DEF Sorted
  <2>2. CASE j # i /\ l # i
    BY <1>3, <1>5, <2>1, <2>2
  <2>3. CASE j = i
    <3>1. l # i /\ l > i
      BY <2>3
    <3> QED BY <1>3, <1>4, <1>7, <1>8, <1>12, <2>3, <3>1
  <2>4. CASE l = i
    <3>1. j # i /\ j < i
      BY <2>4
    <3> QED BY <1>3, <1>4, <1>7, <1>8, <2>4, <3>1
  <2> QED BY <2>2, <2>3, <2>4
<1> QED BY <1>1, <1>9, <1>10, <1>11, <1>12 DEF more

LEMMA Appended ==
    ASSUME NEW S, NEW list \in Seq(S), NEW t \in S
    PROVE  /\ Append(list, t) \in Seq(S)
           /\ Append(list, t) # <<>>
           /\ Range(Append(list, t)) = Range(list) \union {t}
           /\ IsInjective(list) /\ t \notin Range(list) => IsInjective(Append(list, t))
<1> DEFINE more == Append(list, t)
<1>1. /\ more \in Seq(S) /\ Len(more) = Len(list) + 1 /\ more # <<>>
      /\ \A j \in 1..Len(list) : more[j] = list[j]
      /\ more[Len(list) + 1] = t
  BY AppendProperties
<1> HIDE DEF more
<1>2. Len(list) \in Nat /\ DOMAIN list = 1..Len(list) /\ DOMAIN more = 1..Len(list) + 1
  BY <1>1, LenProperties
<1>3. Range(more) = Range(list) \union {t}
  <2>1. \A j \in 1..Len(list) + 1 : j \in 1..Len(list) \/ j = Len(list) + 1
    BY <1>2
  <2>2. \A j \in 1..Len(list) : j \in 1..Len(list) + 1
    BY <1>2
  <2>3. Len(list) + 1 \in 1..Len(list) + 1
    BY <1>2
  <2> QED BY <1>1, <1>2, <2>1, <2>2, <2>3 DEF Range
<1>4. ASSUME IsInjective(list), t \notin Range(list) PROVE IsInjective(more)
  <2>1. \A j, l \in 1..Len(list) : list[j] = list[l] => j = l
    BY <1>2, <1>4 DEF IsInjective
  <2>2. \A j \in 1..Len(list) : list[j] # t
    BY <1>2, <1>4 DEF Range
  <2>3. \A j \in 1..Len(list) + 1 : j \in 1..Len(list) \/ j = Len(list) + 1
    BY <1>2
  <2> QED BY <1>1, <1>2, <2>1, <2>2, <2>3 DEF IsInjective
<1> QED BY <1>1, <1>3, <1>4 DEF more

LEMMA Behead ==
    ASSUME NEW S, NEW list \in Seq(S), list # <<>>
    PROVE  /\ Head(list) \in S /\ Head(list) \in Range(list)
           /\ Tail(list) \in Seq(S)
           /\ Range(list) = Range(Tail(list)) \union {Head(list)}
           /\ IsInjective(list) => IsInjective(Tail(list)) /\ Head(list) \notin Range(Tail(list))
           /\ \A value : Sorted(list, value) => Sorted(Tail(list), value)
<1> DEFINE rest == Tail(list)
<1>1. /\ rest \in Seq(S) /\ Len(rest) = Len(list) - 1 /\ Head(list) \in S
      /\ \A j \in 1..Len(rest) : rest[j] = list[j + 1]
  BY HeadTailProperties
<1> HIDE DEF rest
<1>2. /\ Len(list) \in Nat \ {0} /\ DOMAIN list = 1..Len(list) /\ DOMAIN rest = 1..Len(list) - 1
      /\ Head(list) = list[1]
  BY <1>1, LenProperties, EmptySeq
<1>3. \A j \in 1..Len(list) - 1 : j + 1 \in 1..Len(list) /\ j + 1 # 1 /\ rest[j] = list[j + 1]
  BY <1>1, <1>2
<1>4. \A j \in 1..Len(list) : j = 1 \/ \E l \in 1..Len(list) - 1 : j = l + 1
  <2> TAKE j \in 1..Len(list)
  <2>1. j # 1 => j - 1 \in 1..Len(list) - 1 /\ j = (j - 1) + 1
    BY <1>2
  <2> QED BY <2>1
<1>5. 1 \in 1..Len(list)
  BY <1>2
<1>6. Range(list) = Range(rest) \union {Head(list)}
  <2>1. \A j \in 1..Len(list) : list[j] \in Range(rest) \union {Head(list)}
    <3> TAKE j \in 1..Len(list)
    <3>1. CASE j = 1
      BY <1>2, <3>1
    <3>2. CASE j # 1
      <4>1. PICK l \in 1..Len(list) - 1 : j = l + 1
        BY <1>4, <3>2
      <4> QED BY <1>2, <1>3, <4>1 DEF Range
    <3> QED BY <3>1, <3>2
  <2>2. \A j \in 1..Len(list) - 1 : rest[j] \in Range(list)
    BY <1>2, <1>3 DEF Range
  <2>3. Head(list) \in Range(list)
    BY <1>2, <1>5 DEF Range
  <2> QED BY <1>2, <2>1, <2>2, <2>3 DEF Range
<1>7. ASSUME IsInjective(list) PROVE IsInjective(rest) /\ Head(list) \notin Range(rest)
  <2>1. \A j, l \in 1..Len(list) : list[j] = list[l] => j = l
    BY <1>2, <1>7 DEF IsInjective
  <2>2. \A j, l \in 1..Len(list) - 1 : j + 1 = l + 1 => j = l
    BY <1>2
  <2>3. IsInjective(rest)
    BY <1>2, <1>3, <2>1, <2>2 DEF IsInjective
  <2>4. \A j \in 1..Len(list) - 1 : rest[j] # list[1]
    BY <1>3, <1>5, <2>1
  <2>5. Head(list) \notin Range(rest)
    BY <1>2, <2>4 DEF Range
  <2> QED BY <2>3, <2>5
<1>8. ASSUME NEW value, Sorted(list, value) PROVE Sorted(rest, value)
  <2>1. \A j, l \in 1..Len(list) : j < l => value[list[j]] <= value[list[l]]
    BY <1>2, <1>8 DEF Sorted
  <2>2. \A j, l \in 1..Len(list) - 1 : j < l => j + 1 < l + 1
    BY <1>2
  <2> QED BY <1>2, <1>3, <2>1, <2>2 DEF Sorted
<1> QED BY <1>1, <1>2, <1>5, <1>6, <1>7, <1>8 DEF rest, Range

LEMMA HeadIsLeast ==
    ASSUME NEW list \in Seq(Task), list # <<>>, NEW value \in [Task -> Int],
           Sorted(list, value), NEW t \in Range(list)
    PROVE  value[Head(list)] <= value[t]
<1>1. /\ Len(list) \in Nat \ {0} /\ DOMAIN list = 1..Len(list) /\ Head(list) = list[1]
      /\ 1 \in 1..Len(list)
  BY LenProperties, EmptySeq
<1>2. PICK i \in 1..Len(list) : t = list[i]
  BY <1>1 DEF Range
<1>3. value[list[i]] \in Int
  BY ElementOfSeq
<1>4. CASE i = 1
  BY <1>1, <1>2, <1>3, <1>4
<1>5. CASE i # 1
  <2>1. 1 < i
    BY <1>1, <1>5
  <2> QED BY <1>1, <1>2, <2>1 DEF Sorted
<1> QED BY <1>4, <1>5

(* A list cut into a first part and the rest.                              *)
LEMMA Cut ==
    ASSUME NEW S, NEW list \in Seq(S), NEW n \in 0..Len(list)
    PROVE  LET u == SubSeq(list, 1, n)
               v == SubSeq(list, n + 1, Len(list))
           IN  /\ u \in Seq(S) /\ v \in Seq(S)
               /\ Len(u) = n /\ Len(v) = Len(list) - n
               /\ Range(list) = Range(u) \union Range(v)
               /\ Range(u) = {list[i] : i \in 1..n}
               /\ IsInjective(list) => /\ IsInjective(u) /\ IsInjective(v)
                                       /\ Range(u) \intersect Range(v) = {}
               /\ \A value : Sorted(list, value) => Sorted(v, value)
<1> DEFINE u == SubSeq(list, 1, n)
           v == SubSeq(list, n + 1, Len(list))
<1>1. DOMAIN list = 1..Len(list) /\ Len(list) \in Nat
  BY LenProperties
<1>2. u \in Seq(S) /\ Len(u) = n /\ \A j \in 1..n : u[j] = list[j]
  <2>1. n \in 1 - 1..Len(list) /\ 1 \in 1..Len(list) + 1 /\ n - 1 + 1 = n
        /\ \A j \in 1..n : j + 1 - 1 = j
    BY <1>1
  <2> QED BY <2>1, PartOf
<1>3. v \in Seq(S) /\ Len(v) = Len(list) - n /\ \A j \in 1..Len(list) - n : v[j] = list[j + n]
  <2>1. /\ n + 1 \in 1..Len(list) + 1 /\ Len(list) \in (n + 1) - 1..Len(list)
        /\ Len(list) - (n + 1) + 1 = Len(list) - n
        /\ \A j \in 1..Len(list) - n : j + (n + 1) - 1 = j + n
    BY <1>1
  <2>2. /\ v \in Seq(S) /\ Len(v) = Len(list) - (n + 1) + 1
        /\ \A j \in 1..Len(list) - (n + 1) + 1 : v[j] = list[j + (n + 1) - 1]
    BY <2>1, PartOf
  <2> HIDE DEF v
  <2> QED BY <2>1, <2>2
<1> HIDE DEF u, v
<1>4. DOMAIN u = 1..n /\ DOMAIN v = 1..Len(list) - n
  BY <1>2, <1>3, LenProperties
<1>5. /\ \A j \in 1..n : j \in 1..Len(list)
      /\ \A j \in 1..Len(list) - n : j + n \in 1..Len(list) /\ j + n \notin 1..n
  BY <1>1
<1>6. \A j \in 1..Len(list) : j \in 1..n \/ \E l \in 1..Len(list) - n : j = l + n
  <2> TAKE j \in 1..Len(list)
  <2>1. j \notin 1..n => j - n \in 1..Len(list) - n /\ j = (j - n) + n
    BY <1>1
  <2> QED BY <2>1
<1>7. Range(list) = Range(u) \union Range(v) /\ Range(u) = {list[i] : i \in 1..n}
  <2>1. \A j \in 1..Len(list) : list[j] \in Range(u) \union Range(v)
    <3> TAKE j \in 1..Len(list)
    <3>1. CASE j \in 1..n
      BY <1>2, <1>4, <3>1 DEF Range
    <3>2. CASE j \notin 1..n
      <4>1. PICK l \in 1..Len(list) - n : j = l + n
        BY <1>6, <3>2
      <4> QED BY <1>3, <1>4, <4>1 DEF Range
    <3> QED BY <3>1, <3>2
  <2>2. \A j \in 1..n : u[j] \in Range(list)
    BY <1>1, <1>2, <1>5 DEF Range
  <2>3. \A j \in 1..Len(list) - n : v[j] \in Range(list)
    BY <1>1, <1>3, <1>5 DEF Range
  <2>4. Range(u) = {list[i] : i \in 1..n}
    BY <1>2, <1>4 DEF Range
  <2> QED BY <1>1, <1>4, <2>1, <2>2, <2>3, <2>4 DEF Range
<1>8. ASSUME IsInjective(list)
      PROVE  IsInjective(u) /\ IsInjective(v) /\ Range(u) \intersect Range(v) = {}
  <2>1. \A j, l \in 1..Len(list) : list[j] = list[l] => j = l
    BY <1>1, <1>8 DEF IsInjective
  <2>2. \A j, l \in 1..Len(list) - n : j + n = l + n => j = l
    BY <1>1
  <2>3. IsInjective(u)
    BY <1>2, <1>4, <1>5, <2>1 DEF IsInjective
  <2>4. IsInjective(v)
    BY <1>3, <1>4, <1>5, <2>1, <2>2 DEF IsInjective
  <2>5. Range(u) \intersect Range(v) = {}
    <3>1. \A j \in 1..n : \A l \in 1..Len(list) - n : u[j] # v[l]
      BY <1>2, <1>3, <1>5, <2>1
    <3> QED BY <1>4, <3>1 DEF Range
  <2> QED BY <2>3, <2>4, <2>5
<1>9. ASSUME NEW value, Sorted(list, value) PROVE Sorted(v, value)
  <2>1. \A j, l \in 1..Len(list) : j < l => value[list[j]] <= value[list[l]]
    BY <1>1, <1>9 DEF Sorted
  <2>2. \A j, l \in 1..Len(list) - n : j < l => j + n < l + n
    BY <1>1
  <2> QED BY <1>3, <1>4, <1>5, <2>1, <2>2 DEF Sorted
<1> QED BY <1>2, <1>3, <1>7, <1>8, <1>9 DEF u, v

LEMMA Joined ==
    ASSUME NEW S, NEW u \in Seq(S), NEW v \in Seq(S)
    PROVE  /\ u \o v \in Seq(S)
           /\ Range(u \o v) = Range(u) \union Range(v)
           /\ IsInjective(u) /\ IsInjective(v) /\ Range(u) \intersect Range(v) = {}
                 => IsInjective(u \o v)
<1> DEFINE w == u \o v
<1>1. /\ w \in Seq(S) /\ Len(w) = Len(u) + Len(v)
      /\ \A i \in 1..Len(u) + Len(v) : w[i] = IF i <= Len(u) THEN u[i] ELSE v[i - Len(u)]
  BY ConcatProperties
<1> HIDE DEF w
<1>2. /\ Len(u) \in Nat /\ Len(v) \in Nat /\ DOMAIN u = 1..Len(u) /\ DOMAIN v = 1..Len(v)
      /\ DOMAIN w = 1..Len(u) + Len(v)
  BY <1>1, LenProperties
<1>3. \A i \in 1..Len(u) : i \in 1..Len(u) + Len(v) /\ w[i] = u[i]
  BY <1>1, <1>2
<1>4. \A i \in 1..Len(v) : i + Len(u) \in 1..Len(u) + Len(v) /\ w[i + Len(u)] = v[i]
  <2> TAKE i \in 1..Len(v)
  <2>1. i + Len(u) \in 1..Len(u) + Len(v) /\ ~(i + Len(u) <= Len(u)) /\ (i + Len(u)) - Len(u) = i
    BY <1>2
  <2> QED BY <1>1, <2>1
<1>5. \A i \in 1..Len(u) + Len(v) : i \in 1..Len(u) \/ \E j \in 1..Len(v) : i = j + Len(u)
  <2> TAKE i \in 1..Len(u) + Len(v)
  <2>1. i \notin 1..Len(u) => i - Len(u) \in 1..Len(v) /\ i = (i - Len(u)) + Len(u)
    BY <1>2
  <2> QED BY <2>1
<1>6. Range(w) = Range(u) \union Range(v)
  BY RangeConcatenation DEF w
<1>7. ASSUME IsInjective(u), IsInjective(v), Range(u) \intersect Range(v) = {}
      PROVE  IsInjective(w)
  <2>1. /\ \A i, j \in 1..Len(u) : u[i] = u[j] => i = j
        /\ \A i, j \in 1..Len(v) : v[i] = v[j] => i = j
        /\ \A i \in 1..Len(u) : \A j \in 1..Len(v) : u[i] # v[j]
    <3>1. \A i, j \in 1..Len(u) : u[i] = u[j] => i = j
      BY <1>2, <1>7 DEF IsInjective
    <3>2. \A i, j \in 1..Len(v) : v[i] = v[j] => i = j
      BY <1>2, <1>7 DEF IsInjective
    <3>3. \A i \in 1..Len(u) : \A j \in 1..Len(v) : u[i] # v[j]
      BY <1>2, <1>7 DEF Range
    <3> QED BY <3>1, <3>2, <3>3
  <2> SUFFICES ASSUME NEW i \in 1..Len(u) + Len(v), NEW j \in 1..Len(u) + Len(v), w[i] = w[j]
               PROVE  i = j
    BY <1>2 DEF IsInjective
  <2>2. CASE i \in 1..Len(u) /\ j \in 1..Len(u)
    BY <1>3, <2>1, <2>2
  <2>3. CASE i \in 1..Len(u) /\ j \notin 1..Len(u)
    <3>1. PICK l \in 1..Len(v) : j = l + Len(u)
      BY <1>5, <2>3
    <3>2. w[i] = u[i] /\ w[j] = v[l]
      BY <1>3, <1>4, <2>3, <3>1
    <3> QED BY <2>1, <2>3, <3>2
  <2>4. CASE i \notin 1..Len(u) /\ j \in 1..Len(u)
    <3>1. PICK k \in 1..Len(v) : i = k + Len(u)
      BY <1>5, <2>4
    <3>2. w[i] = v[k] /\ w[j] = u[j]
      BY <1>3, <1>4, <2>4, <3>1
    <3> QED BY <2>1, <2>4, <3>2
  <2>5. CASE i \notin 1..Len(u) /\ j \notin 1..Len(u)
    <3>1. PICK k \in 1..Len(v), l \in 1..Len(v) : i = k + Len(u) /\ j = l + Len(u)
      BY <1>5, <2>5
    <3>2. w[i] = v[k] /\ w[j] = v[l]
      BY <1>4, <3>1
    <3>3. k = l
      BY <2>1, <3>2
    <3> QED BY <3>1, <3>3
  <2> QED BY <2>2, <2>3, <2>4, <2>5
<1> QED BY <1>1, <1>6, <1>7 DEF w

----------------------------------------------------------------------------
(* Calls.                                                                  *)
LEMMA Constants ==
    /\ Ticks \in Nat /\ Ticks > 1 /\ 0 \in Tick /\ portMAX_DELAY \in Tick
    /\ Length \in Nat /\ Length > 0 /\ MaxMissed \in Nat /\ MaxMissed < Ticks /\ MaxLock \in Nat
    /\ \A t \in Task : Priority[t] \in Level
    /\ \A t \in Task : \A c \in Calls[t] :
          c \in CallType /\ c.then = "none" /\ (c.kind = "delay" => c.ticks > 0)
    /\ NoCall.kind = "none" /\ NoCall.then = "none" /\ NoCall.ticks = 0 /\ NoCall \notin CallType
<1>1. /\ Ticks \in Nat /\ Ticks > 1 /\ 0 \in Tick /\ portMAX_DELAY \in Tick
  BY TickAssumption DEF Tick, portMAX_DELAY
<1>2. Length \in Nat /\ Length > 0 /\ MaxMissed \in Nat /\ MaxMissed < Ticks /\ MaxLock \in Nat
  BY TickAssumption, QueueAssumption, BoundAssumption
<1>3. ASSUME NEW t \in Task, NEW c \in Calls[t]
      PROVE  c \in CallType /\ c.then = "none" /\ (c.kind = "delay" => c.ticks > 0)
  <2>1. c \in CallSet
    BY CallAssumption
  <2>2. CASE c \in [kind : Side, queue : Queue, ticks : Tick, then : {"none"}]
    BY <2>2 DEF CallType, Side
  <2>3. CASE c \in [kind : {"delay"}, queue : Queue, ticks : Tick \ {0}, then : {"none"}]
    BY <1>1, <2>3 DEF CallType, Tick
  <2> QED BY <2>1, <2>2, <2>3 DEF CallSet
<1>4. /\ NoCall.kind = "none" /\ NoCall.then = "none" /\ NoCall.ticks = 0 /\ NoCall \notin CallType
  BY DEF NoCall, CallType, Side
<1> QED BY <1>1, <1>2, <1>3, <1>4, TaskAssumption

LEMMA CallsKept ==
    ASSUME CallTypes, Stages, UNCHANGED <<pc, call>> PROVE CallTypes' /\ Stages'
BY DEF CallTypes, Stages, StageOf

(* One task moves to a place that fits its call.                           *)
LEMMA CallMoves ==
    ASSUME CallTypes, Stages, NEW me \in Task,
           NEW s \in Stage, NEW c \in CallType \union {NoCall},
           pc' = [pc EXCEPT ![me] = s], call' = [call EXCEPT ![me] = c],
           StageOf(me)'
    PROVE  CallTypes' /\ Stages'
<1>1. CallTypes'
  BY DEF CallTypes
<1>2. ASSUME NEW t \in Task, t # me PROVE StageOf(t)'
  BY <1>2 DEF CallTypes, Stages, StageOf
<1> QED BY <1>1, <1>2 DEF Stages

LEMMA CallsNext ==
    ASSUME CallTypes, Stages, current \in Task, tick \in Tick, entry \in [Task -> EntryType],
           masked = "drain" => pc[current] = "resume", Next
    PROVE  CallTypes' /\ Stages'
<1> USE DEF At, Goto, My, Then
<1>me. PICK me \in Task : me = current
  OBVIOUS
<1>0. /\ StageOf(me) /\ call[me] \in CallType \union {NoCall}
      /\ pc[me] # "run" => call[me] \in CallType
  BY <1>me DEF CallTypes, Stages, StageOf
<1>1. CASE Interrupt
  <2>1. CASE SysTick
    BY <2>1, CallsKept DEF SysTick
  <2>2. CASE prvCheckDelayedTasks
    BY <2>2, CallsKept DEF prvCheckDelayedTasks, callVars
  <2>3. CASE PendSV
    BY <2>3, CallsKept DEF PendSV, callVars
  <2>4. CASE \E e \in IsrQueues \X Side : FromISR(e)
    BY <2>4, CallsKept DEF FromISR, callVars
  <2> QED BY <1>1, <2>1, <2>2, <2>3, <2>4 DEF Interrupt
<1>2. CASE Use
  <2>1. PICK c \in Calls[current] :
           /\ call' = [call EXCEPT ![me] = c]
           /\ pc' = [pc EXCEPT ![me] = IF c.kind = "delay" THEN "suspend" ELSE "try"]
    BY <1>me, <1>2 DEF Use
  <2>2. c \in CallType /\ c.then = "none" /\ (c.kind = "delay" => c.ticks > 0) /\ c # NoCall
    BY <1>me, Constants
  <2>3. StageOf(me)'
    BY <1>me, <1>2, <2>1, <2>2 DEF StageOf, CallTypes, Ending
  <2> QED BY <1>me, <2>1, <2>2, <2>3, CallMoves DEF Stage
<1>3. CASE Succeed \/ Fail
  <2>1. /\ pc' = [pc EXCEPT ![me] = "run"] /\ call' = [call EXCEPT ![me] = NoCall]
    BY <1>me, <1>3 DEF Succeed, Fail, Return
  <2>2. StageOf(me)'
    BY <1>me, <2>1, Constants DEF StageOf, CallTypes, Ending
  <2> QED BY <1>me, <2>1, <2>2, CallMoves DEF Stage
<1>4. CASE Enter
  <2>1. pc' = [pc EXCEPT ![me] = "suspend"] /\ call' = [call EXCEPT ![me] = call[me]]
        /\ pc[me] = "try" /\ call[me].ticks # 0
    BY <1>me, <1>4 DEF Enter, CallTypes
  <2>2. call[me].ticks > 0
    BY <1>me, <1>0, <2>1 DEF CallType, Tick
  <2>3. StageOf(me)'
    BY <1>me, <1>0, <2>1, <2>2 DEF StageOf, CallTypes, Ending
  <2> QED BY <1>me, <1>0, <2>1, <2>3, CallMoves DEF Stage
<1>5. CASE vTaskSuspendAll
  <2>1. PICK s \in {"delay", "lock"} :
           /\ pc' = [pc EXCEPT ![me] = s] /\ call' = [call EXCEPT ![me] = call[me]]
           /\ s = "delay" <=> call[me].kind = "delay"
    BY <1>me, <1>5 DEF vTaskSuspendAll, CallTypes
  <2>2. StageOf(me)'
    BY <1>me, <1>0, <1>5, <2>1 DEF vTaskSuspendAll, StageOf, CallTypes, Ending
  <2> QED BY <1>me, <1>0, <2>1, <2>2, CallMoves DEF Stage
<1>6. CASE prvLockQueue
  <2>1. pc' = [pc EXCEPT ![me] = "check"] /\ call' = [call EXCEPT ![me] = call[me]]
    BY <1>me, <1>6 DEF prvLockQueue, CallTypes
  <2>2. StageOf(me)'
    BY <1>me, <1>0, <1>6, <2>1 DEF prvLockQueue, StageOf, CallTypes, Ending
  <2> QED BY <1>me, <1>0, <2>1, <2>2, CallMoves DEF Stage
<1>7. CASE xTaskCheckForTimeOut
  <2>1. CASE TimedOut
    <3> DEFINE c == [call[me] EXCEPT !.then = "fail"]
    <3>1. pc' = [pc EXCEPT ![me] = "unlockTx"] /\ call' = [call EXCEPT ![me] = c]
      BY <1>me, <1>7, <2>1 DEF xTaskCheckForTimeOut, CallTypes
    <3>2. c \in CallType /\ c # NoCall /\ c.then = "fail" /\ c.kind = call[me].kind
          /\ c.ticks = call[me].ticks
      BY <1>me, <1>0, <1>7, Constants DEF xTaskCheckForTimeOut, CallType
    <3> HIDE DEF c
    <3>3. StageOf(me)'
      BY <1>me, <1>0, <1>7, <3>1, <3>2 DEF xTaskCheckForTimeOut, StageOf, CallTypes, Ending
    <3> QED BY <1>me, <3>1, <3>2, <3>3, CallMoves DEF Stage
  <2>2. CASE ~TimedOut /\ call[me].ticks = portMAX_DELAY
    <3>1. pc' = [pc EXCEPT ![me] = "test"] /\ call' = [call EXCEPT ![me] = call[me]]
      BY <1>me, <1>7, <2>2 DEF xTaskCheckForTimeOut, CallTypes
    <3>2. StageOf(me)'
      BY <1>me, <1>0, <1>7, <3>1 DEF xTaskCheckForTimeOut, StageOf, CallTypes, Ending
    <3> QED BY <1>me, <1>0, <3>1, <3>2, CallMoves DEF Stage
  <2>3. CASE ~TimedOut /\ call[me].ticks # portMAX_DELAY
    <3> DEFINE c == [call[me] EXCEPT !.ticks = @ - Passed]
    <3>1. pc' = [pc EXCEPT ![me] = "test"] /\ call' = [call EXCEPT ![me] = c]
      BY <1>me, <1>7, <2>3 DEF xTaskCheckForTimeOut, CallTypes
    <3>2. Passed \in Nat /\ Passed < call[me].ticks /\ call[me].ticks \in Tick
      <4>1. entry[me].tick \in Tick
        BY <1>me DEF EntryType
      <4>2. Passed \in Tick
        BY <1>me, <4>1, Constants DEF Passed, Tick
      <4>3. call[me].ticks \in Tick
        BY <1>me, <1>0, <1>7 DEF xTaskCheckForTimeOut, CallType
      <4> QED BY <1>me, <2>3, <4>2, <4>3, Constants DEF TimedOut, Tick
    <3>3. call[me].ticks - Passed \in Tick /\ call[me].ticks - Passed > 0
      BY <1>me, <3>2, Constants DEF Tick
    <3>4. c \in CallType /\ c # NoCall /\ c.then = call[me].then
          /\ c.kind = call[me].kind /\ c.ticks > 0
      BY <1>me, <1>0, <1>7, <3>3, Constants DEF xTaskCheckForTimeOut, CallType
    <3> HIDE DEF c
    <3>5. StageOf(me)'
      BY <1>me, <1>0, <1>7, <3>1, <3>4 DEF xTaskCheckForTimeOut, StageOf, CallTypes, Ending
    <3> QED BY <1>me, <3>1, <3>4, <3>5, CallMoves DEF Stage
  <2> QED BY <1>me, <2>1, <2>2, <2>3
<1>8. CASE Test
  <2>1. PICK s \in {"unlockTx", "place"}, h \in {"retry", "wait"} :
           /\ pc' = [pc EXCEPT ![me] = s]
           /\ call' = [call EXCEPT ![me] = [call[me] EXCEPT !.then = h]]
           /\ s = "place" => h = "wait"
    BY <1>me, <1>8 DEF Test, CallTypes
  <2> DEFINE c == [call[me] EXCEPT !.then = h]
  <2>2. c \in CallType /\ c # NoCall /\ c.then = h /\ c.kind = call[me].kind
        /\ c.ticks = call[me].ticks
    BY <1>me, <1>0, <1>8, Constants DEF Test, CallType
  <2>3. call' = [call EXCEPT ![me] = c]
    BY <1>me, <2>1
  <2> HIDE DEF c
  <2>4. StageOf(me)'
    BY <1>me, <1>0, <1>8, <2>1, <2>2, <2>3 DEF Test, StageOf, CallTypes, Ending
  <2> QED BY <1>me, <2>1, <2>2, <2>3, <2>4, CallMoves DEF Stage
<1>9. CASE vTaskPlaceOnEventList
  <2>1. pc' = [pc EXCEPT ![me] = "unlockTx"] /\ call' = [call EXCEPT ![me] = call[me]]
    BY <1>me, <1>9 DEF vTaskPlaceOnEventList, CallTypes
  <2>2. StageOf(me)'
    BY <1>me, <1>0, <1>9, <2>1 DEF vTaskPlaceOnEventList, StageOf, CallTypes, Ending
  <2> QED BY <1>me, <1>0, <2>1, <2>2, CallMoves DEF Stage
<1>10. CASE UnlockTx \/ UnlockRx
  <2>1. PICK s \in {"unlockRx", "resume"} :
           pc' = [pc EXCEPT ![me] = s] /\ call' = [call EXCEPT ![me] = call[me]]
    BY <1>me, <1>10 DEF UnlockTx, UnlockRx, Unlock, CallTypes
  <2>2. StageOf(me)'
    BY <1>me, <1>0, <1>10, <2>1 DEF UnlockTx, UnlockRx, StageOf, CallTypes, Ending
  <2> QED BY <1>me, <1>0, <2>1, <2>2, CallMoves DEF Stage
<1>11. CASE vTaskDelay
  <2> DEFINE c == [call[me] EXCEPT !.then = "sleep"]
  <2>1. pc' = [pc EXCEPT ![me] = "resume"] /\ call' = [call EXCEPT ![me] = c]
    BY <1>me, <1>11 DEF vTaskDelay, CallTypes
  <2>2. c \in CallType /\ c # NoCall /\ c.then = "sleep" /\ c.kind = call[me].kind
        /\ c.ticks = call[me].ticks
    BY <1>me, <1>0, <1>11, Constants DEF vTaskDelay, CallType
  <2> HIDE DEF c
  <2>3. StageOf(me)'
    BY <1>me, <1>0, <1>11, <2>1, <2>2 DEF vTaskDelay, StageOf, CallTypes, Ending
  <2> QED BY <1>me, <2>1, <2>2, <2>3, CallMoves DEF Stage
<1>12. CASE Resume
  <2>1. CASE xTaskResumeAll \/ DrainPending \/ ReplayTick
    BY <2>1, CallsKept DEF xTaskResumeAll, DrainPending, ReplayTick, callVars
  <2>2. CASE Resumed
    <3>1. pc[me] = "resume" /\ call[me] \in CallType
      BY <1>me, <1>0, <2>2 DEF Resumed
    <3>2. call[me].then \in {"fail", "retry", "wait", "sleep"}
      BY <1>0, <3>1 DEF StageOf, Ending
    <3>3. CASE call[me].then = "fail"
      <4>1. /\ pc' = [pc EXCEPT ![me] = "run"] /\ call' = [call EXCEPT ![me] = NoCall]
        BY <1>me, <2>2, <3>3 DEF Resumed, Continue, Return
      <4>2. StageOf(me)'
        BY <4>1, Constants DEF StageOf, CallTypes, Ending
      <4> QED BY <4>1, <4>2, CallMoves DEF Stage
    <3>4. CASE call[me].then # "fail"
      <4>1. PICK s \in {"try", "yield", "back"} :
               /\ pc' = [pc EXCEPT ![me] = s] /\ call' = [call EXCEPT ![me] = call[me]]
               /\ s = "try" <=> call[me].then = "retry"
        BY <1>me, <2>2, <3>2, <3>4 DEF Resumed, Continue, CallTypes
      <4>2. StageOf(me)'
        BY <1>0, <3>1, <3>2, <3>4, <4>1 DEF StageOf, CallTypes, Ending
      <4> QED BY <1>0, <4>1, <4>2, CallMoves DEF Stage
    <3> QED BY <3>3, <3>4
  <2> QED BY <1>12, <2>1, <2>2 DEF Resume
<1>13. CASE Yield
  <2>1. pc' = [pc EXCEPT ![me] = "back"] /\ call' = [call EXCEPT ![me] = call[me]]
    BY <1>me, <1>13 DEF Yield, CallTypes
  <2>2. StageOf(me)'
    BY <1>me, <1>0, <1>13, <2>1 DEF Yield, StageOf, CallTypes, Ending
  <2> QED BY <1>me, <1>0, <2>1, <2>2, CallMoves DEF Stage
<1>14. CASE Back
  <2>1. CASE call[me].kind = "delay"
    <3>1. /\ pc' = [pc EXCEPT ![me] = "run"] /\ call' = [call EXCEPT ![me] = NoCall]
      BY <1>me, <1>14, <2>1 DEF Back, Return
    <3>2. StageOf(me)'
      BY <3>1, Constants DEF StageOf, CallTypes, Ending
    <3> QED BY <3>1, <3>2, CallMoves DEF Stage
  <2>2. CASE call[me].kind # "delay"
    <3>1. pc' = [pc EXCEPT ![me] = "try"] /\ call' = [call EXCEPT ![me] = call[me]]
      BY <1>me, <1>14, <2>2 DEF Back, CallTypes
    <3>2. StageOf(me)'
      BY <1>me, <1>0, <1>14, <2>2, <3>1 DEF Back, StageOf, CallTypes, Ending
    <3> QED BY <1>0, <3>1, <3>2, CallMoves DEF Stage
  <2> QED BY <2>1, <2>2
<1> QED BY <1>1, <1>2, <1>3, <1>4, <1>5, <1>6, <1>7, <1>8, <1>9, <1>10, <1>11, <1>12, <1>13, <1>14
        DEF Next, Run

(* A task that sends or receives does so at an event.                      *)
LEMMA MyEventIs ==
    ASSUME CallTypes, Stages, current \in Task,
           pc[current] \notin {"run", "suspend", "delay", "resume", "yield", "back"}
    PROVE  /\ MyEvent \in Event /\ Other(MyEvent) \in Event
           /\ call[current] \in CallType /\ call[current].kind \in Side
<1>1. call[current] \in CallType /\ call[current].kind # "delay"
  BY DEF CallTypes, Stages, StageOf
<1>2. call[current].kind \in Side /\ call[current].queue \in Queue
  BY <1>1 DEF CallType
<1>3. MyEvent \in Event
  BY <1>2 DEF MyEvent, My, Event
<1>4. Other(MyEvent) \in Event
  BY <1>2 DEF Other, MyEvent, My, Event, Side
<1> QED BY <1>1, <1>2, <1>3, <1>4

----------------------------------------------------------------------------
(* What the operations on the lists do.                                    *)
LEMMA EventValues == EventValue \in [Task -> Int]
BY Constants DEF EventValue, Level

LEMMA UnblockEffect ==
    ASSUME ListTypes, NEW t \in Task, Unblock(t), UNCHANGED wake, next' \in Tick
    PROVE  /\ ListTypes' /\ Ready(t)'
           /\ \A u \in Task : Ready(u) => Ready(u)'
           /\ \A p \in Level : p # Priority[t] => ready'[p] = ready[p]
<1>1. Priority[t] \in Level
  BY Constants
<1>2. /\ ready' = [ready EXCEPT ![Priority[t]] = Append(ready[Priority[t]], t)]
      /\ delayed' = uxListRemove(delayed, t) /\ overflow' = uxListRemove(overflow, t)
      /\ blocked' = blocked \ {t} /\ pending' = uxListRemove(pending, t)
      /\ waits' = [e \in Event |-> uxListRemove(waits[e], t)]
  BY DEF Unblock
<1>3. ready \in [Level -> Seq(Task)] /\ ready[Priority[t]] \in Seq(Task)
  BY <1>1 DEF ListTypes
<1>4. /\ Append(ready[Priority[t]], t) \in Seq(Task)
      /\ Range(Append(ready[Priority[t]], t)) = Range(ready[Priority[t]]) \union {t}
  BY <1>3, Appended
<1>5. \A p \in Level : /\ ready'[p] \in Seq(Task)
                       /\ p # Priority[t] => ready'[p] = ready[p]
                       /\ p = Priority[t] => Range(ready'[p]) = Range(ready[p]) \union {t}
  BY <1>1, <1>2, <1>3, <1>4
<1>6. ready' \in [Level -> Seq(Task)]
  BY <1>1, <1>2, <1>3, <1>4
<1>7. ASSUME NEW p \in Level, NEW u \in Range(ready'[p]) PROVE Priority[u] = p
  <2>1. u \in Range(ready[p]) \/ (p = Priority[t] /\ u = t)
    BY <1>5
  <2> QED BY <2>1 DEF ListTypes
<1>8. delayed' \in Seq(Task) /\ overflow' \in Seq(Task) /\ pending' \in Seq(Task)
  BY <1>2, Removed DEF ListTypes
<1>9. waits' \in [Event -> Seq(Task)]
  BY <1>2, Removed DEF ListTypes
<1>10. ListTypes'
  BY <1>2, <1>6, <1>7, <1>8, <1>9 DEF ListTypes
<1> QED
  BY <1>1, <1>5, <1>10, Constants DEF Ready

LEMMA WakeEffect ==
    ASSUME ListTypes, NEW e \in Event, waits[e] # <<>>, xTaskRemoveFromEventList(e)
    PROVE  /\ ListTypes' /\ Head(waits[e]) \in Task
           /\ \A u \in Task : Ready(u) => Ready(u)'
           /\ suspended => ready' = ready
           /\ \A p \in Level : p # Priority[Head(waits[e])] => ready'[p] = ready[p]
<1>1. PICK t \in Task : t = Head(waits[e]) /\ Tail(waits[e]) \in Seq(Task)
  BY Behead DEF ListTypes
<1>2. UNCHANGED <<wake, next>> /\ next' \in Tick
  BY DEF xTaskRemoveFromEventList, ListTypes
<1>3. CASE suspended
  <2>1. /\ waits' = [waits EXCEPT ![e] = Tail(waits[e])] /\ pending' = Append(pending, t)
        /\ UNCHANGED <<ready, delayed, overflow, blocked>>
    BY <1>1, <1>3 DEF xTaskRemoveFromEventList
  <2>2. pending' \in Seq(Task)
    BY <2>1, Appended DEF ListTypes
  <2>3. waits' \in [Event -> Seq(Task)]
    BY <1>1, <2>1 DEF ListTypes
  <2>4. ListTypes'
    BY <1>2, <2>1, <2>2, <2>3 DEF ListTypes
  <2> QED BY <1>1, <2>1, <2>4 DEF Ready
<1>4. CASE ~suspended
  <2>1. Unblock(t)
    BY <1>1, <1>4 DEF xTaskRemoveFromEventList
  <2> QED BY <1>1, <1>2, <1>4, <2>1, UnblockEffect
<1> QED BY <1>3, <1>4

LEMMA NextWakeType ==
    ASSUME NEW list \in Seq(Task), wake \in [Task -> Tick] PROVE NextWake(list) \in Tick
<1>1. list # <<>> => Head(list) \in Task
  BY Behead
<1> QED BY <1>1, Constants DEF NextWake

LEMMA TickEffect ==
    ASSUME ListTypes, tick \in Tick, entry \in [Task -> EntryType], NEW after,
           vTaskIncrementTick(after)
    PROVE  /\ ListTypes' /\ tick' \in Tick /\ entry' \in [Task -> EntryType]
           /\ UNCHANGED ready /\ masked' \in {"expire", after}
<1>1. tick' \in Tick /\ masked' \in {"expire", after} /\ UNCHANGED <<ready, blocked, pending, waits, wake>>
  BY Constants DEF vTaskIncrementTick, Tick, waitVars
<1>2. CASE tick' = 0
  <2>1. /\ delayed' = overflow /\ overflow' = delayed /\ next' = NextWake(overflow)
        /\ entry' = [t \in Task |-> [entry[t] EXCEPT !.wrapped = entry[t].set]]
    BY <1>2 DEF vTaskIncrementTick
  <2>2. next' \in Tick
    BY <2>1, NextWakeType DEF ListTypes
  <2>3. entry' \in [Task -> EntryType]
    BY <2>1 DEF EntryType
  <2> QED BY <1>1, <2>1, <2>2, <2>3 DEF ListTypes
<1>3. CASE tick' # 0
  <2>1. UNCHANGED <<delayed, overflow, next, entry>>
    BY <1>3 DEF vTaskIncrementTick
  <2> QED BY <1>1, <2>1 DEF ListTypes
<1> QED BY <1>2, <1>3

LEMMA AddEffect ==
    ASSUME ListTypes, tick \in Tick, NEW t \in Task, NEW ticks \in Tick,
           prvAddCurrentTaskToDelayedList(t, ticks)
    PROVE  /\ delayed' \in Seq(Task) /\ overflow' \in Seq(Task)
           /\ wake' \in [Task -> Tick] /\ next' \in Tick
<1> DEFINE w == (tick + ticks) % Ticks
<1>1. w \in Tick
  BY Constants DEF Tick
<1>2. wake' = [wake EXCEPT ![t] = w]
  BY DEF prvAddCurrentTaskToDelayedList
<1>3. \/ overflow' = vListInsert(overflow, t, wake') /\ UNCHANGED <<delayed, next>>
      \/ /\ delayed' = vListInsert(delayed, t, wake') /\ UNCHANGED overflow
         /\ next' = IF w < next THEN w ELSE next
  BY DEF prvAddCurrentTaskToDelayedList
<1> HIDE DEF w
<1>4. wake' \in [Task -> Tick] /\ wake' \in [Task -> Int]
  BY <1>1, <1>2 DEF ListTypes, Tick
<1>5. vListInsert(overflow, t, wake') \in Seq(Task) /\ vListInsert(delayed, t, wake') \in Seq(Task)
  BY <1>4, Inserted DEF ListTypes
<1> QED BY <1>1, <1>3, <1>4, <1>5 DEF ListTypes

LEMMA LeaveEffect ==
    ASSUME ListTypes, NEW t \in Task, LeaveReady(t)
    PROVE  /\ ready' \in [Level -> Seq(Task)]
           /\ \A p \in Level : \A u \in Range(ready'[p]) : Priority[u] = p
           /\ \A u \in Task : Ready(u) /\ u # t => Ready(u)'
           /\ \A p \in Level : ready[p] = <<>> => ready'[p] = <<>>
<1>1. Priority[t] \in Level /\ ready \in [Level -> Seq(Task)]
  BY Constants DEF ListTypes
<1>2. ready' = [ready EXCEPT ![Priority[t]] = uxListRemove(ready[Priority[t]], t)]
  BY DEF LeaveReady
<1> DEFINE rest == uxListRemove(ready[Priority[t]], t)
<1>3. /\ rest \in Seq(Task) /\ Range(rest) \subseteq Range(ready[Priority[t]])
      /\ Range(ready[Priority[t]]) \ {t} \subseteq Range(rest)
  BY <1>1, Removed
<1>4. ready[Priority[t]] = <<>> => rest = <<>>
  <2>1. Range(<<>>) = {}
    BY DEF Range
  <2> QED BY <2>1 DEF uxListRemove
<1> HIDE DEF rest
<1>5. \A p \in Level : ready'[p] = IF p = Priority[t] THEN rest ELSE ready[p]
  BY <1>1, <1>2 DEF rest
<1>6. ready' \in [Level -> Seq(Task)]
  BY <1>1, <1>2, <1>3 DEF rest
<1> QED BY <1>3, <1>4, <1>5, <1>6, Constants DEF ListTypes, Ready

LEMMA TopIsHighest ==
    ASSUME \E p \in Level : ready[p] # <<>>
    PROVE  /\ Top \in Level /\ ready[Top] # <<>>
           /\ \A p \in Level : p > Top => ready[p] = <<>>
<1>1. \E p \in Level : ready[p] # <<>> /\ \A r \in p + 1..4 : ready[r] = <<>>
  <2>1. CASE ready[4] # <<>>
    <3>1. 4 \in Level /\ 4 + 1..4 = {}
      BY DEF Level
    <3> QED BY <2>1, <3>1
  <2>2. CASE ready[4] = <<>> /\ ready[3] # <<>>
    <3>1. 3 \in Level /\ 3 + 1..4 = {4}
      BY DEF Level
    <3> QED BY <2>2, <3>1
  <2>3. CASE ready[4] = <<>> /\ ready[3] = <<>> /\ ready[2] # <<>>
    <3>1. 2 \in Level /\ 2 + 1..4 = {3, 4}
      BY DEF Level
    <3> QED BY <2>3, <3>1
  <2>4. CASE ready[4] = <<>> /\ ready[3] = <<>> /\ ready[2] = <<>> /\ ready[1] # <<>>
    <3>1. 1 \in Level /\ 1 + 1..4 = {2, 3, 4}
      BY DEF Level
    <3> QED BY <2>4, <3>1
  <2>5. CASE ready[4] = <<>> /\ ready[3] = <<>> /\ ready[2] = <<>> /\ ready[1] = <<>>
    <3>1. 0 \in Level /\ 0 + 1..4 = {1, 2, 3, 4} /\ Level = {0, 1, 2, 3, 4}
      BY DEF Level
    <3> QED BY <2>5, <3>1
  <2> QED BY <2>1, <2>2, <2>3, <2>4, <2>5
<1>2. Top \in Level /\ ready[Top] # <<>> /\ \A r \in Top + 1..4 : ready[r] = <<>>
  BY <1>1 DEF Top
<1>3. \A p \in Level : p > Top => p \in Top + 1..4
  BY <1>2 DEF Level
<1> QED BY <1>2, <1>3

LEMMA TurnEffect ==
    ASSUME ListTypes, \E p \in Level : ready[p] # <<>>, Turn
    PROVE  /\ ready' \in [Level -> Seq(Task)]
           /\ \A p \in Level : Range(ready'[p]) = Range(ready[p])
           /\ current' \in Task /\ Ready(current)' /\ Priority[current'] = Top
           /\ \A p \in Level : p > Top => ready'[p] = <<>>
<1> DEFINE list == ready[Top]
<1>1. PICK q \in Level : q = Top /\ ready[q] # <<>> /\ \A p \in Level : p > q => ready[p] = <<>>
  BY TopIsHighest
<1>2. ready \in [Level -> Seq(Task)] /\ ready[q] \in Seq(Task)
  BY DEF ListTypes
<1>3. /\ Head(ready[q]) \in Task /\ Head(ready[q]) \in Range(ready[q]) /\ Tail(ready[q]) \in Seq(Task)
      /\ Range(ready[q]) = Range(Tail(ready[q])) \union {Head(ready[q])}
  BY <1>1, <1>2, Behead
<1>4. /\ Append(Tail(ready[q]), Head(ready[q])) \in Seq(Task)
      /\ Range(Append(Tail(ready[q]), Head(ready[q]))) = Range(ready[q])
  <2> DEFINE h == Head(ready[q])
             r == Tail(ready[q])
  <2>1. h \in Task /\ r \in Seq(Task) /\ Range(ready[q]) = Range(r) \union {h}
    BY <1>3
  <2> HIDE DEF h, r
  <2>2. Append(r, h) \in Seq(Task) /\ Range(Append(r, h)) = Range(r) \union {h}
    BY <2>1, Appended
  <2> QED BY <2>1, <2>2 DEF h, r
<1>5. /\ current' = Head(ready[q])
      /\ ready' = [ready EXCEPT ![q] = Append(Tail(ready[q]), Head(ready[q]))]
  BY <1>1 DEF Turn
<1>6. /\ ready' \in [Level -> Seq(Task)] /\ \A p \in Level : Range(ready'[p]) = Range(ready[p])
      /\ \A p \in Level : p # q => ready'[p] = ready[p]
  BY <1>2, <1>4, <1>5
<1>7. Priority[current'] = q
  BY <1>3, <1>5 DEF ListTypes
<1>8. Ready(current)'
  BY <1>3, <1>5, <1>6, <1>7 DEF Ready
<1>9. \A p \in Level : p > q => p # q
  BY DEF Level
<1> QED BY <1>1, <1>3, <1>5, <1>6, <1>7, <1>8, <1>9

LEMMA UnlockEffect ==
    ASSUME ListTypes, QueueTypes, NEW e \in Event, Unlock(e)
    PROVE  ListTypes' /\ QueueTypes' /\ UNCHANGED ready
<1> DEFINE n == IF lock[e] > Len(waits[e]) THEN Len(waits[e])
                ELSE IF lock[e] > 0 THEN lock[e] ELSE 0
<1>1. waits[e] \in Seq(Task) /\ Len(waits[e]) \in Nat /\ lock[e] \in -1..MaxLock
  BY LenProperties DEF ListTypes, QueueTypes
<1>2. n \in 0..Len(waits[e])
  BY <1>1, Constants
<1>3. /\ waits' = [waits EXCEPT ![e] = SubSeq(waits[e], n + 1, Len(waits[e]))]
      /\ pending' = pending \o SubSeq(waits[e], 1, n)
      /\ lock' = [lock EXCEPT ![e] = -1]
      /\ UNCHANGED <<ready, delayed, overflow, blocked, wake, next, messages>>
  BY DEF Unlock, delayVars
<1> HIDE DEF n
<1>4. SubSeq(waits[e], 1, n) \in Seq(Task) /\ SubSeq(waits[e], n + 1, Len(waits[e])) \in Seq(Task)
  BY <1>1, <1>2, Cut
<1>5. pending' \in Seq(Task)
  BY <1>3, <1>4, Joined DEF ListTypes
<1>6. waits' \in [Event -> Seq(Task)]
  BY <1>3, <1>4 DEF ListTypes
<1>7. lock' \in [Event -> -1..MaxLock]
  BY <1>3, Constants DEF QueueTypes
<1> QED BY <1>3, <1>5, <1>6, <1>7 DEF ListTypes, QueueTypes

----------------------------------------------------------------------------
(* Types.                                                                  *)
LEMMA SomeReady ==
    ASSUME Types, Stages, Resting PROVE \E p \in Level : ready[p] # <<>>
<1>1. PICK t \in Task : Priority[t] = 0 /\ Calls[t] = {}
  BY IdleAssumption
<1>2. pc[t] = "run"
  BY <1>1 DEF Stages, StageOf
<1>3. Ready(t)
  BY <1>2 DEF Resting, Ending
<1>4. 0 \in Level /\ Range(<<>>) = {}
  BY DEF Level, Range
<1> QED BY <1>1, <1>3, <1>4 DEF Ready

LEMMA CallEnds ==
    ASSUME current \in Task, entry \in [Task -> EntryType], left \in [Task -> Nat]
    PROVE  /\ Forget => entry' \in [Task -> EntryType]
           /\ Return => left' \in [Task -> Nat]
<1>1. NoEntry \in EntryType
  BY Constants DEF NoEntry, EntryType
<1> QED BY <1>1 DEF Forget, Return

LEMMA CountBegins ==
    ASSUME current \in Task, tick \in Tick, entry \in [Task -> EntryType], vTaskSetTimeOutState
    PROVE  entry' \in [Task -> EntryType]
<1>1. [set |-> TRUE, tick |-> tick, wrapped |-> FALSE] \in EntryType
  BY DEF EntryType
<1> QED BY <1>1 DEF vTaskSetTimeOutState

LEMMA TypesNext ==
    ASSUME Control, Next PROVE Types'
<1> USE DEF At, listVars, delayVars, waitVars, timeVars, schedulerVars, interruptVars, queueVars,
            callVars
<1>0. /\ ListTypes /\ TimeTypes /\ QueueTypes /\ SchedulerTypes /\ CallTypes /\ Stages
      /\ masked = "drain" => pc[current] = "resume"
      /\ pc[current] # "run" => call[current] \in CallType
  BY DEF Control, Types, Suspension, Stages, StageOf, CallTypes, SchedulerTypes
<1>c. CallTypes'
  BY <1>0, CallsNext DEF TimeTypes, SchedulerTypes
<1>1. CASE SysTick
  <2>1. QueueTypes' /\ SchedulerTypes' /\ left' \in [Task -> Nat] /\ hooks' \in Tick
    <3>1. left' \in [Task -> Nat] /\ hooks' \in Tick
      <4>1. left' \in [Task -> Nat]
        BY <1>0, <1>1, Constants DEF SysTick, CountDown, TimeTypes, Tick
      <4>2. TickHook \/ hooks' = hooks
        BY <1>1 DEF SysTick, vTaskIncrementTick, HookUnlessMissed
      <4>3. hooks' \in Tick
        BY <1>0, <4>2, Constants DEF TickHook, TimeTypes, Tick
      <4> QED BY <4>1, <4>3
    <3>2. masked' \in {"no", "expire"}
      BY <1>1 DEF SysTick, vTaskIncrementTick
    <3> QED BY <1>0, <1>1, <3>1, <3>2 DEF SysTick, QueueTypes, SchedulerTypes
  <2>2. CASE suspended
    <3>1. missed' \in 0..MaxMissed
      BY <1>0, <1>1, <2>2, Constants DEF SysTick, TimeTypes
    <3> QED BY <1>0, <1>1, <1>c, <2>1, <2>2, <3>1 DEF SysTick, Types, ListTypes, TimeTypes
  <2>3. CASE ~suspended
    <3>1. ListTypes' /\ tick' \in Tick /\ entry' \in [Task -> EntryType]
      BY <1>0, <1>1, <2>3, TickEffect DEF SysTick, TimeTypes
    <3> QED BY <1>0, <1>1, <1>c, <2>1, <2>3, <3>1 DEF SysTick, Types, TimeTypes
  <2> QED BY <2>2, <2>3
<1>2. CASE prvCheckDelayedTasks
  <2>1. TimeTypes' /\ QueueTypes' /\ SchedulerTypes'
    BY <1>0, <1>2 DEF prvCheckDelayedTasks, TimeTypes, QueueTypes, SchedulerTypes
  <2>2. CASE delayed # <<>> /\ wake[Head(delayed)] <= tick
    <3>1. PICK t \in Task : t = Head(delayed)
      BY <1>0, <2>2, Behead DEF ListTypes
    <3>2. Unblock(t) /\ UNCHANGED wake /\ next' \in Tick
      BY <1>0, <1>2, <2>2, <3>1 DEF prvCheckDelayedTasks, ListTypes
    <3> QED BY <1>0, <1>c, <2>1, <3>2, UnblockEffect DEF Types
  <2>3. CASE ~(delayed # <<>> /\ wake[Head(delayed)] <= tick)
    <3>1. NextWake(delayed) \in Tick
      BY <1>0, NextWakeType DEF ListTypes
    <3>2. ListTypes'
      BY <1>0, <1>2, <2>3, <3>1 DEF prvCheckDelayedTasks, ListTypes
    <3> QED BY <1>c, <2>1, <3>2 DEF Types
  <2> QED BY <2>2, <2>3
<1>3. CASE PendSV
  <2>1. TimeTypes' /\ QueueTypes'
    BY <1>0, <1>3 DEF PendSV, TimeTypes, QueueTypes
  <2>2. CASE suspended
    BY <1>0, <1>3, <1>c, <2>1, <2>2 DEF PendSV, Types, ListTypes, SchedulerTypes
  <2>3. CASE ~suspended
    <3>1. Turn /\ UNCHANGED <<delayed, overflow, blocked, wake, next, pending, waits>>
      BY <1>3, <2>3 DEF PendSV
    <3>2. /\ ready' \in [Level -> Seq(Task)] /\ current' \in Task
          /\ \A p \in Level : Range(ready'[p]) = Range(ready[p])
      BY <1>0, <3>1, SomeReady, TurnEffect DEF Control
    <3>3. ListTypes'
      BY <1>0, <3>1, <3>2 DEF ListTypes
    <3>4. SchedulerTypes'
      BY <1>0, <1>3, <2>3, <3>2 DEF PendSV, SchedulerTypes
    <3> QED BY <1>c, <2>1, <3>3, <3>4 DEF Types
  <2> QED BY <2>2, <2>3
<1>4. CASE \E e \in IsrQueues \X Side : FromISR(e)
  <2>1. PICK e \in Event : FromISR(e)
    BY <1>4, QueueAssumption DEF Event
  <2>2. Other(e) \in Event /\ e[1] \in Queue /\ e[2] \in Side
    BY DEF Other, Event, Side
  <2>3. TimeTypes'
    BY <1>0, <2>1 DEF FromISR, TimeTypes
  <2>4. messages' \in [Queue -> 0..Length]
    BY <1>0, <2>1, <2>2, Constants DEF FromISR, Open, Copy, QueueTypes, Side
  <2>5. lock' \in [Event -> -1..MaxLock]
    BY <1>0, <2>1, <2>2, Constants DEF FromISR, QueueTypes
  <2>6. SchedulerTypes'
    BY <1>0, <2>1 DEF FromISR, SchedulerTypes, Urgent
  <2>7. ListTypes'
    <3>1. CASE UNCHANGED listVars
      BY <1>0, <3>1 DEF ListTypes
    <3>2. CASE ~UNCHANGED listVars
      <4>1. waits[Other(e)] # <<>> /\ xTaskRemoveFromEventList(Other(e))
        BY <2>1, <3>2 DEF FromISR
      <4> QED BY <1>0, <2>2, <4>1, WakeEffect
    <3> QED BY <3>1, <3>2
  <2> QED BY <1>c, <2>3, <2>4, <2>5, <2>6, <2>7 DEF Types, QueueTypes
<1>5. CASE Use
  BY <1>0, <1>5, <1>c DEF Use, Types, ListTypes, TimeTypes, QueueTypes, SchedulerTypes
<1>6. CASE Succeed
  <2>1. PICK e \in Event : e = MyEvent
    BY <1>0, <1>6, MyEventIs DEF Succeed, SchedulerTypes
  <2>2. Other(e) \in Event /\ e[1] \in Queue /\ e[2] \in Side
    BY DEF Other, Event, Side
  <2>3. messages' \in [Queue -> 0..Length] /\ lock' = lock
    BY <1>0, <1>6, <2>1, <2>2, Constants DEF Succeed, Open, Copy, QueueTypes, Side
  <2>4. SchedulerTypes'
    <3>1. waits[Other(e)] # <<>> => Head(waits[Other(e)]) \in Task
      BY <1>0, <2>2, Behead DEF ListTypes
    <3>2. pendSV' \in BOOLEAN
      <4>1. CASE waits[Other(e)] = <<>>
        BY <1>0, <1>6, <2>1, <4>1 DEF Succeed, SchedulerTypes
      <4>2. CASE waits[Other(e)] # <<>>
        <5>1. pendSV' = Urgent(Head(waits[Other(e)]))
          BY <1>6, <2>1, <4>2 DEF Succeed
        <5>2. Urgent(Head(waits[Other(e)])) \in BOOLEAN
          BY <1>0, <3>1, <4>2, Constants DEF Urgent, SchedulerTypes, Level
        <5> QED BY <5>1, <5>2
      <4> QED BY <4>1, <4>2
    <3> QED BY <1>0, <1>6, <3>2 DEF Succeed, SchedulerTypes
  <2>5. TimeTypes'
    <3>1. entry' \in [Task -> EntryType] /\ left' \in [Task -> Nat]
      BY <1>0, <1>6, CallEnds DEF Succeed, TimeTypes, SchedulerTypes
    <3> QED BY <1>0, <1>6, <3>1 DEF Succeed, TimeTypes
  <2>6. ListTypes'
    <3>1. CASE UNCHANGED listVars
      BY <1>0, <3>1 DEF ListTypes
    <3>2. CASE ~UNCHANGED listVars
      <4>1. waits[Other(e)] # <<>> /\ xTaskRemoveFromEventList(Other(e))
        BY <1>6, <2>1, <3>2 DEF Succeed
      <4> QED BY <1>0, <2>2, <4>1, WakeEffect
    <3> QED BY <3>1, <3>2
  <2> QED BY <1>0, <1>c, <2>3, <2>4, <2>5, <2>6 DEF Types, QueueTypes
<1>7. CASE Fail
  <2>1. TimeTypes'
    <3>1. entry' \in [Task -> EntryType] /\ left' \in [Task -> Nat]
      BY <1>0, <1>7, CallEnds DEF Fail, TimeTypes, SchedulerTypes
    <3> QED BY <1>0, <1>7, <3>1 DEF Fail, TimeTypes
  <2> QED BY <1>0, <1>7, <1>c, <2>1 DEF Fail, Types, ListTypes, QueueTypes, SchedulerTypes
<1>8. CASE Enter
  <2>1. My.ticks \in Nat
    BY <1>0, <1>8, Constants DEF Enter, My, CallType, Tick
  <2>2. entry' \in [Task -> EntryType] /\ left' \in [Task -> Nat]
    <3>1. \/ UNCHANGED <<entry, left>>
          \/ vTaskSetTimeOutState /\ left' = [left EXCEPT ![current] = My.ticks]
      BY <1>8 DEF Enter
    <3> QED BY <1>0, <2>1, <3>1, CountBegins DEF TimeTypes, SchedulerTypes
  <2>3. TimeTypes'
    BY <1>0, <1>8, <2>2 DEF Enter, TimeTypes
  <2> QED BY <1>0, <1>8, <1>c, <2>3 DEF Enter, Types, ListTypes, QueueTypes, SchedulerTypes
<1>9. CASE vTaskSuspendAll
  <2>1. My.ticks \in Nat
    BY <1>0, <1>9, Constants DEF vTaskSuspendAll, My, CallType, Tick
  <2> QED BY <1>0, <1>9, <1>c, <2>1
          DEF vTaskSuspendAll, Types, ListTypes, TimeTypes, QueueTypes, SchedulerTypes
<1>10. CASE prvLockQueue
  <2>1. lock' \in [Event -> -1..MaxLock]
    BY <1>0, <1>10, Constants DEF prvLockQueue, QueueTypes
  <2> QED BY <1>0, <1>10, <1>c, <2>1
          DEF prvLockQueue, Types, ListTypes, TimeTypes, QueueTypes, SchedulerTypes
<1>11. CASE xTaskCheckForTimeOut
  <2>1. entry' \in [Task -> EntryType]
    <3>1. UNCHANGED entry \/ vTaskSetTimeOutState
      BY <1>11 DEF xTaskCheckForTimeOut
    <3> QED BY <1>0, <3>1, CountBegins DEF TimeTypes, SchedulerTypes
  <2> QED BY <1>0, <1>11, <1>c, <2>1
          DEF xTaskCheckForTimeOut, Types, ListTypes, TimeTypes, QueueTypes, SchedulerTypes
<1>12. CASE Test
  BY <1>0, <1>12, <1>c DEF Test, Types, ListTypes, TimeTypes, QueueTypes, SchedulerTypes
<1>13. CASE vTaskPlaceOnEventList
  <2>1. PICK t \in Task : t = current
    BY <1>0 DEF SchedulerTypes
  <2>2. call[t] \in CallType /\ pc[t] = "place"
    BY <1>0, <1>13, <2>1 DEF vTaskPlaceOnEventList
  <2>3. PICK e \in Event : e = MyEvent
    BY <1>0, <2>1, <2>2, MyEventIs DEF SchedulerTypes
  <2>4. /\ ready' \in [Level -> Seq(Task)]
        /\ \A p \in Level : \A u \in Range(ready'[p]) : Priority[u] = p
    BY <1>0, <1>13, <2>1, LeaveEffect DEF vTaskPlaceOnEventList
  <2>5. waits' \in [Event -> Seq(Task)]
    <3>1. waits[e] \in Seq(Task)
      BY <1>0 DEF ListTypes
    <3>2. vListInsert(waits[e], t, EventValue) \in Seq(Task)
      BY <3>1, EventValues, Inserted
    <3> QED BY <1>0, <1>13, <2>1, <2>3, <3>2 DEF vTaskPlaceOnEventList, ListTypes
  <2>6. /\ delayed' \in Seq(Task) /\ overflow' \in Seq(Task) /\ wake' \in [Task -> Tick]
        /\ next' \in Tick /\ blocked' \subseteq Task
    <3>1. CASE My.ticks = portMAX_DELAY
      BY <1>0, <1>13, <2>1, <3>1 DEF vTaskPlaceOnEventList, ListTypes
    <3>2. CASE My.ticks # portMAX_DELAY
      <4>1. PICK ticks \in Tick : ticks = My.ticks
        BY <2>1, <2>2 DEF My, CallType
      <4>2. prvAddCurrentTaskToDelayedList(t, ticks) /\ UNCHANGED blocked
        BY <1>13, <2>1, <3>2, <4>1 DEF vTaskPlaceOnEventList
      <4> QED BY <1>0, <4>2, AddEffect DEF ListTypes, TimeTypes
    <3> QED BY <3>1, <3>2
  <2>7. ListTypes'
    BY <1>0, <1>13, <2>4, <2>5, <2>6 DEF vTaskPlaceOnEventList, ListTypes
  <2> QED BY <1>0, <1>13, <1>c, <2>7
          DEF vTaskPlaceOnEventList, Types, TimeTypes, QueueTypes, SchedulerTypes
<1>14. CASE UnlockTx \/ UnlockRx
  <2>1. call[current] \in CallType
    BY <1>0, <1>14 DEF UnlockTx, UnlockRx
  <2>2. PICK e \in Event : Unlock(e)
    BY <1>14, <2>1 DEF UnlockTx, UnlockRx, My, CallType, Event, Side
  <2>3. ListTypes' /\ QueueTypes'
    BY <1>0, <2>2, UnlockEffect
  <2>4. TimeTypes' /\ SchedulerTypes'
    BY <1>0, <2>2 DEF Unlock, TimeTypes, SchedulerTypes, Urgent
  <2> QED BY <1>c, <2>3, <2>4 DEF Types
<1>15. CASE vTaskDelay
  <2>1. PICK t \in Task : t = current
    BY <1>0 DEF SchedulerTypes
  <2>2. PICK ticks \in Tick : ticks = My.ticks
    BY <1>0, <1>15 DEF vTaskDelay, My, CallType
  <2>3. prvAddCurrentTaskToDelayedList(t, ticks) /\ LeaveReady(t)
    BY <1>15, <2>1, <2>2 DEF vTaskDelay
  <2>4. /\ delayed' \in Seq(Task) /\ overflow' \in Seq(Task) /\ wake' \in [Task -> Tick]
        /\ next' \in Tick
    BY <1>0, <2>3, AddEffect DEF TimeTypes
  <2>5. /\ ready' \in [Level -> Seq(Task)]
        /\ \A p \in Level : \A u \in Range(ready'[p]) : Priority[u] = p
    BY <1>0, <2>3, LeaveEffect
  <2>6. ListTypes'
    BY <1>0, <1>15, <2>4, <2>5 DEF vTaskDelay, ListTypes
  <2> QED BY <1>0, <1>15, <1>c, <2>6
          DEF vTaskDelay, Types, TimeTypes, QueueTypes, SchedulerTypes
<1>16. CASE xTaskResumeAll
  BY <1>0, <1>16, <1>c
     DEF xTaskResumeAll, Types, ListTypes, TimeTypes, QueueTypes, SchedulerTypes
<1>17. CASE DrainPending
  <2>1. PICK t \in Task : t = Head(pending)
    BY <1>0, <1>17, Behead DEF DrainPending, ListTypes
  <2>2. Unblock(t) /\ UNCHANGED wake /\ next' \in Tick
    BY <1>0, <1>17, <2>1 DEF DrainPending, ListTypes
  <2>3. TimeTypes' /\ QueueTypes' /\ SchedulerTypes'
    BY <1>0, <1>17 DEF DrainPending, TimeTypes, QueueTypes, SchedulerTypes, Urgent
  <2> QED BY <1>0, <1>c, <2>2, <2>3, UnblockEffect DEF Types
<1>18. CASE ReplayTick
  <2>1. /\ ListTypes' /\ tick' \in Tick /\ entry' \in [Task -> EntryType]
        /\ masked' \in {"expire", "drain"}
    BY <1>0, <1>18, TickEffect DEF ReplayTick, TimeTypes
  <2>2. missed' \in 0..MaxMissed
    BY <1>0, <1>18, Constants DEF ReplayTick, TimeTypes
  <2>3. left' \in [Task -> Nat] /\ hooks' \in Tick
    <3>1. hooks' = hooks
      BY <1>0, <1>18 DEF ReplayTick, vTaskIncrementTick, HookUnlessMissed, TimeTypes
    <3> QED BY <1>0, <1>18, <3>1 DEF ReplayTick, TimeTypes
  <2>4. QueueTypes' /\ SchedulerTypes'
    BY <1>0, <1>18, <2>1 DEF ReplayTick, QueueTypes, SchedulerTypes
  <2> QED BY <1>c, <2>1, <2>2, <2>3, <2>4 DEF Types, TimeTypes
<1>19. CASE Resumed
  <2>1. entry' \in [Task -> EntryType] /\ left' \in [Task -> Nat]
    <3>1. My.then \in {"fail", "retry", "wait", "sleep"}
      BY <1>0, <1>19 DEF Resumed, Stages, StageOf, Ending, My, SchedulerTypes
    <3>2. CASE My.then = "fail"
      <4>1. Return /\ Forget
        BY <1>19, <3>2 DEF Resumed, Continue
      <4> QED BY <1>0, <4>1, CallEnds DEF TimeTypes, SchedulerTypes
    <3>3. CASE My.then # "fail"
      BY <1>0, <1>19, <3>1, <3>3 DEF Resumed, Continue, TimeTypes
    <3> QED BY <3>2, <3>3
  <2>2. TimeTypes'
    BY <1>0, <1>19, <2>1 DEF Resumed, TimeTypes
  <2> QED BY <1>0, <1>19, <1>c, <2>2
          DEF Resumed, Types, ListTypes, QueueTypes, SchedulerTypes
<1>20. CASE Yield
  BY <1>0, <1>20, <1>c DEF Yield, Types, ListTypes, TimeTypes, QueueTypes, SchedulerTypes
<1>21. CASE Back
  <2>1. left' \in [Task -> Nat]
    BY <1>0, <1>21 DEF Back, Return, TimeTypes, SchedulerTypes
  <2> QED BY <1>0, <1>21, <1>c, <2>1
          DEF Back, Types, ListTypes, TimeTypes, QueueTypes, SchedulerTypes
<1> QED
  BY <1>1, <1>2, <1>3, <1>4, <1>5, <1>6, <1>7, <1>8, <1>9, <1>10, <1>11, <1>12, <1>13, <1>14,
     <1>15, <1>16, <1>17, <1>18, <1>19, <1>20, <1>21
  DEF Next, Interrupt, Run, Resume

----------------------------------------------------------------------------
(* The task that runs.                                                     *)

(* Only a task that puts itself into a list stops being ready.             *)
LEMMA StaysReady ==
    ASSUME Control, Next, NEW u \in Task, Ready(u),
           ~(u = current /\ (vTaskPlaceOnEventList \/ vTaskDelay))
    PROVE  Ready(u)'
<1> USE DEF listVars, delayVars, waitVars
<1>0. /\ ListTypes /\ TimeTypes /\ SchedulerTypes /\ CallTypes /\ Stages
      /\ \E p \in Level : ready[p] # <<>>
  BY SomeReady DEF Control, Types
<1>1. UNCHANGED ready => Ready(u)'
  BY DEF Ready
<1>2. CASE SysTick
  <2>1. CASE suspended
    BY <1>1, <1>2, <2>1 DEF SysTick
  <2>2. CASE ~suspended
    BY <1>0, <1>1, <1>2, <2>2, TickEffect DEF SysTick, TimeTypes
  <2> QED BY <2>1, <2>2
<1>3. CASE prvCheckDelayedTasks
  <2>1. CASE delayed # <<>> /\ wake[Head(delayed)] <= tick
    <3>1. PICK t \in Task : t = Head(delayed)
      BY <1>0, <2>1, Behead DEF ListTypes
    <3>2. Unblock(t) /\ UNCHANGED wake /\ next' \in Tick
      BY <1>0, <1>3, <2>1, <3>1 DEF prvCheckDelayedTasks, ListTypes
    <3> QED BY <1>0, <3>2, UnblockEffect
  <2>2. CASE ~(delayed # <<>> /\ wake[Head(delayed)] <= tick)
    BY <1>1, <1>3, <2>2 DEF prvCheckDelayedTasks
  <2> QED BY <2>1, <2>2
<1>4. CASE PendSV
  <2>1. CASE suspended
    BY <1>1, <1>4, <2>1 DEF PendSV
  <2>2. CASE ~suspended
    <3>1. Turn
      BY <1>4, <2>2 DEF PendSV
    <3>2. \A p \in Level : Range(ready'[p]) = Range(ready[p])
      BY <1>0, <3>1, TurnEffect
    <3> QED BY <3>2, Constants DEF Ready
  <2> QED BY <2>1, <2>2
<1>5. CASE (\E e \in IsrQueues \X Side : FromISR(e)) \/ Succeed
  <2>1. UNCHANGED ready \/ \E e \in Event : waits[e] # <<>> /\ xTaskRemoveFromEventList(e)
    <3>1. CASE \E e \in IsrQueues \X Side : FromISR(e)
      <4>1. PICK e \in Event : FromISR(e) /\ Other(e) \in Event
        BY <3>1, QueueAssumption DEF Event, Other, Side
      <4> QED BY <4>1 DEF FromISR
    <3>2. CASE Succeed
      <4>1. Other(MyEvent) \in Event
        BY <1>0, <3>2, MyEventIs DEF Succeed, At, SchedulerTypes
      <4> QED BY <3>2, <4>1 DEF Succeed
    <3> QED BY <1>5, <3>1, <3>2
  <2> QED BY <1>0, <1>1, <2>1, WakeEffect
<1>6. CASE vTaskPlaceOnEventList \/ vTaskDelay
  <2>1. PICK t \in Task : t = current /\ t # u
    BY <1>0, <1>6 DEF SchedulerTypes
  <2>2. LeaveReady(t)
    BY <1>6, <2>1 DEF vTaskPlaceOnEventList, vTaskDelay
  <2> QED BY <1>0, <2>1, <2>2, LeaveEffect
<1>7. CASE DrainPending
  <2>1. PICK t \in Task : t = Head(pending)
    BY <1>0, <1>7, Behead DEF DrainPending, ListTypes
  <2>2. Unblock(t) /\ UNCHANGED wake /\ next' \in Tick
    BY <1>0, <1>7, <2>1 DEF DrainPending, ListTypes
  <2> QED BY <1>0, <2>2, UnblockEffect
<1>8. CASE ReplayTick
  BY <1>0, <1>1, <1>8, TickEffect DEF ReplayTick, TimeTypes
<1>9. CASE UnlockTx \/ UnlockRx
  BY <1>1, <1>9 DEF UnlockTx, UnlockRx, Unlock
<1>10. CASE \/ Use \/ Fail \/ Enter \/ vTaskSuspendAll \/ prvLockQueue \/ xTaskCheckForTimeOut
            \/ Test \/ xTaskResumeAll \/ Resumed \/ Yield \/ Back
  BY <1>1, <1>10 DEF Use, Fail, Enter, vTaskSuspendAll, prvLockQueue, xTaskCheckForTimeOut, Test,
                     xTaskResumeAll, Resumed, Yield, Back
<1> QED
  BY <1>2, <1>3, <1>4, <1>5, <1>6, <1>7, <1>8, <1>9, <1>10 DEF Next, Interrupt, Run, Resume

LEMMA SuspensionNext ==
    ASSUME Control, Next PROVE Suspension'
<1> USE DEF At, Goto, schedulerVars, interruptVars, callVars
<1>0. /\ current \in Task /\ pc \in [Task -> Stage] /\ suspended \in BOOLEAN
      /\ Suspension /\ Stages
  BY DEF Control, Types, SchedulerTypes, CallTypes
<1>1. CASE SysTick
  <2>1. UNCHANGED <<current, suspended, pc>> /\ masked = "no" /\ pendSV' = TRUE
    BY <1>1 DEF SysTick
  <2>2. masked' \in {"no", "expire"} /\ (suspended => masked' = "no")
    BY <1>1, <2>1 DEF SysTick, vTaskIncrementTick
  <2> QED BY <1>0, <2>1, <2>2 DEF Suspension
<1>2. CASE prvCheckDelayedTasks
  <2>1. UNCHANGED <<current, suspended, pc, pendSV>> /\ masked = "expire"
    BY <1>2 DEF prvCheckDelayedTasks
  <2>2. masked' = "expire" \/ masked' = IF suspended THEN "drain" ELSE "no"
    BY <1>2, <2>1 DEF prvCheckDelayedTasks
  <2> QED BY <1>0, <2>1, <2>2 DEF Suspension
<1>3. CASE PendSV
  <2>1. UNCHANGED <<suspended, pc, masked>> /\ masked = "no"
    BY <1>3 DEF PendSV
  <2>2. CASE suspended
    <3>1. UNCHANGED current
      BY <1>3, <2>2 DEF PendSV
    <3> QED BY <1>0, <2>1, <3>1 DEF Suspension
  <2>3. CASE ~suspended
    <3>1. \A t \in Task : pc[t] \notin Suspending
      BY <1>0, <2>3 DEF Suspension
    <3>2. current' \in Task
      BY TypesNext DEF Types, SchedulerTypes
    <3> QED BY <2>1, <2>3, <3>1, <3>2 DEF Suspension
  <2> QED BY <2>2, <2>3
<1>4. CASE \E e \in IsrQueues \X Side : FromISR(e)
  <2>1. UNCHANGED <<current, suspended, pc, masked>> /\ masked = "no"
    BY <1>4 DEF FromISR
  <2> QED BY <1>0, <2>1 DEF Suspension
(* The steps of the task with interrupts on: it moves to another place.    *)
<1>5. ASSUME NEW s \in Stage, UNCHANGED <<current, masked>>, masked = "no",
             pc' = [pc EXCEPT ![current] = s], suspended' <=> s \in Suspending
      PROVE  Suspension'
  BY <1>0, <1>5 DEF Suspension
<1>6. CASE Use \/ Succeed \/ Fail \/ Enter \/ Yield \/ Back
  <2>1. PICK s \in {"suspend", "try", "run", "back"} : pc' = [pc EXCEPT ![current] = s]
    <3>1. CASE Use \/ Enter \/ Yield
      BY <3>1 DEF Use, Enter, Yield
    <3>2. CASE Succeed \/ Fail
      BY <3>2 DEF Succeed, Fail, Return
    <3>3. CASE Back
      BY <3>3 DEF Back, Return
    <3> QED BY <1>6, <3>1, <3>2, <3>3
  <2>2. /\ UNCHANGED <<current, masked, suspended>> /\ masked = "no"
        /\ pc[current] \in {"run", "try", "yield", "back"}
    BY <1>6 DEF Use, Succeed, Fail, Enter, Yield, Back
  <2>3. ~suspended
    BY <1>0, <2>2 DEF Suspension, Suspending
  <2> QED BY <1>0, <1>5, <2>1, <2>2, <2>3 DEF Suspending, Stage
<1>7. CASE vTaskSuspendAll
  <2>1. PICK s \in {"delay", "lock"} : pc' = [pc EXCEPT ![current] = s]
    BY <1>7 DEF vTaskSuspendAll
  <2>2. UNCHANGED <<current, masked>> /\ masked = "no" /\ suspended' = TRUE
    BY <1>7 DEF vTaskSuspendAll
  <2> QED BY <1>5, <2>1, <2>2 DEF Suspending, Stage
<1>8. CASE \/ prvLockQueue \/ xTaskCheckForTimeOut \/ Test \/ vTaskPlaceOnEventList
           \/ UnlockTx \/ UnlockRx \/ vTaskDelay
  <2>1. PICK s \in Suspending : pc' = [pc EXCEPT ![current] = s]
    BY <1>8 DEF prvLockQueue, xTaskCheckForTimeOut, Test, vTaskPlaceOnEventList, UnlockTx,
                UnlockRx, vTaskDelay, Suspending
  <2>2. /\ UNCHANGED <<current, masked, suspended>> /\ masked = "no"
        /\ pc[current] \in Suspending
    BY <1>8 DEF prvLockQueue, xTaskCheckForTimeOut, Test, vTaskPlaceOnEventList, UnlockTx,
                UnlockRx, Unlock, vTaskDelay, Suspending
  <2>3. suspended
    BY <1>0, <2>2 DEF Suspension
  <2> QED BY <1>0, <1>5, <2>1, <2>2, <2>3 DEF Suspending, Stage
<1>9. CASE xTaskResumeAll
  <2>1. /\ UNCHANGED <<current, suspended, pc>> /\ masked' = "drain" /\ pc[current] = "resume"
    BY <1>9 DEF xTaskResumeAll
  <2> QED BY <1>0, <2>1 DEF Suspension, Suspending
<1>10. CASE DrainPending
  <2>1. UNCHANGED <<current, suspended, pc, masked>> /\ masked = "drain"
    BY <1>10 DEF DrainPending
  <2> QED BY <1>0, <2>1 DEF Suspension
<1>11. CASE ReplayTick
  <2>1. UNCHANGED <<current, suspended, pc>> /\ masked = "drain" /\ pendSV' = TRUE
    BY <1>11 DEF ReplayTick
  <2>2. masked' \in {"drain", "expire"}
    BY <1>11 DEF ReplayTick, vTaskIncrementTick
  <2> QED BY <1>0, <2>1, <2>2 DEF Suspension
<1>12. CASE Resumed
  <2>1. My.then \in {"fail", "retry", "wait", "sleep"} /\ pc[current] = "resume"
    BY <1>0, <1>12 DEF Resumed, Suspension, Stages, StageOf, Ending, My
  <2>2. PICK s \in {"run", "try", "back", "yield"} : pc' = [pc EXCEPT ![current] = s]
    BY <1>12, <2>1 DEF Resumed, Continue, Return
  <2>3. masked' = "no" /\ suspended' = FALSE /\ UNCHANGED current
    BY <1>12 DEF Resumed
  <2>4. \A t \in Task : pc'[t] \notin Suspending
    BY <1>0, <2>2 DEF Suspension, Suspending
  <2> QED BY <1>0, <2>3, <2>4 DEF Suspension
<1> QED
  BY <1>1, <1>2, <1>3, <1>4, <1>6, <1>7, <1>8, <1>9, <1>10, <1>11, <1>12
  DEF Next, Interrupt, Run, Resume

(* A task that goes on with its call is ready, except at the end of it.    *)
LEMMA GoesOnReady ==
    ASSUME Control, ~pendSV, pc[current] \notin Ending \union {"yield"}
    PROVE  Ready(current)
<1>1. current \in Task /\ pc[current] = "back" => ~suspended
  BY DEF Control, Types, SchedulerTypes, Suspension, Suspending
<1> QED BY <1>1 DEF Control, Resting, Types, SchedulerTypes

LEMMA RestingNext ==
    ASSUME Control, Next PROVE Resting'
<1> USE DEF At, Goto, My, Then, schedulerVars, interruptVars, callVars
<1>0. /\ current \in Task /\ CallTypes /\ Stages /\ Suspension /\ Resting
      /\ suspended \in BOOLEAN /\ pendSV \in BOOLEAN
  BY DEF Control, Types, SchedulerTypes
<1> DEFINE Rests(t) == \/ pc[t] \in {"yield", "back"}
                       \/ pc[t] \in Ending /\ call[t].then \in {"wait", "sleep"}
           Goes == suspended \/ pendSV \/ pc[current] = "yield"
<1>1. ASSUME \A t \in Task : Ready(t) => Ready(t)', UNCHANGED <<pc, call>>
      PROVE  \A t \in Task : ~Ready(t)' => Rests(t)'
  BY <1>0, <1>1 DEF Resting
<1>2. CASE Interrupt
  <2>1. \A t \in Task : Ready(t) => Ready(t)'
    <3> TAKE t \in Task
    <3>1. UNCHANGED pc /\ pc[current] \in {"place", "delay"} => ~(vTaskPlaceOnEventList \/ vTaskDelay)
      BY <1>0 DEF vTaskPlaceOnEventList, vTaskDelay, CallTypes
    <3>2. UNCHANGED pc
      BY <1>2 DEF Interrupt, SysTick, prvCheckDelayedTasks, PendSV, FromISR
    <3>3. ~(vTaskPlaceOnEventList \/ vTaskDelay)
      BY <3>1, <3>2 DEF vTaskPlaceOnEventList, vTaskDelay
    <3> QED BY <1>2, <3>3, StaysReady
  <2>2. UNCHANGED <<pc, call>>
    BY <1>2 DEF Interrupt, SysTick, prvCheckDelayedTasks, PendSV, FromISR
  <2>3. ~Ready(current)' => Goes'
    <3>1. CASE PendSV /\ ~suspended
      <4>1. Turn
        BY <3>1 DEF PendSV
      <4> QED BY <4>1, SomeReady, TurnEffect DEF Control, Types
    <3>2. CASE ~(PendSV /\ ~suspended)
      <4>1. UNCHANGED <<current, suspended>>
        BY <1>2, <3>2 DEF Interrupt, SysTick, prvCheckDelayedTasks, PendSV, FromISR
      <4>2. pendSV => pendSV' \/ suspended
        BY <1>2, <3>2 DEF Interrupt, SysTick, prvCheckDelayedTasks, PendSV, FromISR
      <4> QED BY <1>0, <2>1, <2>2, <4>1, <4>2 DEF Resting
    <3> QED BY <3>1, <3>2
  <2> QED BY <1>1, <2>1, <2>2, <2>3 DEF Resting
(* The steps of the running task.                                          *)
<1>3. ASSUME UNCHANGED current, \A t \in Task \ {current} : pc'[t] = pc[t] /\ call'[t] = call[t],
             \A t \in Task \ {current} : Ready(t) => Ready(t)',
             ~Ready(current)' => Rests(current)' /\ Goes'
      PROVE  Resting'
  BY <1>0, <1>3 DEF Resting
<1>4. ASSUME Next, UNCHANGED current PROVE \A t \in Task \ {current} : Ready(t) => Ready(t)'
  BY StaysReady
<1>5. CASE \/ Use \/ Succeed \/ Fail \/ Enter \/ vTaskSuspendAll \/ prvLockQueue
           \/ xTaskCheckForTimeOut \/ Test \/ Back
  <2>1. /\ ~pendSV /\ UNCHANGED current
        /\ pc[current] \in {"run", "try", "suspend", "lock", "check", "test", "back"}
    BY <1>5 DEF Use, Succeed, Fail, Enter, vTaskSuspendAll, prvLockQueue, xTaskCheckForTimeOut,
                Test, Back
  <2>2. Ready(current)
    BY <2>1, GoesOnReady DEF Ending
  <2>3. ~(vTaskPlaceOnEventList \/ vTaskDelay)
    BY <2>1 DEF vTaskPlaceOnEventList, vTaskDelay
  <2>4. Ready(current)'
    BY <1>0, <2>1, <2>2, <2>3, StaysReady DEF Ready
  <2>5. \A t \in Task \ {current} : pc'[t] = pc[t] /\ call'[t] = call[t]
    BY <1>0, <1>5 DEF Use, Succeed, Fail, Return, Enter, vTaskSuspendAll, prvLockQueue,
                xTaskCheckForTimeOut, Test, Back, CallTypes
  <2> QED BY <1>3, <1>4, <2>1, <2>4, <2>5
<1>6. CASE vTaskPlaceOnEventList \/ vTaskDelay
  <2>1. /\ UNCHANGED <<current, suspended>> /\ pc[current] \in Suspending
        /\ pc'[current] \in Ending /\ call'[current].then \in {"wait", "sleep"}
        /\ \A t \in Task \ {current} : pc'[t] = pc[t] /\ call'[t] = call[t]
    <3>1. CASE vTaskPlaceOnEventList
      BY <1>0, <3>1
         DEF vTaskPlaceOnEventList, CallTypes, Stages, StageOf, Ending, Suspending
    <3>2. CASE vTaskDelay
      <4>1. call[current] \in CallType
        BY <1>0, <3>2 DEF vTaskDelay, CallTypes, Stages, StageOf
      <4> QED BY <1>0, <3>2, <4>1 DEF vTaskDelay, CallTypes, CallType, Ending, Suspending
    <3> QED BY <1>6, <3>1, <3>2
  <2>2. suspended
    BY <1>0, <2>1 DEF Suspension
  <2> QED BY <1>3, <1>4, <2>1, <2>2
<1>7. CASE UnlockTx \/ UnlockRx
  <2>1. /\ UNCHANGED <<current, suspended, call>> /\ pc[current] \in Ending /\ pc'[current] \in Ending
        /\ \A t \in Task \ {current} : pc'[t] = pc[t]
    BY <1>0, <1>7 DEF UnlockTx, UnlockRx, Unlock, CallTypes, Ending
  <2>2. suspended
    BY <1>0, <2>1 DEF Suspension, Ending, Suspending
  <2>3. ~(vTaskPlaceOnEventList \/ vTaskDelay)
    BY <2>1 DEF vTaskPlaceOnEventList, vTaskDelay, Ending
  <2>4. Ready(current) => Ready(current)'
    BY <1>0, <2>1, <2>3, StaysReady DEF Ready
  <2>5. ~Ready(current) => call[current].then \in {"wait", "sleep"}
    BY <1>0, <2>1 DEF Resting, Ending
  <2> QED BY <1>3, <1>4, <2>1, <2>2, <2>4, <2>5
<1>8. CASE xTaskResumeAll \/ DrainPending \/ ReplayTick
  <2>1. UNCHANGED <<current, suspended, pc, call>> /\ suspended
    BY <1>0, <1>8 DEF xTaskResumeAll, DrainPending, ReplayTick, Suspension, Suspending
  <2>2. ~(vTaskPlaceOnEventList \/ vTaskDelay)
    BY <1>0, <2>1 DEF vTaskPlaceOnEventList, vTaskDelay, CallTypes
  <2>3. \A t \in Task : Ready(t) => Ready(t)'
    BY <2>2, StaysReady
  <2> QED BY <1>1, <2>1, <2>3 DEF Resting
<1>9. CASE Resumed
  <2>1. pc[current] = "resume" /\ UNCHANGED current
    BY <1>0, <1>9 DEF Resumed, Suspension
  <2>2. call[current].then \in {"fail", "retry", "wait", "sleep"}
    BY <1>0, <2>1 DEF Stages, StageOf, Ending
  <2>3. /\ \A t \in Task \ {current} : pc'[t] = pc[t] /\ call'[t] = call[t]
        /\ call[current].then \in {"wait", "sleep"}
              => pc'[current] \in {"yield", "back"} /\ (pc'[current] = "back" => pendSV')
    BY <1>0, <1>9, <2>2 DEF Resumed, Continue, Return, CallTypes
  <2>4. ~(vTaskPlaceOnEventList \/ vTaskDelay)
    BY <2>1 DEF vTaskPlaceOnEventList, vTaskDelay
  <2>5. Ready(current) => Ready(current)'
    BY <1>0, <2>1, <2>4, StaysReady DEF Ready
  <2>6. ~Ready(current) => call[current].then \in {"wait", "sleep"}
    BY <1>0, <2>1 DEF Resting
  <2> QED BY <1>3, <1>4, <2>1, <2>3, <2>5, <2>6
<1>10. CASE Yield
  <2>1. /\ UNCHANGED <<current, call>> /\ pc'[current] = "back" /\ pendSV'
        /\ \A t \in Task \ {current} : pc'[t] = pc[t]
    BY <1>0, <1>10 DEF Yield, CallTypes
  <2> QED BY <1>3, <1>4, <2>1
<1> QED
  BY <1>2, <1>5, <1>6, <1>7, <1>8, <1>9, <1>10 DEF Next, Run, Resume

LEMMA UrgencyNext ==
    ASSUME Control, Next PROVE Urgency'
<1> USE DEF At, listVars, delayVars, waitVars, schedulerVars, interruptVars
<1>0. /\ ListTypes /\ TimeTypes /\ SchedulerTypes /\ Suspension /\ Urgency
      /\ \A t \in Task : Priority[t] \in Level
  BY Constants DEF Control, Types
<1>1. ASSUME NoneAbove, UNCHANGED <<ready, current>> PROVE NoneAbove'
  BY <1>1 DEF NoneAbove
(* A task that is woken, and is no more urgent.                            *)
<1>2. ASSUME NoneAbove, UNCHANGED current, NEW t \in Task, ~Urgent(t),
             \A p \in Level : p # Priority[t] => ready'[p] = ready[p]
      PROVE  NoneAbove'
  <2>1. \A p \in Level : p > Priority[current] => p # Priority[t]
    BY <1>0, <1>2 DEF Urgent, SchedulerTypes, Level
  <2> QED BY <1>2, <2>1 DEF NoneAbove
<1>3. ASSUME ~pendSV \/ (suspended /\ masked = "no"), UNCHANGED current, ready' = ready
      PROVE  Urgency'
  BY <1>0, <1>1, <1>3 DEF Urgency
<1>4. CASE SysTick
  <2>1. pendSV' = TRUE /\ UNCHANGED <<current, suspended>>
    BY <1>4 DEF SysTick
  <2>2. CASE suspended
    <3>1. UNCHANGED <<ready, masked>>
      BY <1>4, <2>2 DEF SysTick
    <3> QED BY <1>0, <1>1, <2>1, <3>1 DEF Urgency
  <2> QED BY <1>0, <2>1, <2>2 DEF Urgency, SchedulerTypes
<1>5. CASE prvCheckDelayedTasks
  <2>1. pendSV' /\ UNCHANGED suspended
    BY <1>0, <1>5 DEF prvCheckDelayedTasks, Suspension, SchedulerTypes
  <2>2. masked' = "expire" \/ masked' = IF suspended THEN "drain" ELSE "no"
    BY <1>5 DEF prvCheckDelayedTasks
  <2> QED BY <2>1, <2>2 DEF Urgency
<1>6. CASE PendSV
  <2>1. CASE suspended
    BY <1>3, <1>6, <2>1 DEF PendSV
  <2>2. CASE ~suspended
    <3>1. Turn
      BY <1>6, <2>2 DEF PendSV
    <3>2. Priority[current'] = Top /\ \A p \in Level : p > Top => ready'[p] = <<>>
      BY <1>0, <3>1, SomeReady, TurnEffect DEF Control
    <3> QED BY <3>2 DEF Urgency, NoneAbove
  <2> QED BY <2>1, <2>2
<1>7. CASE \E e \in IsrQueues \X Side : FromISR(e)
  <2>1. PICK e \in Event : FromISR(e) /\ Other(e) \in Event
    BY <1>7, QueueAssumption DEF Event, Other, Side
  <2>2. UNCHANGED <<current, suspended, masked>> /\ masked = "no"
    BY <2>1 DEF FromISR
  <2>3. CASE UNCHANGED <<listVars, pendSV>>
    BY <1>0, <1>1, <2>2, <2>3 DEF Urgency
  <2>4. CASE ~UNCHANGED <<listVars, pendSV>>
    <3>1. /\ waits[Other(e)] # <<>> /\ xTaskRemoveFromEventList(Other(e))
          /\ pendSV' = (pendSV \/ Urgent(Head(waits[Other(e)])))
      BY <2>1, <2>4 DEF FromISR
    <3>2. PICK t \in Task : t = Head(waits[Other(e)])
      BY <1>0, <2>1, <3>1, WakeEffect
    <3>3. /\ suspended => ready' = ready
          /\ \A p \in Level : p # Priority[t] => ready'[p] = ready[p]
      BY <1>0, <2>1, <3>1, <3>2, WakeEffect
    <3>4. CASE suspended
      BY <1>0, <1>1, <2>2, <3>3, <3>4 DEF Urgency
    <3>5. CASE ~suspended
      <4>1. pendSV' \/ (~pendSV /\ ~Urgent(t))
        BY <3>1, <3>2
      <4> QED BY <1>0, <1>2, <2>2, <3>3, <3>5, <4>1 DEF Urgency
    <3> QED BY <3>4, <3>5
  <2> QED BY <2>3, <2>4
<1>8. CASE Succeed
  <2>1. PICK e \in Event : e = Other(MyEvent)
    BY <1>0, <1>8, MyEventIs DEF Succeed, Control, Types, SchedulerTypes
  <2>2. UNCHANGED <<current, suspended, masked>> /\ ~pendSV
    BY <1>8 DEF Succeed
  <2>3. CASE waits[e] = <<>>
    BY <1>3, <1>8, <2>1, <2>2, <2>3 DEF Succeed
  <2>4. CASE waits[e] # <<>>
    <3>1. xTaskRemoveFromEventList(e) /\ pendSV' = Urgent(Head(waits[e]))
      BY <1>8, <2>1, <2>4 DEF Succeed
    <3>2. PICK t \in Task : t = Head(waits[e])
      BY <1>0, <2>4, <3>1, WakeEffect
    <3>3. \A p \in Level : p # Priority[t] => ready'[p] = ready[p]
      BY <1>0, <2>4, <3>1, <3>2, WakeEffect
    <3>4. ~suspended
      BY <1>0, <1>8 DEF Succeed, Suspension, Suspending
    <3>5. pendSV' = Urgent(t)
      BY <3>1, <3>2
    <3> QED BY <1>0, <1>2, <2>2, <3>3, <3>4, <3>5 DEF Urgency
  <2> QED BY <2>3, <2>4
<1>9. CASE vTaskPlaceOnEventList \/ vTaskDelay
  <2>1. LeaveReady(current) /\ UNCHANGED current /\ ~pendSV
    BY <1>9 DEF vTaskPlaceOnEventList, vTaskDelay
  <2>2. \A p \in Level : ready[p] = <<>> => ready'[p] = <<>>
    BY <1>0, <2>1, LeaveEffect DEF SchedulerTypes
  <2> QED BY <1>0, <2>1, <2>2 DEF Urgency, NoneAbove
<1>10. CASE DrainPending
  <2>1. PICK t \in Task : t = Head(pending)
    BY <1>0, <1>10, Behead DEF DrainPending, ListTypes
  <2>2. Unblock(t) /\ UNCHANGED wake /\ next' \in Tick
    BY <1>0, <1>10, <2>1 DEF DrainPending, ListTypes
  <2>3. \A p \in Level : p # Priority[t] => ready'[p] = ready[p]
    BY <1>0, <2>2, UnblockEffect
  <2>4. /\ pendSV' = (pendSV \/ Urgent(t)) /\ UNCHANGED <<current, suspended, masked>>
        /\ masked = "drain"
    BY <1>10, <2>1 DEF DrainPending
  <2> QED BY <1>0, <1>2, <2>3, <2>4 DEF Urgency
<1>11. CASE ReplayTick
  <2>1. pendSV' = TRUE /\ masked' # "no"
    BY <1>11 DEF ReplayTick, vTaskIncrementTick
  <2> QED BY <2>1 DEF Urgency
<1>12. CASE Resumed
  <2>1. (pendSV => pendSV') /\ suspended' = FALSE /\ UNCHANGED <<ready, current>>
    BY <1>12 DEF Resumed
  <2> QED BY <1>0, <1>1, <2>1 DEF Urgency
<1>13. CASE UnlockTx \/ UnlockRx
  BY <1>3, <1>13 DEF UnlockTx, UnlockRx, Unlock
<1>14. CASE \/ Use \/ Fail \/ Enter \/ vTaskSuspendAll \/ prvLockQueue \/ xTaskCheckForTimeOut
            \/ Test \/ xTaskResumeAll \/ Yield \/ Back
  <2>1. ~pendSV /\ UNCHANGED current /\ ready' = ready
    BY <1>14 DEF Use, Fail, Enter, vTaskSuspendAll, prvLockQueue, xTaskCheckForTimeOut, Test,
                 xTaskResumeAll, Yield, Back
  <2> QED BY <1>3, <2>1
<1> QED
  BY <1>4, <1>5, <1>6, <1>7, <1>8, <1>9, <1>10, <1>11, <1>12, <1>13, <1>14
  DEF Next, Interrupt, Run, Resume

LEMMA ControlInit ==
    ASSUME Init PROVE Control
<1>1. ListTypes
  <2>1. Created \in [Level -> Seq(Task)]
        /\ \A p \in Level : Range(Created[p]) = {t \in Task : Priority[t] = p}
    BY TaskAssumption
  <2>2. <<>> \in Seq(Task)
    OBVIOUS
  <2> QED BY <2>1, <2>2, Constants DEF Init, ListTypes
<1>2. TimeTypes
  <2>1. NoEntry \in EntryType
    BY Constants DEF NoEntry, EntryType
  <2> QED BY <2>1, Constants DEF Init, TimeTypes
<1>3. QueueTypes /\ SchedulerTypes /\ CallTypes
  <2>1. -1 \in -1..MaxLock /\ 0 \in 0..Length
    BY Constants
  <2>2. QueueTypes
    BY <2>1 DEF Init, QueueTypes
  <2>3. current \in Task
    BY DEF Init
  <2>4. SchedulerTypes
    BY <2>3 DEF Init, SchedulerTypes
  <2> QED BY <2>2, <2>4 DEF Init, CallTypes, Stage
<1>4. Stages
  BY Constants DEF Init, Stages, StageOf, Ending
<1>5. Suspension
  BY DEF Init, Suspension, Suspending
<1>6. Resting
  BY TaskAssumption, Constants DEF Init, Resting, Ready
<1>7. Urgency
  <2>1. \A u \in Task : Priority[current] >= Priority[u]
    BY DEF Init
  <2>2. ASSUME NEW p \in Level, p > Priority[current] PROVE ready[p] = <<>>
    <3>1. Range(ready[p]) = {t \in Task : Priority[t] = p} /\ ready[p] \in Seq(Task)
      BY TaskAssumption DEF Init
    <3>2. \A t \in Task : Priority[t] # p
      BY <1>3, <2>1, <2>2, Constants DEF SchedulerTypes, Level
    <3>3. ready[p] # <<>> => Head(ready[p]) \in Range(ready[p])
      BY <3>1, Behead
    <3> QED BY <3>1, <3>2, <3>3
  <2> QED BY <2>2 DEF Urgency, NoneAbove
<1> QED BY <1>1, <1>2, <1>3, <1>4, <1>5, <1>6, <1>7 DEF Control, Types

LEMMA ControlNext ==
    ASSUME Control, [Next]_vars PROVE Control'
<1>1. CASE Next
  <2>1. masked = "drain" => pc[current] = "resume"
    BY DEF Control, Suspension
  <2>2. Stages'
    BY <1>1, <2>1, CallsNext DEF Control, Types, TimeTypes, SchedulerTypes
  <2> QED BY <1>1, <2>2, TypesNext, SuspensionNext, RestingNext, UrgencyNext DEF Control
<1>2. CASE UNCHANGED vars
  <2> USE DEF vars, listVars, delayVars, waitVars, timeVars, schedulerVars, interruptVars,
              queueVars, callVars
  <2>1. Types'
    BY <1>2 DEF Control, Types, ListTypes, TimeTypes, QueueTypes, SchedulerTypes, CallTypes
  <2>2. Stages' /\ Suspension'
    BY <1>2 DEF Control, Stages, StageOf, Suspension
  <2>3. Resting' /\ Urgency'
    BY <1>2 DEF Control, Resting, Urgency, Ready, NoneAbove
  <2> QED BY <2>1, <2>2, <2>3 DEF Control
<1> QED BY <1>1, <1>2

LEMMA ControlAlways == Spec => []Control
<1>1. Init => Control
  BY ControlInit
<1>2. Control /\ [Next]_vars => Control'
  BY ControlNext
<1> QED BY <1>1, <1>2, PTL DEF Spec

(* For every set of tasks and priorities, all calls and interrupts, and    *)
(* however they interleave: when no switch is asked for and the scheduler  *)
(* runs, the task that runs is ready and none of a higher priority is.     *)
THEOREM KernelHighestRuns == Spec => []HighestRuns
<1>1. Control => HighestRuns
  <2> SUFFICES ASSUME Control, ~pendSV, ~suspended, pc[current] # "yield"
               PROVE  Ready(current) /\ Priority[current] = Top
    BY DEF HighestRuns
  <2>1. Ready(current) /\ NoneAbove /\ current \in Task /\ Priority[current] \in Level
    BY Constants DEF Control, Resting, Urgency, Types, SchedulerTypes
  <2>2. ready[Priority[current]] # <<>>
    <3>1. Range(<<>>) = {}
      BY DEF Range
    <3> QED BY <2>1, <3>1 DEF Ready
  <2>3. Top \in Level /\ ready[Top] # <<>> /\ \A p \in Level : p > Top => ready[p] = <<>>
    BY <2>1, <2>2, TopIsHighest
  <2> QED BY <2>1, <2>2, <2>3 DEF NoneAbove, Level
<1> QED BY <1>1, ControlAlways, PTL

----------------------------------------------------------------------------
(* Every task is in the lists it should be in, and in no other.            *)
LEMMA SortedSame ==
    ASSUME NEW list \in Seq(Task), NEW old, NEW new, Sorted(list, old),
           \A t \in Range(list) : new[t] = old[t]
    PROVE  Sorted(list, new)
<1>1. \A i \in DOMAIN list : new[list[i]] = old[list[i]]
  BY DEF Range
<1> QED BY <1>1 DEF Sorted

LEMMA UnblockSets ==
    ASSUME ListTypes, StateLists, WaitLists, NEW t \in Task, ~Ready(t), Unblock(t), UNCHANGED wake
    PROVE  /\ \A u \in Task : Ready(u)' <=> Ready(u) \/ u = t
           /\ \A p \in Level : IsInjective(ready'[p])
           /\ IsInjective(delayed') /\ Range(delayed') = Range(delayed) \ {t}
           /\ IsInjective(overflow') /\ Range(overflow') = Range(overflow) \ {t}
           /\ IsInjective(pending') /\ Range(pending') = Range(pending) \ {t}
           /\ Sorted(delayed', wake') /\ Sorted(overflow', wake')
           /\ blocked' = blocked \ {t}
           /\ \A e \in Event : /\ IsInjective(waits'[e]) /\ Sorted(waits'[e], EventValue)
                               /\ Range(waits'[e]) = Range(waits[e]) \ {t}
<1>1. Priority[t] \in Level /\ ready \in [Level -> Seq(Task)]
  BY Constants DEF ListTypes
<1>2. /\ ready' = [ready EXCEPT ![Priority[t]] = Append(ready[Priority[t]], t)]
      /\ delayed' = uxListRemove(delayed, t) /\ overflow' = uxListRemove(overflow, t)
      /\ blocked' = blocked \ {t} /\ pending' = uxListRemove(pending, t)
      /\ waits' = [e \in Event |-> uxListRemove(waits[e], t)]
  BY DEF Unblock
<1>3. /\ Range(Append(ready[Priority[t]], t)) = Range(ready[Priority[t]]) \union {t}
      /\ IsInjective(Append(ready[Priority[t]], t))
  <2>1. ready[Priority[t]] \in Seq(Task) /\ IsInjective(ready[Priority[t]])
        /\ t \notin Range(ready[Priority[t]])
    BY <1>1 DEF StateLists, Ready
  <2> QED BY <2>1, Appended
<1>4. \A p \in Level : ready'[p] = IF p = Priority[t] THEN Append(ready[Priority[t]], t) ELSE ready[p]
  BY <1>1, <1>2
<1>5. \A u \in Task : Ready(u)' <=> Ready(u) \/ u = t
  <2> TAKE u \in Task
  <2>1. Priority[u] \in Level
    BY Constants
  <2>2. Priority[u] # Priority[t] => ready'[Priority[u]] = ready[Priority[u]] /\ u # t
    BY <1>4, <2>1
  <2>3. Priority[u] = Priority[t] => Range(ready'[Priority[u]]) = Range(ready[Priority[u]]) \union {t}
    BY <1>3, <1>4, <2>1
  <2> QED BY <2>2, <2>3 DEF Ready
<1>6. \A p \in Level : IsInjective(ready'[p])
  BY <1>3, <1>4 DEF StateLists
<1>7. /\ IsInjective(delayed') /\ Range(delayed') = Range(delayed) \ {t} /\ Sorted(delayed', wake')
      /\ IsInjective(overflow') /\ Range(overflow') = Range(overflow) \ {t} /\ Sorted(overflow', wake')
      /\ IsInjective(pending') /\ Range(pending') = Range(pending) \ {t}
  BY <1>2, Removed DEF ListTypes, StateLists, WaitLists
<1>8. ASSUME NEW e \in Event
      PROVE  /\ IsInjective(waits'[e]) /\ Sorted(waits'[e], EventValue)
             /\ Range(waits'[e]) = Range(waits[e]) \ {t}
  <2>1. waits[e] \in Seq(Task) /\ IsInjective(waits[e]) /\ Sorted(waits[e], EventValue)
    BY DEF ListTypes, WaitLists
  <2>2. waits'[e] = uxListRemove(waits[e], t)
    BY <1>2
  <2> QED BY <2>1, <2>2, Removed
<1> QED BY <1>2, <1>5, <1>6, <1>7, <1>8

LEMMA UnblockLists ==
    ASSUME ListTypes, StateLists, WaitLists, NEW t \in Task, ~Ready(t), Unblock(t), UNCHANGED wake
    PROVE  StateLists' /\ WaitLists'
<1>1. /\ \A u \in Task : Ready(u)' <=> Ready(u) \/ u = t
      /\ \A p \in Level : IsInjective(ready'[p])
      /\ IsInjective(delayed') /\ Range(delayed') = Range(delayed) \ {t}
      /\ IsInjective(overflow') /\ Range(overflow') = Range(overflow) \ {t}
      /\ IsInjective(pending') /\ Range(pending') = Range(pending) \ {t}
      /\ Sorted(delayed', wake') /\ Sorted(overflow', wake')
      /\ blocked' = blocked \ {t}
      /\ \A e \in Event : /\ IsInjective(waits'[e]) /\ Sorted(waits'[e], EventValue)
                          /\ Range(waits'[e]) = Range(waits[e]) \ {t}
  BY UnblockSets
<1>2. Timed' = Timed \ {t}
  BY <1>1 DEF Timed
<1>3. Waiting' = Waiting \ {t}
  BY <1>1 DEF Waiting
<1>4. StateLists'
  BY <1>1, <1>2 DEF StateLists
<1>5. WaitLists'
  BY <1>1, <1>3 DEF WaitLists
<1> QED BY <1>4, <1>5

LEMMA WakeLists ==
    ASSUME ListTypes, StateLists, WaitLists, NEW e \in Event, waits[e] # <<>>,
           xTaskRemoveFromEventList(e)
    PROVE  /\ StateLists' /\ WaitLists'
           /\ ~suspended /\ pending = <<>> => pending' = <<>>
<1>1. PICK t \in Task : t = Head(waits[e])
  BY Behead DEF ListTypes
<1>2. /\ waits[e] \in Seq(Task) /\ t \in Range(waits[e])
      /\ Range(waits[e]) = Range(Tail(waits[e])) \union {t} /\ t \notin Range(Tail(waits[e]))
      /\ IsInjective(Tail(waits[e])) /\ Sorted(Tail(waits[e]), EventValue)
  <2>1. waits[e] \in Seq(Task) /\ IsInjective(waits[e]) /\ Sorted(waits[e], EventValue)
    BY DEF ListTypes, WaitLists
  <2> QED BY <1>1, <2>1, Behead
<1>3. t \in Waiting /\ ~Ready(t) /\ t \notin Range(pending)
  BY <1>2 DEF Waiting, WaitLists
<1>4. CASE suspended
  <2>1. /\ waits' = [waits EXCEPT ![e] = Tail(waits[e])] /\ pending' = Append(pending, t)
        /\ UNCHANGED <<ready, delayed, overflow, blocked, wake>>
    BY <1>1, <1>4 DEF xTaskRemoveFromEventList
  <2>2. StateLists'
    BY <2>1 DEF StateLists, Ready, Timed
  <2>3. \A d \in Event : /\ IsInjective(waits'[d]) /\ Sorted(waits'[d], EventValue)
                         /\ Range(waits'[d]) = Range(waits[d]) \ {t}
    <3> TAKE d \in Event
    <3>1. CASE d = e
      BY <1>2, <2>1, <3>1 DEF ListTypes
    <3>2. CASE d # e
      BY <1>2, <2>1, <3>2 DEF ListTypes, WaitLists
    <3> QED BY <3>1, <3>2
  <2>4. Waiting' = Waiting \ {t}
    <3>1. \A u : u \in Waiting <=> \E d \in Event : u \in Range(waits[d])
      BY DEF Waiting
    <3>2. \A u : u \in Waiting' <=> \E d \in Event : u \in Range(waits'[d])
      BY DEF Waiting
    <3> QED BY <2>3, <3>1, <3>2
  <2>5. IsInjective(pending') /\ Range(pending') = Range(pending) \union {t}
    BY <1>3, <2>1, Appended DEF ListTypes, WaitLists
  <2>6. WaitLists'
    <3>1. \A u \in Task : Ready(u)' = Ready(u)
      BY <2>1 DEF Ready
    <3> QED BY <1>3, <2>1, <2>3, <2>4, <2>5, <3>1 DEF WaitLists
  <2> QED BY <1>4, <2>2, <2>6
<1>5. CASE ~suspended
  <2>1. Unblock(t) /\ UNCHANGED wake
    BY <1>1, <1>5 DEF xTaskRemoveFromEventList
  <2>2. pending' = pending
    <3>1. pending' = uxListRemove(pending, t)
      BY <2>1 DEF Unblock
    <3> QED BY <1>3, <3>1, Removed DEF ListTypes
  <2> QED BY <1>3, <2>1, <2>2, UnblockLists
<1> QED BY <1>4, <1>5

LEMMA TickLists ==
    ASSUME StateLists, NEW after, vTaskIncrementTick(after)
    PROVE  StateLists' /\ UNCHANGED <<ready, blocked, pending, waits>>
<1>1. UNCHANGED <<ready, blocked, pending, waits, wake>>
  BY DEF vTaskIncrementTick, waitVars
<1>2. \/ delayed' = overflow /\ overflow' = delayed
      \/ UNCHANGED <<delayed, overflow>>
  BY DEF vTaskIncrementTick
<1>3. Timed' = Timed /\ \A t \in Task : Ready(t)' = Ready(t)
  BY <1>1, <1>2 DEF Timed, Ready
<1> QED BY <1>1, <1>2, <1>3 DEF StateLists

LEMMA AddLists ==
    ASSUME ListTypes, StateLists, tick \in Tick, NEW t \in Task, NEW ticks \in Tick, t \notin Timed,
           prvAddCurrentTaskToDelayedList(t, ticks)
    PROVE  /\ IsInjective(delayed') /\ Sorted(delayed', wake')
           /\ IsInjective(overflow') /\ Sorted(overflow', wake')
           /\ Timed' = Timed \union {t}
           /\ Range(delayed') \intersect Range(overflow') = {}
<1> DEFINE w == (tick + ticks) % Ticks
<1>1. w \in Tick
  BY Constants DEF Tick
<1>2. /\ wake' = [wake EXCEPT ![t] = w]
      /\ \/ overflow' = vListInsert(overflow, t, wake') /\ UNCHANGED delayed
         \/ delayed' = vListInsert(delayed, t, wake') /\ UNCHANGED overflow
  BY DEF prvAddCurrentTaskToDelayedList
<1> HIDE DEF w
<1>3. wake' \in [Task -> Int] /\ \A u \in Task : u # t => wake'[u] = wake[u]
  BY <1>1, <1>2 DEF ListTypes, Tick
<1>4. /\ delayed \in Seq(Task) /\ overflow \in Seq(Task)
      /\ t \notin Range(delayed) /\ t \notin Range(overflow)
      /\ IsInjective(delayed) /\ IsInjective(overflow)
      /\ Range(delayed) \subseteq Task /\ Range(overflow) \subseteq Task
  BY RangeOfSeq DEF ListTypes, StateLists, Timed
<1>5. Sorted(delayed, wake') /\ Sorted(overflow, wake')
  <2>1. /\ \A u \in Range(delayed) : wake'[u] = wake[u]
        /\ \A u \in Range(overflow) : wake'[u] = wake[u]
    BY <1>3, <1>4
  <2> QED BY <1>4, <2>1, SortedSame DEF StateLists
<1>6. CASE overflow' = vListInsert(overflow, t, wake') /\ UNCHANGED delayed
  <2>1. IsInjective(overflow') /\ Sorted(overflow', wake') /\ Range(overflow') = Range(overflow) \union {t}
    BY <1>3, <1>4, <1>5, <1>6, Inserted
  <2> QED BY <1>4, <1>5, <1>6, <2>1 DEF Timed, StateLists
<1>7. CASE delayed' = vListInsert(delayed, t, wake') /\ UNCHANGED overflow
  <2>1. IsInjective(delayed') /\ Sorted(delayed', wake') /\ Range(delayed') = Range(delayed) \union {t}
    BY <1>3, <1>4, <1>5, <1>7, Inserted
  <2> QED BY <1>4, <1>5, <1>7, <2>1 DEF Timed, StateLists
<1> QED BY <1>2, <1>6, <1>7

LEMMA LeaveLists ==
    ASSUME ListTypes, StateLists, NEW t \in Task, LeaveReady(t)
    PROVE  /\ \A p \in Level : IsInjective(ready'[p])
           /\ \A u \in Task : Ready(u)' <=> Ready(u) /\ u # t
<1>1. Priority[t] \in Level /\ ready \in [Level -> Seq(Task)]
  BY Constants DEF ListTypes
<1>2. ready' = [ready EXCEPT ![Priority[t]] = uxListRemove(ready[Priority[t]], t)]
  BY DEF LeaveReady
<1> DEFINE rest == uxListRemove(ready[Priority[t]], t)
<1>3. IsInjective(rest) /\ Range(rest) = Range(ready[Priority[t]]) \ {t}
  <2>1. ready[Priority[t]] \in Seq(Task) /\ IsInjective(ready[Priority[t]])
    BY <1>1 DEF StateLists
  <2> QED BY <2>1, Removed
<1>4. \A p \in Level : ready'[p] = IF p = Priority[t] THEN rest ELSE ready[p]
  BY <1>1, <1>2
<1> HIDE DEF rest
<1>5. ASSUME NEW u \in Task PROVE Ready(u)' <=> Ready(u) /\ u # t
  <2>1. Priority[u] \in Level
    BY Constants
  <2>2. CASE Priority[u] = Priority[t]
    BY <1>3, <1>4, <2>1, <2>2 DEF Ready
  <2>3. CASE Priority[u] # Priority[t]
    BY <1>4, <2>1, <2>3 DEF Ready
  <2> QED BY <2>2, <2>3
<1> QED BY <1>3, <1>4, <1>5 DEF StateLists

LEMMA UnlockLists ==
    ASSUME ListTypes, QueueTypes, StateLists, WaitLists, NEW e \in Event, Unlock(e)
    PROVE  /\ StateLists' /\ WaitLists'
           /\ Range(waits'[e]) \subseteq Range(waits[e])
           /\ \A d \in Event : d # e => waits'[d] = waits[d]
           /\ Range(pending') \subseteq Range(pending) \union Range(waits[e])
<1> DEFINE n == IF lock[e] > Len(waits[e]) THEN Len(waits[e])
                ELSE IF lock[e] > 0 THEN lock[e] ELSE 0
           u == SubSeq(waits[e], 1, n)
           v == SubSeq(waits[e], n + 1, Len(waits[e]))
<1>1. /\ waits[e] \in Seq(Task) /\ Len(waits[e]) \in Nat /\ lock[e] \in -1..MaxLock
      /\ IsInjective(waits[e]) /\ Sorted(waits[e], EventValue)
  BY LenProperties DEF ListTypes, QueueTypes, WaitLists
<1>2. n \in 0..Len(waits[e])
  BY <1>1, Constants
<1>3. /\ waits' = [waits EXCEPT ![e] = v] /\ pending' = pending \o u
      /\ UNCHANGED <<ready, delayed, overflow, blocked, wake>>
  BY DEF Unlock, delayVars
<1> HIDE DEF n
<1>4. /\ u \in Seq(Task) /\ v \in Seq(Task) /\ Range(waits[e]) = Range(u) \union Range(v)
      /\ IsInjective(u) /\ IsInjective(v) /\ Range(u) \intersect Range(v) = {}
      /\ Sorted(v, EventValue)
  BY <1>1, <1>2, Cut
<1> HIDE DEF u, v
<1>5. StateLists'
  BY <1>3 DEF StateLists, Ready, Timed
<1>6. Range(waits[e]) \subseteq Waiting /\ Range(u) \intersect Range(pending) = {}
      /\ \A t \in Task : Ready(t) => t \notin Range(u)
  BY <1>4 DEF Waiting, WaitLists
<1>7. /\ IsInjective(pending') /\ Range(pending') = Range(pending) \union Range(u)
  BY <1>3, <1>4, <1>6, Joined DEF ListTypes, WaitLists
<1>8. waits'[e] = v /\ \A d \in Event : d # e => waits'[d] = waits[d]
  BY <1>3 DEF ListTypes
<1>9. Waiting' = Waiting \ Range(u)
  <2>1. \A d \in Event : Range(waits'[d]) = Range(waits[d]) \ Range(u)
    <3> TAKE d \in Event
    <3>1. CASE d = e
      BY <1>4, <1>8, <3>1
    <3>2. CASE d # e
      BY <1>4, <1>8, <3>2 DEF WaitLists
    <3> QED BY <3>1, <3>2
  <2> QED BY <2>1 DEF Waiting
<1>10. WaitLists'
  <2>1. \A d \in Event : /\ IsInjective(waits'[d]) /\ Sorted(waits'[d], EventValue)
                         /\ Range(waits'[d]) \subseteq Range(waits[d])
    <3> TAKE d \in Event
    <3> QED BY <1>4, <1>8 DEF WaitLists
  <2>2. \A d, f \in Event : d # f => Range(waits'[d]) \intersect Range(waits'[f]) = {}
    BY <2>1 DEF WaitLists
  <2>3. \A t \in Task : Ready(t)' => t \notin Waiting' /\ t \notin Range(pending')
    <3>1. \A t \in Task : Ready(t)' = Ready(t)
      BY <1>3 DEF Ready
    <3> QED BY <1>6, <1>7, <1>9, <3>1 DEF WaitLists
  <2>4. Waiting' \intersect Range(pending') = {} /\ blocked' \subseteq Waiting' \union Range(pending')
    BY <1>3, <1>7, <1>9 DEF WaitLists
  <2> QED BY <1>7, <2>1, <2>2, <2>3, <2>4 DEF WaitLists
<1> QED BY <1>4, <1>5, <1>7, <1>8, <1>10

LEMMA TurnInjective ==
    ASSUME ListTypes, StateLists, \E p \in Level : ready[p] # <<>>, Turn
    PROVE  \A p \in Level : IsInjective(ready'[p])
<1>1. PICK q \in Level : q = Top /\ ready[q] # <<>>
  BY TopIsHighest
<1> DEFINE h == Head(ready[q])
           r == Tail(ready[q])
<1>2. h \in Task /\ r \in Seq(Task) /\ IsInjective(r) /\ h \notin Range(r)
  <2>1. ready[q] \in Seq(Task) /\ IsInjective(ready[q])
    BY DEF ListTypes, StateLists
  <2> QED BY <1>1, <2>1, Behead
<1>3. ready' = [ready EXCEPT ![q] = Append(r, h)]
  BY <1>1 DEF Turn
<1> HIDE DEF h, r
<1>4. IsInjective(Append(r, h))
  BY <1>2, Appended
<1> QED BY <1>3, <1>4 DEF ListTypes, StateLists

LEMMA PlaceLists ==
    ASSUME ListTypes, StateLists, WaitLists, tick \in Tick, NEW t \in Task, Ready(t),
           NEW e \in Event, NEW ticks \in Tick,
           LeaveReady(t), waits' = [waits EXCEPT ![e] = vListInsert(waits[e], t, EventValue)],
           \/ blocked' = blocked \union {t} /\ UNCHANGED <<delayed, overflow, wake>>
           \/ prvAddCurrentTaskToDelayedList(t, ticks) /\ UNCHANGED blocked,
           UNCHANGED pending
    PROVE  StateLists' /\ WaitLists'
<1>1. t \notin Timed /\ t \notin blocked /\ t \notin Waiting /\ t \notin Range(pending)
  BY DEF StateLists, WaitLists
<1>2. /\ \A p \in Level : IsInjective(ready'[p])
      /\ \A u \in Task : Ready(u)' <=> Ready(u) /\ u # t
  BY LeaveLists
<1>3. /\ IsInjective(delayed') /\ Sorted(delayed', wake')
      /\ IsInjective(overflow') /\ Sorted(overflow', wake')
      /\ Range(delayed') \intersect Range(overflow') = {}
      /\ \/ blocked' = blocked \union {t} /\ Timed' = Timed
         \/ blocked' = blocked /\ Timed' = Timed \union {t}
  <2>1. CASE blocked' = blocked \union {t} /\ UNCHANGED <<delayed, overflow, wake>>
    BY <2>1 DEF StateLists, Timed
  <2>2. CASE prvAddCurrentTaskToDelayedList(t, ticks) /\ UNCHANGED blocked
    BY <1>1, <2>2, AddLists
  <2> QED BY <2>1, <2>2
<1>4. StateLists'
  BY <1>1, <1>2, <1>3 DEF StateLists
<1> DEFINE more == vListInsert(waits[e], t, EventValue)
<1>5. Range(more) = Range(waits[e]) \union {t} /\ IsInjective(more) /\ Sorted(more, EventValue)
  <2>1. waits[e] \in Seq(Task) /\ IsInjective(waits[e]) /\ Sorted(waits[e], EventValue)
        /\ t \notin Range(waits[e])
    BY <1>1 DEF ListTypes, WaitLists, Waiting
  <2> QED BY <2>1, EventValues, Inserted
<1>6. waits'[e] = more /\ \A d \in Event : d # e => waits'[d] = waits[d]
  BY DEF ListTypes
<1> HIDE DEF more
<1>7. Waiting' = Waiting \union {t}
  <2>1. \A u : u \in Waiting <=> \E d \in Event : u \in Range(waits[d])
    BY DEF Waiting
  <2>2. \A u : u \in Waiting' <=> \E d \in Event : u \in Range(waits'[d])
    BY DEF Waiting
  <2> QED BY <1>5, <1>6, <2>1, <2>2
<1>8. \A d \in Event : IsInjective(waits'[d]) /\ Sorted(waits'[d], EventValue)
  BY <1>5, <1>6 DEF WaitLists
<1>9. ASSUME NEW d \in Event, NEW f \in Event, d # f
      PROVE  Range(waits'[d]) \intersect Range(waits'[f]) = {}
  <2>1. Range(waits[d]) \intersect Range(waits[f]) = {}
    BY <1>9 DEF WaitLists
  <2>2. t \notin Range(waits[d]) /\ t \notin Range(waits[f])
    BY <1>1 DEF Waiting
  <2> QED BY <1>5, <1>6, <1>9, <2>1, <2>2
<1>10. WaitLists'
  BY <1>1, <1>2, <1>3, <1>7, <1>8, <1>9 DEF WaitLists
<1> QED BY <1>4, <1>10

LEMMA SleepLists ==
    ASSUME ListTypes, StateLists, WaitLists, tick \in Tick, NEW t \in Task, Ready(t),
           NEW ticks \in Tick, LeaveReady(t), prvAddCurrentTaskToDelayedList(t, ticks),
           UNCHANGED <<blocked, pending, waits>>
    PROVE  StateLists' /\ WaitLists'
<1>1. t \notin Timed /\ t \notin blocked
  BY DEF StateLists
<1>2. /\ \A p \in Level : IsInjective(ready'[p])
      /\ \A u \in Task : Ready(u)' <=> Ready(u) /\ u # t
  BY LeaveLists
<1>3. /\ IsInjective(delayed') /\ Sorted(delayed', wake')
      /\ IsInjective(overflow') /\ Sorted(overflow', wake')
      /\ Range(delayed') \intersect Range(overflow') = {}
      /\ Timed' = Timed \union {t}
  BY <1>1, AddLists
<1>4. StateLists'
  BY <1>1, <1>2, <1>3 DEF StateLists
<1>5. WaitLists'
  BY <1>2 DEF WaitLists, Waiting
<1> QED BY <1>4, <1>5

LEMMA ListsNext ==
    ASSUME Control, Lists, Next PROVE Lists'
<1> USE DEF At, listVars, delayVars, waitVars, timeVars, schedulerVars, interruptVars, queueVars,
            callVars
<1>0. /\ ListTypes /\ TimeTypes /\ QueueTypes /\ SchedulerTypes /\ CallTypes /\ Stages
      /\ Suspension /\ StateLists /\ WaitLists /\ Caught
  BY DEF Control, Types, Lists
<1>1. UNCHANGED <<ready, delayed, overflow, blocked, pending, waits, wake>>
         => StateLists' /\ WaitLists'
  BY <1>0 DEF StateLists, WaitLists, Ready, Timed, Waiting
<1>2. CASE SysTick
  <2>1. CASE suspended
    BY <1>0, <1>1, <1>2, <2>1 DEF SysTick, Lists, Caught
  <2>2. CASE ~suspended
    <3>1. vTaskIncrementTick("no") /\ UNCHANGED <<missed, suspended, xMissedYield>>
      BY <1>2, <2>2 DEF SysTick
    <3>2. StateLists' /\ UNCHANGED <<ready, blocked, pending, waits>>
      BY <1>0, <3>1, TickLists
    <3> QED BY <1>0, <3>1, <3>2 DEF Lists, Caught, WaitLists, Ready, Waiting
  <2> QED BY <2>1, <2>2
<1>3. CASE prvCheckDelayedTasks
  <2>1. UNCHANGED <<missed, suspended, xMissedYield>>
    BY <1>3 DEF prvCheckDelayedTasks
  <2>2. CASE delayed # <<>> /\ wake[Head(delayed)] <= tick
    <3>1. PICK t \in Task : t = Head(delayed) /\ t \in Range(delayed)
      BY <1>0, <2>2, Behead DEF ListTypes
    <3>2. Unblock(t) /\ UNCHANGED wake /\ ~Ready(t)
      BY <1>0, <1>3, <2>2, <3>1 DEF prvCheckDelayedTasks, StateLists, Timed
    <3>3. pending = <<>> => pending' = <<>>
      <4>1. pending' = uxListRemove(pending, t) /\ t \notin Range(<<>>)
        BY <3>2 DEF Unblock, Range
      <4> QED BY <4>1 DEF uxListRemove
    <3> QED BY <1>0, <2>1, <3>2, <3>3, UnblockLists DEF Lists, Caught
  <2>3. CASE ~(delayed # <<>> /\ wake[Head(delayed)] <= tick)
    BY <1>0, <1>1, <1>3, <2>1, <2>3 DEF prvCheckDelayedTasks, Lists, Caught
  <2> QED BY <2>2, <2>3
<1>4. CASE PendSV
  <2>1. UNCHANGED <<delayed, overflow, blocked, wake, pending, waits, missed, suspended>>
    BY <1>4 DEF PendSV
  <2>2. CASE suspended
    BY <1>0, <1>1, <1>4, <2>1, <2>2 DEF PendSV, Lists, Caught
  <2>3. CASE ~suspended
    <3>1. Turn /\ UNCHANGED xMissedYield
      BY <1>4, <2>3 DEF PendSV
    <3>2. \A p \in Level : Range(ready'[p]) = Range(ready[p])
      BY <1>0, <3>1, SomeReady, TurnEffect DEF Control
    <3>3. \A p \in Level : IsInjective(ready'[p])
      BY <1>0, <3>1, SomeReady, TurnInjective DEF Control
    <3>4. \A u \in Task : Ready(u)' = Ready(u)
      BY <3>2, Constants DEF Ready
    <3>5. StateLists'
      BY <1>0, <2>1, <3>3, <3>4 DEF StateLists, Timed
    <3>6. WaitLists'
      BY <1>0, <2>1, <3>4 DEF WaitLists, Waiting
    <3> QED BY <1>0, <2>1, <3>1, <3>5, <3>6 DEF Lists, Caught
  <2> QED BY <2>2, <2>3
<1>5. CASE \E e \in IsrQueues \X Side : FromISR(e)
  <2>1. PICK e \in Event : FromISR(e) /\ Other(e) \in Event
    BY <1>5, QueueAssumption DEF Event, Other, Side
  <2>2. UNCHANGED <<missed, suspended, xMissedYield>>
    BY <2>1 DEF FromISR
  <2>3. CASE UNCHANGED listVars
    BY <1>0, <1>1, <2>2, <2>3 DEF Lists, Caught
  <2>4. CASE ~UNCHANGED listVars
    <3>1. waits[Other(e)] # <<>> /\ xTaskRemoveFromEventList(Other(e))
      BY <2>1, <2>4 DEF FromISR
    <3> QED BY <1>0, <2>1, <2>2, <3>1, WakeLists DEF Lists, Caught
  <2> QED BY <2>3, <2>4
<1>6. CASE Succeed
  <2>1. PICK e \in Event : e = Other(MyEvent)
    BY <1>0, <1>6, MyEventIs DEF Succeed, SchedulerTypes
  <2>2. UNCHANGED <<missed, suspended, xMissedYield>>
    BY <1>6 DEF Succeed
  <2>3. CASE UNCHANGED listVars
    BY <1>0, <1>1, <2>2, <2>3 DEF Lists, Caught
  <2>4. CASE ~UNCHANGED listVars
    <3>1. waits[e] # <<>> /\ xTaskRemoveFromEventList(e)
      BY <1>6, <2>1, <2>4 DEF Succeed
    <3> QED BY <1>0, <2>2, <3>1, WakeLists DEF Lists, Caught
  <2> QED BY <2>3, <2>4
<1>7. CASE vTaskPlaceOnEventList
  <2>1. PICK t \in Task : t = current /\ Ready(t) /\ call[t] \in CallType
    <3>1. Ready(current)
      BY <1>7, GoesOnReady DEF vTaskPlaceOnEventList, Ending
    <3> QED BY <1>0, <1>7, <3>1, MyEventIs DEF vTaskPlaceOnEventList, SchedulerTypes
  <2>2. PICK e \in Event : e = MyEvent
    BY <1>0, <1>7, MyEventIs DEF vTaskPlaceOnEventList, SchedulerTypes
  <2>3. PICK ticks \in Tick : ticks = My.ticks
    BY <2>1 DEF My, CallType
  <2>4. /\ LeaveReady(t) /\ waits' = [waits EXCEPT ![e] = vListInsert(waits[e], t, EventValue)]
        /\ \/ blocked' = blocked \union {t} /\ UNCHANGED <<delayed, overflow, wake>>
           \/ prvAddCurrentTaskToDelayedList(t, ticks) /\ UNCHANGED blocked
        /\ UNCHANGED <<pending, missed, suspended, xMissedYield>>
    BY <1>7, <2>1, <2>2, <2>3 DEF vTaskPlaceOnEventList
  <2>5. StateLists' /\ WaitLists'
    BY <1>0, <2>1, <2>4, PlaceLists DEF TimeTypes
  <2> QED BY <1>0, <2>4, <2>5 DEF Lists, Caught
<1>8. CASE UnlockTx \/ UnlockRx
  <2>1. pc[current] \in {"unlockTx", "unlockRx"}
    BY <1>8 DEF UnlockTx, UnlockRx
  <2>2. PICK e \in Event : Unlock(e)
    <3>1. My.queue \in Queue
      BY <1>0, <2>1, MyEventIs DEF My, CallType, SchedulerTypes
    <3> QED BY <1>8, <3>1 DEF UnlockTx, UnlockRx, Event, Side
  <2>3. suspended /\ UNCHANGED suspended
    BY <1>0, <2>1, <2>2 DEF Suspension, Suspending, Unlock
  <2> QED BY <1>0, <2>2, <2>3, UnlockLists DEF Lists, Caught
<1>9. CASE vTaskDelay
  <2>1. PICK t \in Task : t = current /\ Ready(t) /\ call[t] \in CallType
    <3>1. Ready(current)
      BY <1>9, GoesOnReady DEF vTaskDelay, Ending
    <3> QED BY <1>0, <1>9, <3>1 DEF vTaskDelay, SchedulerTypes, CallTypes, Stages, StageOf
  <2>2. PICK ticks \in Tick : ticks = My.ticks
    BY <2>1 DEF My, CallType
  <2>3. /\ LeaveReady(t) /\ prvAddCurrentTaskToDelayedList(t, ticks)
        /\ UNCHANGED <<blocked, pending, waits, missed, suspended, xMissedYield>>
    BY <1>9, <2>1, <2>2 DEF vTaskDelay
  <2> QED BY <1>0, <2>1, <2>3, SleepLists DEF Lists, Caught, TimeTypes
<1>10. CASE DrainPending
  <2>1. PICK t \in Task : t = Head(pending) /\ t \in Range(pending)
    BY <1>0, <1>10, Behead DEF DrainPending, ListTypes
  <2>2. Unblock(t) /\ UNCHANGED <<wake, suspended>> /\ ~Ready(t)
    BY <1>0, <1>10, <2>1 DEF DrainPending, WaitLists
  <2>3. suspended
    BY <1>0, <1>10 DEF DrainPending, Suspension
  <2> QED BY <1>0, <2>2, <2>3, UnblockLists DEF Lists, Caught
<1>11. CASE ReplayTick
  <2>1. vTaskIncrementTick("drain") /\ UNCHANGED suspended /\ suspended
    BY <1>0, <1>11 DEF ReplayTick, Suspension
  <2>2. StateLists' /\ UNCHANGED <<ready, blocked, pending, waits>>
    BY <1>0, <2>1, TickLists
  <2> QED BY <1>0, <2>1, <2>2 DEF Lists, Caught, WaitLists, Ready, Waiting
<1>12. CASE Resumed
  <2>1. /\ UNCHANGED <<ready, delayed, overflow, blocked, pending, waits, wake, missed>>
        /\ pending = <<>> /\ missed = 0 /\ xMissedYield' = FALSE
    BY <1>12 DEF Resumed
  <2> QED BY <1>1, <2>1 DEF Lists, Caught
<1>13. CASE vTaskSuspendAll
  <2>1. /\ UNCHANGED <<ready, delayed, overflow, blocked, pending, waits, wake>> /\ suspended' = TRUE
    BY <1>13 DEF vTaskSuspendAll
  <2> QED BY <1>1, <2>1 DEF Lists, Caught
<1>14. CASE \/ Use \/ Fail \/ Enter \/ prvLockQueue \/ xTaskCheckForTimeOut \/ Test
            \/ xTaskResumeAll \/ Yield \/ Back
  <2>1. UNCHANGED <<ready, delayed, overflow, blocked, pending, waits, wake, missed, suspended,
                    xMissedYield>>
    BY <1>14 DEF Use, Fail, Enter, prvLockQueue, xTaskCheckForTimeOut, Test, xTaskResumeAll,
                 Yield, Back
  <2> QED BY <1>0, <1>1, <2>1 DEF Lists, Caught
<1> QED
  BY <1>2, <1>3, <1>4, <1>5, <1>6, <1>7, <1>8, <1>9, <1>10, <1>11, <1>12, <1>13, <1>14
  DEF Next, Interrupt, Run, Resume

LEMMA ListsInit ==
    ASSUME Init PROVE Lists
<1>0. Control
  BY ControlInit
<1>1. /\ Range(<<>>) = {} /\ IsInjective(<<>>)
      /\ \A value : Sorted(<<>>, value)
  BY DEF Range, IsInjective, Sorted
<1>2. Timed = {} /\ Waiting = {} /\ pending = <<>> /\ blocked = {}
  BY <1>1 DEF Init, Timed, Waiting
<1>3. /\ \A p \in Level : IsInjective(ready[p])
      /\ \A t \in Task : Ready(t)
  BY TaskAssumption DEF Init, Ready
<1>4. StateLists
  BY <1>1, <1>2, <1>3 DEF Init, StateLists
<1>5. WaitLists
  BY <1>1, <1>2 DEF Init, WaitLists
<1> QED BY <1>4, <1>5 DEF Init, Lists, Caught

LEMMA ListsAlways == Spec => [](Control /\ Lists)
<1>1. Init => Lists
  BY ListsInit
<1>2. Control /\ Lists /\ [Next]_vars => Lists'
  <2>1. ASSUME Lists, UNCHANGED vars PROVE Lists'
    BY <2>1 DEF vars, listVars, delayVars, waitVars, timeVars, schedulerVars, Lists, StateLists,
                WaitLists, Caught, Ready, Timed, Waiting
  <2> QED BY <2>1, ListsNext
<1> QED BY <1>1, <1>2, ControlAlways, PTL DEF Spec

(* For every set of tasks, of calls and of interrupts: every task is in one*)
(* state list and in at most one list of waiting tasks, the lists keep     *)
(* their order, a task that waits is not ready, and nothing is left pending*)
(* when the scheduler goes on.                                             *)
THEOREM KernelTypes == Spec => []TypeOK
<1>1. Control /\ Lists => TypeOK
  <2> SUFFICES ASSUME Control, Lists PROVE TypeOK
    OBVIOUS
  <2>1. /\ tick \in Tick /\ next \in Tick /\ missed \in 0..MaxMissed
        /\ messages \in [Queue -> 0..Length] /\ lock \in [Event -> -1..MaxLock]
        /\ \A p \in Level : \A t \in Range(ready[p]) : Priority[t] = p
        /\ Waiting \subseteq Task /\ Range(pending) \subseteq Task
    BY RangeOfSeq DEF Control, Types, ListTypes, TimeTypes, QueueTypes, Waiting
  <2>2. \A t \in Task :
          \/ Ready(t) /\ t \notin Timed /\ t \notin blocked
          \/ t \in blocked /\ ~Ready(t) /\ t \notin Timed
          \/ t \in Timed /\ ~Ready(t) /\ t \notin blocked
    BY DEF Lists, StateLists
  <2>3. \A t \in Waiting \union Range(pending) : ~Ready(t)
    BY <2>1 DEF Lists, WaitLists
  <2> QED BY <2>1, <2>2, <2>3 DEF Lists, StateLists, WaitLists, Caught, TypeOK
<1> QED BY <1>1, ListsAlways, PTL

----------------------------------------------------------------------------
(* Who waits, and who was woken.                                           *)
Held == Waiting \union Range(pending)

LEMMA WaitingIs ==
    /\ \A t : t \in Waiting <=> \E e \in Event : t \in Range(waits[e])
    /\ \A t : t \in Waiting' <=> \E e \in Event : t \in Range(waits'[e])
<1>1. \A t : t \in Waiting <=> \E e \in Event : t \in Range(waits[e])
  BY DEF Waiting
<1>2. \A t : t \in Waiting' <=> \E e \in Event : t \in Range(waits'[e])
  BY DEF Waiting
<1> QED BY <1>1, <1>2

(* A step of the running task, or an interrupt, leaves the calls of the    *)
(* others alone.                                                           *)
LEMMA OthersStay ==
    ASSUME Control, Next, NEW t \in Task, t # current
    PROVE  pc'[t] = pc[t] /\ call'[t] = call[t]
<1> USE DEF Goto, Then, My, callVars
<1>0. CallTypes /\ current \in Task
  BY DEF Control, Types, SchedulerTypes
<1>1. CASE \/ Interrupt \/ xTaskResumeAll \/ DrainPending \/ ReplayTick
  BY <1>1 DEF Interrupt, SysTick, prvCheckDelayedTasks, PendSV, FromISR, xTaskResumeAll,
              DrainPending, ReplayTick
<1>2. CASE \/ Use \/ Succeed \/ Fail \/ Enter \/ vTaskSuspendAll \/ prvLockQueue
           \/ xTaskCheckForTimeOut \/ Test \/ vTaskPlaceOnEventList \/ vTaskDelay \/ Yield \/ Back
  BY <1>0, <1>2 DEF Use, Succeed, Fail, Return, Enter, vTaskSuspendAll, prvLockQueue,
                xTaskCheckForTimeOut, Test, vTaskPlaceOnEventList, vTaskDelay, Yield, Back, CallTypes
<1>3. CASE UnlockTx \/ UnlockRx
  BY <1>0, <1>3 DEF UnlockTx, UnlockRx, Unlock, CallTypes
<1>4. CASE Resumed
  <2>1. pc[current] = "resume"
    BY <1>4 DEF Resumed, Control, Suspension
  <2>2. call[current].then \in {"fail", "retry", "wait", "sleep"}
    BY <1>0, <2>1 DEF Control, Stages, StageOf, Ending
  <2>3. CASE call[current].then = "fail"
    BY <1>0, <1>4, <2>3 DEF Resumed, Continue, Return, CallTypes
  <2>4. CASE call[current].then # "fail"
    <3>1. UNCHANGED call /\ \E s : pc' = [pc EXCEPT ![current] = s]
      BY <1>4, <2>2, <2>4 DEF Resumed, Continue
    <3> QED BY <1>0, <3>1 DEF CallTypes
  <2> QED BY <2>3, <2>4
<1> QED BY <1>1, <1>2, <1>3, <1>4 DEF Next, Run, Resume

(* A list of waiting tasks loses tasks to the ready lists and to the       *)
(* pending one, and gains only the task that puts itself there.            *)
Leaves == /\ \A e \in Event : Range(waits'[e]) \subseteq Range(waits[e])
          /\ Range(pending') \subseteq Held

LEMMA UnblockLeaves ==
    ASSUME ListTypes, NEW t, Unblock(t) PROVE Leaves
<1>1. pending' = uxListRemove(pending, t) /\ waits' = [e \in Event |-> uxListRemove(waits[e], t)]
  BY DEF Unblock
<1>2. Range(pending') \subseteq Range(pending)
  BY <1>1, Removed DEF ListTypes
<1>3. ASSUME NEW e \in Event PROVE Range(waits'[e]) \subseteq Range(waits[e])
  <2>1. waits'[e] = uxListRemove(waits[e], t) /\ waits[e] \in Seq(Task)
    BY <1>1 DEF ListTypes
  <2> QED BY <2>1, Removed
<1> QED BY <1>2, <1>3 DEF Leaves, Held

LEMMA WakeLeaves ==
    ASSUME ListTypes, NEW e \in Event, waits[e] # <<>>, xTaskRemoveFromEventList(e)
    PROVE  Leaves
<1>1. CASE suspended
  <2>1. PICK t \in Task : t = Head(waits[e]) /\ t \in Range(waits[e])
           /\ Range(Tail(waits[e])) \subseteq Range(waits[e])
    BY Behead DEF ListTypes
  <2>2. waits' = [waits EXCEPT ![e] = Tail(waits[e])] /\ pending' = Append(pending, t)
    BY <1>1, <2>1 DEF xTaskRemoveFromEventList
  <2>3. Range(pending') = Range(pending) \union {t}
    BY <2>2, Appended DEF ListTypes
  <2>4. t \in Waiting
    BY <2>1, WaitingIs
  <2> QED BY <2>1, <2>2, <2>3, <2>4 DEF Leaves, Held, ListTypes
<1>2. CASE ~suspended
  <2>1. Unblock(Head(waits[e]))
    BY <1>2 DEF xTaskRemoveFromEventList
  <2> QED BY <2>1, UnblockLeaves
<1> QED BY <1>1, <1>2

LEMMA LeavesNext ==
    ASSUME Control, Lists, Next, ~vTaskPlaceOnEventList PROVE Leaves
<1> USE DEF listVars, waitVars
<1>0. ListTypes /\ QueueTypes /\ CallTypes /\ Stages /\ current \in Task /\ StateLists /\ WaitLists
  BY DEF Control, Types, SchedulerTypes, Lists
<1>1. UNCHANGED <<pending, waits>> => Leaves
  BY DEF Leaves, Held
<1>2. CASE SysTick \/ ReplayTick
  <2>1. UNCHANGED <<pending, waits>>
    BY <1>2 DEF SysTick, ReplayTick, vTaskIncrementTick
  <2> QED BY <1>1, <2>1
<1>3. CASE prvCheckDelayedTasks \/ DrainPending
  <2>1. UNCHANGED <<pending, waits>> \/ \E t : Unblock(t)
    BY <1>3 DEF prvCheckDelayedTasks, DrainPending
  <2> QED BY <1>0, <1>1, <2>1, UnblockLeaves
<1>4. CASE \E e \in IsrQueues \X Side : FromISR(e)
  <2>1. PICK e \in Event : FromISR(e) /\ Other(e) \in Event
    BY <1>4, QueueAssumption DEF Event, Other, Side
  <2>2. UNCHANGED <<pending, waits>> \/ (waits[Other(e)] # <<>> /\ xTaskRemoveFromEventList(Other(e)))
    BY <2>1 DEF FromISR
  <2> QED BY <1>0, <1>1, <2>1, <2>2, WakeLeaves
<1>5. CASE Succeed
  <2>1. PICK e \in Event : e = Other(MyEvent)
    BY <1>0, <1>5, MyEventIs DEF Succeed, At
  <2>2. UNCHANGED <<pending, waits>> \/ (waits[e] # <<>> /\ xTaskRemoveFromEventList(e))
    BY <1>5, <2>1 DEF Succeed
  <2> QED BY <1>0, <1>1, <2>2, WakeLeaves
<1>6. CASE UnlockTx \/ UnlockRx
  <2>1. PICK e \in Event : Unlock(e)
    <3>1. My.queue \in Queue
      BY <1>0, <1>6, MyEventIs DEF My, CallType, UnlockTx, UnlockRx, At
    <3> QED BY <1>6, <3>1 DEF UnlockTx, UnlockRx, Event, Side
  <2>2. /\ Range(waits'[e]) \subseteq Range(waits[e])
        /\ \A d \in Event : d # e => waits'[d] = waits[d]
        /\ Range(pending') \subseteq Range(pending) \union Range(waits[e])
    BY <1>0, <2>1, UnlockLists
  <2> QED BY <2>2, WaitingIs DEF Leaves, Held
<1>7. CASE \/ PendSV \/ Use \/ Fail \/ Enter \/ vTaskSuspendAll \/ prvLockQueue
           \/ xTaskCheckForTimeOut \/ Test \/ vTaskDelay \/ xTaskResumeAll \/ Resumed
           \/ Yield \/ Back
  <2>1. UNCHANGED <<pending, waits>>
    BY <1>7 DEF PendSV, Use, Fail, Enter, vTaskSuspendAll, prvLockQueue, xTaskCheckForTimeOut, Test,
                vTaskDelay, xTaskResumeAll, Resumed, Yield, Back
  <2> QED BY <1>1, <2>1
<1> QED
  BY <1>2, <1>3, <1>4, <1>5, <1>6, <1>7 DEF Next, Interrupt, Run, Resume

(* The running task, if it waits or was woken, is at the end of its call.  *)
LEMMA HeldKeeps ==
    ASSUME Control, Lists, Waiters, Next, NEW t \in Held
    PROVE  Waits(t)' /\ call'[t] = call[t]
<1> USE DEF Goto, Then, My, callVars, At
<1>0. /\ CallTypes /\ current \in Task /\ Stages /\ Suspension /\ Waits(t) /\ t \in Task
      /\ Waiting \subseteq Task /\ Range(pending) \subseteq Task
  <2>1. Waits(t)
    BY WaitingIs DEF Held, Waiters
  <2>2. Waiting \subseteq Task /\ Range(pending) \subseteq Task
    BY RangeOfSeq DEF Control, Types, ListTypes, Waiting
  <2> QED BY <2>1, <2>2 DEF Control, Types, SchedulerTypes, Held
<1>1. CASE t # current
  BY <1>0, <1>1, OthersStay DEF Waits
<1>2. CASE t = current
  <2>1. pc[t] \in {"unlockTx", "unlockRx", "resume", "yield", "back"}
    BY <1>0 DEF Waits, Ending
  <2>2. CASE \/ Interrupt \/ xTaskResumeAll \/ DrainPending \/ ReplayTick
    <3>1. UNCHANGED <<pc, call>>
      BY <2>2 DEF Interrupt, SysTick, prvCheckDelayedTasks, PendSV, FromISR, xTaskResumeAll,
                  DrainPending, ReplayTick
    <3> QED BY <1>0, <3>1 DEF Waits
  <2>3. CASE \/ Use \/ Succeed \/ Fail \/ Enter \/ vTaskSuspendAll \/ prvLockQueue
             \/ xTaskCheckForTimeOut \/ Test \/ vTaskPlaceOnEventList \/ vTaskDelay
    BY <1>2, <2>1, <2>3 DEF Use, Succeed, Fail, Enter, vTaskSuspendAll, prvLockQueue,
         xTaskCheckForTimeOut, Test, vTaskPlaceOnEventList, vTaskDelay
  <2>4. CASE UnlockTx \/ UnlockRx \/ Yield
    <3>1. UNCHANGED call /\ pc'[t] \in Ending \union {"yield", "back"}
      BY <1>0, <1>2, <2>4 DEF UnlockTx, UnlockRx, Unlock, Yield, CallTypes, Ending
    <3> QED BY <1>0, <3>1 DEF Waits
  <2>5. CASE Resumed
    <3>1. call[current].then = "wait"
      BY <1>0, <1>2 DEF Waits
    <3>2. UNCHANGED call /\ \E s \in {"yield", "back"} : pc' = [pc EXCEPT ![current] = s]
      BY <2>5, <3>1 DEF Resumed, Continue
    <3> QED BY <1>0, <1>2, <3>2 DEF Waits, CallTypes
  <2>6. CASE Back
    <3>1. Ready(current)
      BY <2>6, GoesOnReady DEF Back, Ending
    <3> QED BY <1>0, <1>2, <3>1 DEF Lists, WaitLists, Held
  <2> QED BY <2>2, <2>3, <2>4, <2>5, <2>6 DEF Next, Run, Resume
<1> QED BY <1>1, <1>2

LEMMA WaitersNext ==
    ASSUME Control, Lists, Waiters, Next PROVE Waiters'
<1>0. \A t \in Held : Waits(t)' /\ call'[t] = call[t]
  BY HeldKeeps
<1>1. \A e \in Event : \A t \in Range(waits[e]) : t \in Held /\ <<call[t].queue, call[t].kind>> = e
  BY WaitingIs DEF Held, Waiters
<1>2. CASE ~vTaskPlaceOnEventList
  <2>1. Leaves
    BY <1>2, LeavesNext
  <2> QED BY <1>0, <1>1, <2>1 DEF Leaves, Waiters
<1>3. CASE vTaskPlaceOnEventList
  <2>1. PICK me \in Task : me = current
    BY DEF Control, Types, SchedulerTypes
  <2>2. PICK e \in Event : e = MyEvent
    BY <1>3, MyEventIs DEF vTaskPlaceOnEventList, At, Control, Types, SchedulerTypes
  <2>3. /\ UNCHANGED <<pending, call>> /\ pc' = [pc EXCEPT ![me] = "unlockTx"]
        /\ waits' = [waits EXCEPT ![e] = vListInsert(waits[e], me, EventValue)]
    BY <1>3, <2>1, <2>2 DEF vTaskPlaceOnEventList, Goto
  <2>4. Waits(me)' /\ <<call[me].queue, call[me].kind>> = e
    <3>1. call[me].then = "wait" /\ call[me].kind \in Side
      BY <1>3, <2>1, MyEventIs
         DEF vTaskPlaceOnEventList, At, Control, Types, SchedulerTypes, Stages, StageOf
    <3> QED BY <2>1, <2>2, <2>3, <3>1 DEF Waits, MyEvent, My, Control, Types, CallTypes, Ending
  <2>5. Range(vListInsert(waits[e], me, EventValue)) = Range(waits[e]) \union {me}
    <3>1. waits[e] \in Seq(Task)
      BY DEF Control, Types, ListTypes
    <3> QED BY <3>1, EventValues, Inserted
  <2>6. \A d \in Event : Range(waits'[d]) \subseteq Range(waits[d]) \union
                            (IF d = e THEN {me} ELSE {})
    BY <2>3, <2>5 DEF Control, Types, ListTypes
  <2> QED BY <1>0, <1>1, <2>3, <2>4, <2>6 DEF Waiters, Held
<1> QED BY <1>2, <1>3

----------------------------------------------------------------------------
(* No wake-up is lost.                                                     *)
LEMMA OpenIs ==
    ASSUME QueueTypes, NEW e \in Event
    PROVE  /\ Available(e) \in Nat /\ Noted(e) \in Nat
           /\ Open(e) <=> Available(e) > 0
           /\ e[1] \in Queue /\ e[2] \in Side /\ lock[e] \in -1..MaxLock
<1>1. e[1] \in Queue /\ e[2] \in Side /\ lock[e] \in -1..MaxLock /\ messages[e[1]] \in 0..Length
  BY DEF Event, QueueTypes
<1> QED BY <1>1, Constants DEF Available, Noted, Open

LEMMA CopyMoves ==
    ASSUME QueueTypes, NEW e \in Event, Copy(e), NEW d \in Event
    PROVE  /\ d = e => Available(d)' = Available(d) - 1
           /\ d = Other(e) => Available(d)' = Available(d) + 1
           /\ d # e /\ d # Other(e) => Available(d)' = Available(d)
           /\ Other(e) # e /\ Other(e) \in Event
<1>1. PICK q \in Queue, s \in Side : e = <<q, s>>
  BY DEF Event
<1>2. PICK r \in Queue, z \in Side : d = <<r, z>>
  BY DEF Event
<1>3. messages' = [messages EXCEPT ![q] = messages[q] + (IF s = "send" THEN 1 ELSE -1)]
  BY <1>1 DEF Copy
<1>4. messages[q] \in Int /\ messages[r] \in Int /\ Length \in Int /\ messages \in [Queue -> 0..Length]
  BY Constants DEF QueueTypes
<1>5. messages'[r] = IF r = q THEN messages[q] + (IF s = "send" THEN 1 ELSE -1) ELSE messages[r]
  BY <1>3, <1>4
<1>6. /\ Available(d) = (IF z = "send" THEN Length - messages[r] ELSE messages[r])
      /\ Available(d)' = (IF z = "send" THEN Length - messages'[r] ELSE messages'[r])
      /\ Other(e) = <<q, IF s = "send" THEN "receive" ELSE "send">>
  BY <1>1, <1>2 DEF Available, Other
<1> HIDE DEF Available, Other
<1>7. /\ d = e <=> r = q /\ z = s
      /\ d = Other(e) <=> r = q /\ z # s
      /\ Other(e) # e /\ Other(e) \in Event
  BY <1>1, <1>2, <1>6 DEF Side, Event
<1>8. CASE r = q /\ z = s
  BY <1>4, <1>5, <1>6, <1>7, <1>8 DEF Side
<1>9. CASE r = q /\ z # s
  BY <1>4, <1>5, <1>6, <1>7, <1>9 DEF Side
<1>10. CASE r # q
  BY <1>4, <1>5, <1>6, <1>7, <1>10 DEF Side
<1> QED BY <1>8, <1>9, <1>10

(* Only a send or a receive changes what is in a queue, and only an        *)
(* interrupt and the running task that holds it change its lock.           *)
LEMMA QueuesKept ==
    ASSUME Control, Next, ~(\E e \in IsrQueues \X Side : FromISR(e)), ~Succeed
    PROVE  /\ messages' = messages
           /\ ~(UnlockTx \/ UnlockRx) => \A e \in Event : lock'[e] >= lock[e]
<1> USE DEF queueVars
<1>0. \A e \in Event : lock[e] \in Int
  BY DEF Control, Types, QueueTypes
<1>1. CASE prvLockQueue
  BY <1>0, <1>1 DEF prvLockQueue
<1>2. CASE UnlockTx \/ UnlockRx
  BY <1>2 DEF UnlockTx, UnlockRx, Unlock
<1>3. CASE Interrupt
  BY <1>0, <1>3 DEF Interrupt, SysTick, prvCheckDelayedTasks, PendSV
<1>4. CASE \/ Use \/ Fail \/ Enter \/ vTaskSuspendAll \/ xTaskCheckForTimeOut \/ Test
           \/ vTaskPlaceOnEventList \/ vTaskDelay \/ Resume \/ Yield \/ Back
  BY <1>0, <1>4 DEF Use, Fail, Enter, vTaskSuspendAll, xTaskCheckForTimeOut, Test,
       vTaskPlaceOnEventList, vTaskDelay, Resume, xTaskResumeAll, DrainPending, ReplayTick, Resumed,
       Yield, Back
<1> QED BY <1>1, <1>2, <1>3, <1>4 DEF Next, Run

(* A task is looked for while it is away from the lists.                   *)
LEMMA TasksFinite == IsFiniteSet(Task)
<1>1. ASSUME NEW p \in Level PROVE IsFiniteSet({t \in Task : Priority[t] = p})
  <2>1. Created[p] \in Seq(Task) /\ Range(Created[p]) = {t \in Task : Priority[t] = p}
    BY <1>1, TaskAssumption
  <2> DEFINE s == Created[p]
  <2>2. Len(s) \in Nat /\ DOMAIN s = 1..Len(s) /\ s \in [1..Len(s) -> Task]
    BY <2>1, LenProperties
  <2> HIDE DEF s
  <2>3. s \in Surjection(1..Len(s), Range(s))
    <3>1. s \in [1..Len(s) -> Range(s)]
      BY <2>2 DEF Range
    <3> QED BY <2>2, <3>1 DEF Surjection, Range
  <2>4. IsFiniteSet(1..Len(s))
    BY <2>2, FS_Interval
  <2> QED BY <2>1, <2>3, <2>4, FS_Surjection DEF s
<1> DEFINE Of(p) == {t \in Task : Priority[t] = p}
<1>2. IsFiniteSet(Of(0)) /\ IsFiniteSet(Of(1)) /\ IsFiniteSet(Of(2)) /\ IsFiniteSet(Of(3))
      /\ IsFiniteSet(Of(4))
  BY <1>1 DEF Level
<1>3. Task = Of(0) \union Of(1) \union Of(2) \union Of(3) \union Of(4)
  BY Constants DEF Level
<1> HIDE DEF Of
<1>4. IsFiniteSet(Of(0) \union Of(1))
  BY <1>2, FS_Union
<1>5. IsFiniteSet(Of(0) \union Of(1) \union Of(2))
  BY <1>2, <1>4, FS_Union
<1>6. IsFiniteSet(Of(0) \union Of(1) \union Of(2) \union Of(3))
  BY <1>2, <1>5, FS_Union
<1> QED BY <1>2, <1>3, <1>6, FS_Union

LEMMA Grown ==
    ASSUME NEW S \in SUBSET Task, NEW T \in SUBSET Task
    PROVE  /\ Cardinality(S) \in Nat /\ Cardinality(T) \in Nat
           /\ S \subseteq T => Cardinality(S) <= Cardinality(T)
           /\ \A t : S \ {t} \subseteq T => Cardinality(S) <= Cardinality(T) + 1
           /\ \A t : S \union {t} \subseteq T /\ t \notin S => Cardinality(S) + 1 <= Cardinality(T)
<1>1. /\ IsFiniteSet(S) /\ IsFiniteSet(T)
      /\ Cardinality(S) \in Nat /\ Cardinality(T) \in Nat
  BY TasksFinite, FS_Subset, FS_CardinalityType
<1>2. \A U : U \subseteq T => Cardinality(U) <= Cardinality(T)
  BY <1>1, FS_Subset
<1>3. ASSUME NEW t, S \ {t} \subseteq T PROVE Cardinality(S) <= Cardinality(T) + 1
  <2>1. Cardinality(S \ {t}) = IF t \in S THEN Cardinality(S) - 1 ELSE Cardinality(S)
    BY <1>1, FS_RemoveElement
  <2>2. Cardinality(S \ {t}) <= Cardinality(T)
    BY <1>2, <1>3
  <2> QED BY <1>1, <2>1, <2>2
<1>4. ASSUME NEW t, S \union {t} \subseteq T, t \notin S PROVE Cardinality(S) + 1 <= Cardinality(T)
  <2>1. Cardinality(S \union {t}) = Cardinality(S) + 1
    BY <1>1, <1>4, FS_AddElement
  <2>2. Cardinality(S \union {t}) <= Cardinality(T)
    BY <1>2, <1>4
  <2> QED BY <2>1, <2>2
<1> QED BY <1>1, <1>2, <1>3, <1>4

LEMMA GrownBy ==
    ASSUME NEW S \in SUBSET Task, NEW T \in SUBSET Task, NEW list \in Seq(Task), IsInjective(list),
           S \intersect Range(list) = {}, S \union Range(list) \subseteq T
    PROVE  Cardinality(S) + Len(list) <= Cardinality(T)
<1>1. Range(list) \subseteq Task /\ Len(list) \in Nat /\ DOMAIN list = 1..Len(list)
  BY RangeOfSeq, LenProperties
<1>2. IsFiniteSet(S) /\ IsFiniteSet(T) /\ IsFiniteSet(Range(list))
  BY <1>1, TasksFinite, FS_Subset
<1>3. Cardinality(Range(list)) = Len(list)
  <2>1. list \in Surjection(1..Len(list), Range(list)) /\ list \in Injection(1..Len(list), Range(list))
    <3>1. list \in [1..Len(list) -> Range(list)]
      BY <1>1 DEF Range
    <3>2. \A t \in Range(list) : \E i \in 1..Len(list) : list[i] = t
      BY <1>1 DEF Range
    <3> QED BY <3>1, <3>2 DEF Surjection, Injection
  <2>2. IsFiniteSet(1..Len(list)) /\ Cardinality(1..Len(list)) = Len(list)
    BY <1>1, FS_Interval
  <2> QED BY <2>1, <2>2, FS_Surjection
<1>4. Cardinality(S \union Range(list)) = Cardinality(S) + Cardinality(Range(list)) - Cardinality({})
  BY <1>2, FS_Union
<1>5. Cardinality(S \union Range(list)) <= Cardinality(T) /\ Cardinality(S) \in Nat
  BY <1>2, FS_Subset, FS_CardinalityType
<1> QED BY <1>1, <1>3, <1>4, <1>5, FS_EmptySet

LEMMA LockedNext ==
    ASSUME Control, Control', Locked, Next PROVE Locked'
<1> USE DEF At, Goto, My, Then, schedulerVars, interruptVars, queueVars, callVars
<1>0. /\ CallTypes /\ current \in Task /\ Stages
      /\ lock \in [Event -> -1..MaxLock] /\ lock' \in [Event -> -1..MaxLock]
  BY DEF Control, Types, SchedulerTypes, QueueTypes
<1> SUFFICES ASSUME pc'[current'] \in {"check", "test", "place"}, NEW e \in Event,
                    e[1] = call'[current'].queue
             PROVE  lock'[e] >= 0
  BY DEF Locked
<1>1. suspended'
  BY DEF Control, Suspension, Suspending
<1>2. ASSUME UNCHANGED <<current, pc, call>>, lock'[e] >= lock[e] PROVE lock'[e] >= 0
  BY <1>0, <1>2 DEF Locked
<1>3. CASE Interrupt
  <2>1. UNCHANGED <<pc, call, current>>
    BY <1>1, <1>3 DEF Interrupt, SysTick, prvCheckDelayedTasks, PendSV, FromISR
  <2>2. lock'[e] >= lock[e]
    <3>1. CASE \E f \in IsrQueues \X Side : FromISR(f)
      <4>1. PICK f \in IsrQueues \X Side : FromISR(f)
        BY <3>1
      <4>2. lock' = lock \/ lock' = [lock EXCEPT ![Other(f)] = lock[Other(f)] + 1]
        BY <4>1 DEF FromISR
      <4> QED BY <1>0, <4>2
    <3>2. CASE ~\E f \in IsrQueues \X Side : FromISR(f)
      <4>1. UNCHANGED lock
        BY <1>3, <3>2 DEF Interrupt, SysTick, prvCheckDelayedTasks, PendSV
      <4> QED BY <1>0, <4>1
    <3> QED BY <3>1, <3>2
  <2> QED BY <1>2, <2>1, <2>2
<1>4. CASE xTaskResumeAll \/ DrainPending \/ ReplayTick
  <2>1. UNCHANGED <<pc, call, current, lock>>
    BY <1>4 DEF xTaskResumeAll, DrainPending, ReplayTick
  <2> QED BY <1>0, <1>2, <2>1
<1>5. CASE prvLockQueue
  <2>1. lock'[e] = IF e[1] = call[current].queue /\ lock[e] = -1 THEN 0 ELSE lock[e]
    BY <1>5 DEF prvLockQueue
  <2>2. e[1] = call[current].queue
    BY <1>5 DEF prvLockQueue
  <2> QED BY <1>0, <2>1, <2>2, Constants
<1>6. CASE xTaskCheckForTimeOut \/ Test
  <2>1. pc[current] \in {"check", "test"} /\ UNCHANGED <<current, lock>>
    BY <1>6 DEF xTaskCheckForTimeOut, Test
  <2>2. call[current] \in CallType
    BY <1>0, <2>1 DEF CallTypes, Stages, StageOf
  <2>3. call'[current].queue = call[current].queue
    BY <1>0, <1>6, <2>2 DEF xTaskCheckForTimeOut, Test, CallTypes, CallType
  <2> QED BY <1>0, <2>1, <2>3 DEF Locked
<1>7. CASE \/ Use \/ Succeed \/ Fail \/ Enter \/ vTaskSuspendAll \/ vTaskPlaceOnEventList
           \/ UnlockTx \/ UnlockRx \/ vTaskDelay \/ Yield \/ Back
  <2>1. pc'[current'] \notin {"check", "test", "place"}
    BY <1>0, <1>7 DEF Use, Succeed, Fail, Return, Enter, vTaskSuspendAll, vTaskPlaceOnEventList,
                      UnlockTx, UnlockRx, Unlock, vTaskDelay, Yield, Back, CallTypes
  <2> QED BY <2>1
<1>8. CASE Resumed
  BY <1>1, <1>8 DEF Resumed
<1> QED BY <1>3, <1>4, <1>5, <1>6, <1>7, <1>8 DEF Next, Run, Resume

(* What the running task found wanting stays wanting until it waits, or an *)
(* interrupt notes it in the lock.                                         *)
LEMMA PlaceNext ==
    ASSUME Control, Control', Locked, Counted, Next, pc'[current'] = "place"
    PROVE  Available(MyEvent)' <= Noted(MyEvent)'
<1> USE DEF At, Goto, My, Then, schedulerVars, interruptVars, queueVars, callVars
<1>0. /\ CallTypes /\ QueueTypes /\ current \in Task /\ Stages
  BY DEF Control, Types, SchedulerTypes
<1>1. suspended'
  BY DEF Control, Suspension, Suspending
<1>2. CASE Test
  <2>1. PICK e \in Event : e = MyEvent
    BY <1>0, <1>2, MyEventIs DEF Test
  <2>2. ~Open(e) /\ UNCHANGED <<current, messages, lock>>
    BY <1>0, <1>2, <2>1 DEF Test, CallTypes
  <2>3. call[current] \in CallType
    BY <1>0, <1>2 DEF Test, CallTypes, Stages, StageOf
  <2>4. MyEvent' = e
    BY <1>0, <1>2, <2>1, <2>2, <2>3 DEF Test, MyEvent, CallTypes, CallType
  <2>5. Available(e)' = Available(e) /\ Noted(e)' = Noted(e)
    BY <2>2 DEF Available, Noted
  <2>6. Available(e)' <= Noted(e)'
    BY <1>0, <2>2, <2>5, OpenIs
  <2>7. MyEvent' = e => (Available(MyEvent)' <= Noted(MyEvent)' <=> Available(e)' <= Noted(e)')
    BY DEF Available, Noted
  <2> QED BY <2>4, <2>6, <2>7
<1>3. CASE Interrupt
  <2>1. UNCHANGED <<pc, call, current>>
    BY <1>1, <1>3 DEF Interrupt, SysTick, prvCheckDelayedTasks, PendSV, FromISR
  <2>2. PICK e \in Event : e = MyEvent
    BY <1>0, <2>1, MyEventIs
  <2>3. MyEvent' = e
    BY <2>1, <2>2 DEF MyEvent
  <2>4. lock[e] >= 0 /\ Available(e) <= Noted(e)
    BY <1>0, <2>1, <2>2 DEF Locked, Counted, MyEvent
  <2>5. Available(e)' <= Noted(e)'
    <3>1. CASE \E f \in IsrQueues \X Side : FromISR(f)
      <4>1. PICK f \in Event : FromISR(f)
        BY <3>1, QueueAssumption DEF Event
      <4>2. CASE e = Other(f)
        <5>1. lock' = [lock EXCEPT ![e] = lock[e] + 1]
          BY <1>0, <2>4, <4>1, <4>2 DEF FromISR
        <5>2. Available(e)' = Available(e) + 1
          BY <1>0, <4>1, <4>2, CopyMoves DEF FromISR
        <5>3. Noted(e)' = Noted(e) + 1
          BY <1>0, <2>4, <5>1, OpenIs DEF Noted, QueueTypes
        <5> QED BY <1>0, <2>4, <5>2, <5>3, OpenIs
      <4>3. CASE e # Other(f)
        <5>1. lock'[e] = lock[e]
          <6>1. lock' = lock \/ lock' = [lock EXCEPT ![Other(f)] = lock[Other(f)] + 1]
            BY <4>1 DEF FromISR
          <6> QED BY <1>0, <4>3, <6>1 DEF QueueTypes
        <5>2. Available(e)' = Available(e) - 1 \/ Available(e)' = Available(e)
          BY <1>0, <4>1, <4>3, CopyMoves DEF FromISR
        <5>3. Noted(e)' = Noted(e)
          BY <5>1 DEF Noted
        <5> QED BY <1>0, <2>4, <5>2, <5>3, OpenIs
      <4> QED BY <4>2, <4>3
    <3>2. CASE ~\E f \in IsrQueues \X Side : FromISR(f)
      <4>1. UNCHANGED <<messages, lock>>
        BY <1>3, <3>2 DEF Interrupt, SysTick, prvCheckDelayedTasks, PendSV
      <4>2. Available(e)' = Available(e) /\ Noted(e)' = Noted(e)
        BY <4>1 DEF Available, Noted
      <4> QED BY <2>4, <4>2
    <3> QED BY <3>1, <3>2
  <2>6. MyEvent' = e => (Available(MyEvent)' <= Noted(MyEvent)' <=> Available(e)' <= Noted(e)')
    BY DEF Available, Noted
  <2> QED BY <2>3, <2>5, <2>6
<1>4. CASE xTaskResumeAll \/ DrainPending \/ ReplayTick
  <2>1. UNCHANGED <<pc, current>> /\ pc[current] = "resume"
    BY <1>4 DEF xTaskResumeAll, DrainPending, ReplayTick, Control, Suspension
  <2> QED BY <2>1
<1>5. CASE \/ Use \/ Succeed \/ Fail \/ Enter \/ vTaskSuspendAll \/ prvLockQueue
           \/ xTaskCheckForTimeOut \/ vTaskPlaceOnEventList
           \/ UnlockTx \/ UnlockRx \/ vTaskDelay \/ Yield \/ Back
  <2>1. pc'[current'] # "place"
    BY <1>0, <1>5 DEF Use, Succeed, Fail, Return, Enter, vTaskSuspendAll, prvLockQueue,
         xTaskCheckForTimeOut, vTaskPlaceOnEventList, UnlockTx, UnlockRx, Unlock, vTaskDelay, Yield,
         Back, CallTypes
  <2> QED BY <2>1
<1>6. CASE Resumed
  BY <1>1, <1>6 DEF Resumed
<1> QED BY <1>2, <1>3, <1>4, <1>5, <1>6 DEF Next, Run, Resume

(* A task that looks goes on doing so, until it has found what it wants or *)
(* that there is none.                                                     *)
LEMMA LookersAre ==
    ASSUME NEW e \in Event
    PROVE  /\ Lookers(e) \in SUBSET Task /\ Lookers(e)' \in SUBSET Task
           /\ Lookers(e)' = {t \in Task :
                 /\ <<call'[t].queue, call'[t].kind>> = e /\ t \notin Waiting'
                 /\ \/ pc'[t] \in {"try", "yield", "back"}
                    \/ pc'[t] \in Ending /\ call'[t].then \in {"retry", "wait"}}
BY DEF Lookers

LEMMA WaitingNext ==
    ASSUME Control, Lists, Next
    PROVE  /\ Waiting' \subseteq Waiting \union {current}
           /\ ~vTaskPlaceOnEventList => Waiting' \subseteq Waiting
<1>1. CASE ~vTaskPlaceOnEventList
  <2>1. Leaves
    BY <1>1, LeavesNext
  <2> QED BY <2>1, WaitingIs DEF Leaves
<1>2. CASE vTaskPlaceOnEventList
  <2>1. PICK me \in Task : me = current
    BY DEF Control, Types, SchedulerTypes
  <2>2. PICK e \in Event : e = MyEvent
    BY <1>2, MyEventIs DEF vTaskPlaceOnEventList, At, Control, Types, SchedulerTypes
  <2>3. waits' = [waits EXCEPT ![e] = vListInsert(waits[e], me, EventValue)]
    BY <1>2, <2>1, <2>2 DEF vTaskPlaceOnEventList
  <2>4. Range(vListInsert(waits[e], me, EventValue)) = Range(waits[e]) \union {me}
    <3>1. waits[e] \in Seq(Task)
      BY DEF Control, Types, ListTypes
    <3> QED BY <3>1, EventValues, Inserted
  <2>5. \A d \in Event : Range(waits'[d]) \subseteq Range(waits[d]) \union {me}
    BY <2>3, <2>4 DEF Control, Types, ListTypes
  <2> QED BY <1>2, <2>1, <2>5, WaitingIs
<1> QED BY <1>1, <1>2

LEMMA LookersNext ==
    ASSUME Control, Lists, Next, NEW d \in Event
    PROVE  /\ Lookers(d) \ {current} \subseteq Lookers(d)'
           /\ ~(Succeed \/ Fail \/ Enter) \/ d # MyEvent => Lookers(d) \subseteq Lookers(d)'
<1> USE DEF At, Goto, My, Then, callVars
<1>0. /\ CallTypes /\ current \in Task /\ Stages /\ Suspension
  BY DEF Control, Types, SchedulerTypes
<1>1. ASSUME NEW t \in Lookers(d), t # current PROVE t \in Lookers(d)'
  <2>1. pc'[t] = pc[t] /\ call'[t] = call[t]
    BY <1>1, OthersStay DEF Lookers
  <2>2. t \notin Waiting'
    BY <1>1, WaitingNext DEF Lookers
  <2> QED BY <2>1, <2>2, LookersAre DEF Lookers
<1>2. ASSUME current \in Lookers(d), ~(Succeed \/ Fail \/ Enter) \/ d # MyEvent
      PROVE  current \in Lookers(d)'
  <2> PICK me \in Task : me = current
    BY <1>0
  <2>0. /\ <<call[me].queue, call[me].kind>> = d /\ me \notin Waiting
        /\ \/ pc[me] \in {"try", "yield", "back"}
           \/ pc[me] \in Ending /\ call[me].then \in {"retry", "wait"}
    BY <1>2 DEF Lookers
  <2>1. d = MyEvent /\ ~vTaskPlaceOnEventList
    BY <2>0 DEF MyEvent, vTaskPlaceOnEventList, Ending
  <2>2. me \notin Waiting'
    BY <2>0, <2>1, WaitingNext
  <2>3. ASSUME UNCHANGED call,
               \/ pc'[me] \in {"try", "yield", "back"}
               \/ pc'[me] \in Ending /\ call[me].then \in {"retry", "wait"}
        PROVE  me \in Lookers(d)'
    BY <2>0, <2>2, <2>3, LookersAre
  <2>4. CASE Interrupt \/ xTaskResumeAll \/ DrainPending \/ ReplayTick
    <3>1. UNCHANGED <<pc, call>>
      BY <2>4 DEF Interrupt, SysTick, prvCheckDelayedTasks, PendSV, FromISR, xTaskResumeAll,
                  DrainPending, ReplayTick
    <3> QED BY <2>0, <2>3, <3>1
  <2>5. CASE UnlockTx \/ UnlockRx
    <3>1. UNCHANGED call /\ pc'[me] \in Ending /\ pc[me] \in Ending
      BY <1>0, <2>5 DEF UnlockTx, UnlockRx, Unlock, CallTypes, Ending
    <3> QED BY <2>0, <2>3, <3>1 DEF Ending
  <2>6. CASE Yield
    <3>1. UNCHANGED call /\ pc'[me] = "back"
      BY <1>0, <2>6 DEF Yield, CallTypes
    <3> QED BY <2>3, <3>1
  <2>7. CASE Back
    <3>1. call[me].kind # "delay"
      BY <2>0 DEF Event, Side
    <3>2. UNCHANGED call /\ pc'[me] = "try"
      BY <1>0, <2>7, <3>1 DEF Back, CallTypes
    <3> QED BY <2>3, <3>2
  <2>8. CASE Resumed
    <3>1. pc[me] = "resume"
      BY <1>0, <2>8 DEF Resumed, Suspension
    <3>2. call[current].then \in {"retry", "wait"}
      BY <2>0, <3>1
    <3>3. UNCHANGED call /\ \E s \in {"try", "yield", "back"} : pc' = [pc EXCEPT ![current] = s]
      BY <2>8, <3>2 DEF Resumed, Continue
    <3>4. pc'[me] \in {"try", "yield", "back"}
      BY <1>0, <3>3 DEF CallTypes
    <3> QED BY <2>3, <3>3, <3>4
  <2>9. ~(\/ Succeed \/ Fail \/ Enter \/ Use \/ vTaskSuspendAll \/ prvLockQueue
          \/ xTaskCheckForTimeOut \/ Test \/ vTaskPlaceOnEventList \/ vTaskDelay)
    BY <1>2, <2>0, <2>1 DEF Use, vTaskSuspendAll, prvLockQueue, xTaskCheckForTimeOut, Test,
         vTaskPlaceOnEventList, vTaskDelay, Ending
  <2> QED BY <2>4, <2>5, <2>6, <2>7, <2>8, <2>9 DEF Next, Run, Resume
<1> QED BY <1>1, <1>2

LEMMA WokenLooks ==
    ASSUME Control, Lists, Lists', Waiters, Next, NEW e \in Event, NEW t \in Range(waits[e]),
           t \in Range(pending') \/ Ready(t)'
    PROVE  t \in Lookers(e)' /\ t \notin Lookers(e)
<1>1. t \in Waiting /\ t \in Task
  <2>1. waits[e] \in Seq(Task)
    BY DEF Control, Types, ListTypes
  <2> QED BY <2>1, RangeOfSeq, WaitingIs
<1>2. Waits(t)' /\ call'[t] = call[t] /\ <<call[t].queue, call[t].kind>> = e
  BY <1>1, HeldKeeps DEF Held, Waiters
<1>3. t \notin Waiting'
  BY <1>1 DEF Lists, WaitLists
<1>4. /\ call'[t].then = "wait" /\ pc'[t] \in Ending \union {"yield", "back"}
  BY <1>2 DEF Waits
<1> QED BY <1>1, <1>2, <1>3, <1>4, LookersAre DEF Lookers

LEMMA NotEmpty ==
    ASSUME NEW S, NEW list \in Seq(S) PROVE list # <<>> <=> Range(list) # {}
<1>1. Range(<<>>) = {}
  BY DEF Range
<1>2. list # <<>> => Head(list) \in Range(list)
  BY Behead
<1> QED BY <1>1, <1>2

LEMMA WakeAdds ==
    ASSUME Control, Lists, Lists', Waiters, Next, NEW e \in Event, waits[e] # <<>>,
           xTaskRemoveFromEventList(e), Lookers(e) \subseteq Lookers(e)'
    PROVE  Cardinality(Lookers(e)) + 1 <= Cardinality(Lookers(e)')
<1>0. ListTypes /\ waits[e] \in Seq(Task)
  BY DEF Control, Types, ListTypes
<1>1. PICK t \in Range(waits[e]) : t = Head(waits[e]) /\ t \in Task
  BY <1>0, Behead
<1>2. CASE suspended
  <2>1. pending' = Append(pending, t)
    BY <1>1, <1>2 DEF xTaskRemoveFromEventList
  <2>2. t \in Range(pending')
    BY <1>0, <1>1, <2>1, Appended DEF ListTypes
  <2> QED BY <1>1, <2>2, WokenLooks, LookersAre, Grown
<1>3. CASE ~suspended
  <2>1. Unblock(t) /\ UNCHANGED <<wake, next>>
    BY <1>1, <1>3 DEF xTaskRemoveFromEventList
  <2>2. Ready(t)'
    BY <1>0, <1>1, <2>1, UnblockEffect DEF ListTypes
  <2> QED BY <1>1, <2>2, WokenLooks, LookersAre, Grown
<1> QED BY <1>2, <1>3

(* The lock is taken off: all that interrupts noted in it is handed on, as *)
(* long as any task waits.                                                 *)
LEMMA UnlockAdds ==
    ASSUME Control, Lists, Lists', Waiters, Next, NEW e \in Event, Unlock(e),
           waits'[e] # <<>>, Lookers(e) \subseteq Lookers(e)'
    PROVE  Noted(e) + Cardinality(Lookers(e)) <= Cardinality(Lookers(e)')
<1> DEFINE n == IF lock[e] > Len(waits[e]) THEN Len(waits[e])
                ELSE IF lock[e] > 0 THEN lock[e] ELSE 0
           u == SubSeq(waits[e], 1, n)
           v == SubSeq(waits[e], n + 1, Len(waits[e]))
<1>1. /\ waits[e] \in Seq(Task) /\ Len(waits[e]) \in Nat /\ lock[e] \in -1..MaxLock
      /\ IsInjective(waits[e]) /\ pending \in Seq(Task) /\ waits \in [Event -> Seq(Task)]
  BY LenProperties DEF Control, Types, ListTypes, QueueTypes, Lists, WaitLists
<1>2. n \in 0..Len(waits[e])
  BY <1>1, Constants
<1>3. n < Len(waits[e]) => n = Noted(e)
  BY <1>1, Constants DEF Noted
<1>4. waits' = [waits EXCEPT ![e] = v] /\ pending' = pending \o u
  BY DEF Unlock
<1> HIDE DEF n
<1>5. /\ u \in Seq(Task) /\ v \in Seq(Task) /\ Len(u) = n /\ Len(v) = Len(waits[e]) - n
      /\ Range(waits[e]) = Range(u) \union Range(v) /\ IsInjective(u)
  <2>1. /\ u \in Seq(Task) /\ v \in Seq(Task)
        /\ Range(waits[e]) = Range(u) \union Range(v) /\ IsInjective(u)
    BY <1>1, <1>2, Cut
  <2>2. Len(u) = n /\ Len(v) = Len(waits[e]) - n
    BY <1>1, <1>2, Cut
  <2> HIDE DEF u, v
  <2> QED BY <2>1, <2>2
<1> HIDE DEF u, v
<1>6. v # <<>>
  BY <1>1, <1>4
<1>7. n = Noted(e)
  <2>1. Len(v) # 0
    BY <1>5, <1>6, EmptySeq
  <2> QED BY <1>1, <1>2, <1>3, <1>5, <2>1
<1>8. \A t \in Range(u) : t \in Lookers(e)' /\ t \notin Lookers(e)
  <2>1. Range(u) \subseteq Range(pending')
    BY <1>1, <1>4, <1>5, Joined
  <2> QED BY <1>5, <2>1, WokenLooks
<1>9. Cardinality(Lookers(e)) + Len(u) <= Cardinality(Lookers(e)')
  <2>1. Lookers(e) \intersect Range(u) = {} /\ Lookers(e) \union Range(u) \subseteq Lookers(e)'
    BY <1>8
  <2> QED BY <1>5, <2>1, LookersAre, GrownBy
<1>10. Cardinality(Lookers(e)) \in Nat /\ n \in Nat
  BY <1>1, <1>2, LookersAre, Grown
<1> QED BY <1>5, <1>7, <1>9, <1>10

LEMMA EnoughNext ==
    ASSUME Control, Control', Lists, Lists', WakeUps, Next, NEW d \in Event, waits'[d] # <<>>
    PROVE  Available(d)' <= Noted(d)' + Cardinality(Lookers(d)')
<1> USE DEF At, listVars, waitVars, queueVars
<1> DEFINE m == Cardinality(Lookers(d))
           m1 == Cardinality(Lookers(d)')
<1>0. /\ CallTypes /\ QueueTypes /\ ListTypes /\ current \in Task /\ Stages /\ Suspension
      /\ Waiters /\ Locked /\ Counted
      /\ ListTypes'
  BY DEF Control, Types, SchedulerTypes, WakeUps
<1>1. /\ Available(d) \in Nat /\ Noted(d) \in Nat /\ m \in Nat /\ m1 \in Nat
      /\ Available(d)' \in Nat /\ Noted(d)' \in Nat
  <2>1. Available(d) \in Nat /\ Noted(d) \in Nat
    BY <1>0, OpenIs
  <2>2. Available(d)' \in Nat /\ Noted(d)' \in Nat
    <3>1. /\ d[1] \in Queue /\ messages'[d[1]] \in 0..Length /\ lock'[d] \in -1..MaxLock
      BY <1>0, OpenIs DEF Control, Types, QueueTypes
    <3> QED BY <3>1, Constants DEF Available, Noted
  <2> QED BY <2>1, <2>2, LookersAre, Grown
<1>2. ~vTaskPlaceOnEventList => waits[d] # <<>>
  <2>1. waits[d] \in Seq(Task) /\ waits'[d] \in Seq(Task)
    BY <1>0 DEF ListTypes
  <2>2. ~vTaskPlaceOnEventList => Range(waits'[d]) \subseteq Range(waits[d])
    BY LeavesNext DEF Leaves
  <2> QED BY <2>1, <2>2, NotEmpty
<1>3. waits[d] # <<>> => Available(d) <= Noted(d) + m
  BY <1>0 DEF Counted
<1>4. /\ Lookers(d) \subseteq Lookers(d)' => m <= m1
      /\ m <= m1 + 1
  <2>1. Lookers(d) \ {current} \subseteq Lookers(d)'
    BY LookersNext
  <2> QED BY <2>1, LookersAre, Grown
<1>5. ~(Succeed \/ Fail \/ Enter) \/ d # MyEvent => Lookers(d) \subseteq Lookers(d)'
  BY LookersNext
<1>6. /\ messages' = messages => Available(d)' = Available(d)
      /\ lock'[d] >= lock[d] => Noted(d)' >= Noted(d)
      /\ lock'[d] = lock[d] => Noted(d)' = Noted(d)
  <2>1. lock[d] \in Int /\ lock'[d] \in Int
    BY <1>0 DEF Control, Types, QueueTypes
  <2> QED BY <2>1 DEF Available, Noted
<1>7. ASSUME waits[d] # <<>>, Available(d)' <= Available(d), Noted(d)' >= Noted(d),
             Lookers(d) \subseteq Lookers(d)'
      PROVE  Available(d)' <= Noted(d)' + m1
  BY <1>1, <1>3, <1>4, <1>7
<1>8. ASSUME waits[d] # <<>>, Available(d)' <= Available(d) + 1, Noted(d)' = Noted(d),
             xTaskRemoveFromEventList(d), Lookers(d) \subseteq Lookers(d)'
      PROVE  Available(d)' <= Noted(d)' + m1
  <2>1. m + 1 <= m1
    BY <1>0, <1>8, WakeAdds
  <2> QED BY <1>1, <1>3, <1>8, <2>1
<1>9. UNCHANGED pc \/ pc[current] \notin {"try", "place"}
          => ~(Succeed \/ Fail \/ Enter) /\ ~vTaskPlaceOnEventList
  BY <1>0 DEF Succeed, Fail, Return, Enter, vTaskPlaceOnEventList, Goto, CallTypes
<1>10. CASE \E f \in IsrQueues \X Side : FromISR(f)
  <2>1. PICK f \in Event : FromISR(f) /\ Copy(f)
    BY <1>10, QueueAssumption DEF Event, FromISR
  <2>2. waits[d] # <<>> /\ Lookers(d) \subseteq Lookers(d)'
    <3>1. UNCHANGED pc
      BY <2>1 DEF FromISR, callVars
    <3> QED BY <1>2, <1>5, <1>9, <3>1
  <2>3. CASE d = Other(f)
    <3>1. Available(d)' = Available(d) + 1
      BY <1>0, <2>1, <2>3, CopyMoves
    <3>2. CASE lock[d] >= 0
      <4>1. lock' = [lock EXCEPT ![d] = lock[d] + 1]
        BY <2>1, <2>3, <3>2 DEF FromISR
      <4>2. Noted(d)' = Noted(d) + 1
        BY <1>0, <3>2, <4>1, OpenIs DEF Noted, QueueTypes
      <4> QED BY <1>1, <1>3, <1>4, <2>2, <3>1, <4>2
    <3>3. CASE ~(lock[d] >= 0)
      <4>1. xTaskRemoveFromEventList(d) /\ lock' = lock
        BY <2>1, <2>2, <2>3, <3>3 DEF FromISR
      <4> QED BY <1>1, <1>6, <1>8, <2>2, <3>1, <4>1
    <3> QED BY <3>2, <3>3
  <2>4. CASE d # Other(f)
    <3>1. Available(d)' <= Available(d)
      BY <1>0, <1>1, <2>1, <2>4, CopyMoves
    <3>2. lock'[d] = lock[d]
      <4>1. lock' = lock \/ lock' = [lock EXCEPT ![Other(f)] = lock[Other(f)] + 1]
        BY <2>1 DEF FromISR
      <4> QED BY <1>0, <2>4, <4>1 DEF QueueTypes
    <3> QED BY <1>1, <1>6, <1>7, <2>2, <3>1, <3>2
  <2> QED BY <2>3, <2>4
<1>11. CASE Succeed
  <2>1. PICK f \in Event : f = MyEvent /\ Copy(f)
    BY <1>0, <1>11, MyEventIs DEF Succeed
  <2>2. lock' = lock /\ waits[d] # <<>>
    BY <1>2, <1>11 DEF Succeed, vTaskPlaceOnEventList
  <2>3. CASE d = Other(f)
    <3>1. Available(d)' = Available(d) + 1 /\ d # MyEvent
      BY <1>0, <2>1, <2>3, CopyMoves
    <3>2. xTaskRemoveFromEventList(d)
      BY <1>11, <2>1, <2>2, <2>3 DEF Succeed
    <3> QED BY <1>1, <1>5, <1>6, <1>8, <2>2, <3>1, <3>2
  <2>4. CASE d = f
    <3>1. Available(d)' = Available(d) - 1
      BY <1>0, <2>1, <2>4, CopyMoves
    <3>2. Noted(d)' = Noted(d)
      BY <1>6, <2>2
    <3> QED BY <1>1, <1>3, <1>4, <2>2, <3>1, <3>2
  <2>5. CASE d # f /\ d # Other(f)
    <3>1. Available(d)' = Available(d)
      BY <1>0, <2>1, <2>5, CopyMoves
    <3> QED BY <1>1, <1>5, <1>6, <1>7, <2>1, <2>2, <2>5, <3>1
  <2> QED BY <2>3, <2>4, <2>5
<1>12. CASE Fail \/ Enter
  <2>1. UNCHANGED <<messages, lock>> /\ waits[d] # <<>> /\ ~Open(MyEvent)
    BY <1>2, <1>12 DEF Fail, Enter, vTaskPlaceOnEventList
  <2>2. CASE d = MyEvent
    <3>1. Available(d)' = 0
      BY <1>0, <1>1, <1>6, <2>1, <2>2, OpenIs
    <3> QED BY <1>1, <3>1
  <2>3. CASE d # MyEvent
    BY <1>1, <1>5, <1>6, <1>7, <2>1, <2>3
  <2> QED BY <2>2, <2>3
<1>13. CASE vTaskPlaceOnEventList
  <2>1. PICK e \in Event : e = MyEvent
    BY <1>0, <1>13, MyEventIs DEF vTaskPlaceOnEventList
  <2>2. UNCHANGED <<messages, lock>> /\ pc[current] = "place"
        /\ waits' = [waits EXCEPT ![e] = vListInsert(waits[e], current, EventValue)]
    BY <1>13, <2>1 DEF vTaskPlaceOnEventList
  <2>3. CASE d = e
    <3>1. Available(d) <= Noted(d)
      BY <1>0, <2>1, <2>2, <2>3 DEF Counted
    <3> QED BY <1>1, <1>6, <2>2, <3>1
  <2>4. CASE d # e
    <3>1. waits'[d] = waits[d]
      BY <1>0, <2>2, <2>4 DEF ListTypes
    <3>2. Lookers(d) \subseteq Lookers(d)'
      BY <1>5, <2>1, <2>4
    <3> QED BY <1>1, <1>6, <1>7, <2>2, <3>1, <3>2
  <2> QED BY <2>3, <2>4
<1>14. CASE UnlockTx \/ UnlockRx
  <2>1. PICK e \in Event : Unlock(e) /\ pc[current] \in {"unlockTx", "unlockRx"}
    <3>1. My.queue \in Queue
      BY <1>0, <1>14, MyEventIs DEF My, CallType, UnlockTx, UnlockRx
    <3> QED BY <1>14, <3>1 DEF UnlockTx, UnlockRx, Event, Side
  <2>2. lock' = [lock EXCEPT ![e] = -1] /\ messages' = messages
    BY <2>1 DEF Unlock
  <2>3. waits[d] # <<>> /\ Lookers(d) \subseteq Lookers(d)'
    BY <1>2, <1>5, <1>9, <2>1
  <2>4. CASE d = e
    <3>1. Noted(d) + m <= m1
      BY <1>0, <2>1, <2>3, <2>4, UnlockAdds
    <3> QED BY <1>1, <1>3, <1>6, <2>2, <2>3, <3>1
  <2>5. CASE d # e
    <3>1. lock'[d] = lock[d]
      BY <1>0, <2>2, <2>5 DEF QueueTypes
    <3> QED BY <1>1, <1>6, <1>7, <2>2, <2>3, <3>1
  <2> QED BY <2>4, <2>5
<1>15. CASE ~(\/ \E f \in IsrQueues \X Side : FromISR(f)
              \/ Succeed \/ Fail \/ Enter \/ vTaskPlaceOnEventList \/ UnlockTx \/ UnlockRx)
  <2>1. messages' = messages /\ lock'[d] >= lock[d]
    BY <1>15, QueuesKept
  <2> QED BY <1>1, <1>2, <1>5, <1>6, <1>7, <1>15, <2>1
<1> QED BY <1>10, <1>11, <1>12, <1>13, <1>14, <1>15

LEMMA WakeUpsNext ==
    ASSUME Control, Control', Lists, Lists', WakeUps, [Next]_vars PROVE WakeUps'
<1>1. CASE Next
  <2>1. Waiters'
    BY <1>1, WaitersNext DEF WakeUps
  <2>2. Locked'
    BY <1>1, LockedNext DEF WakeUps
  <2>3. pc'[current'] = "place" => Available(MyEvent)' <= Noted(MyEvent)'
    BY <1>1, PlaceNext DEF WakeUps
  <2>4. \A e \in Event :
           waits'[e] # <<>> => Available(e)' <= Noted(e)' + Cardinality(Lookers(e)')
    BY <1>1, EnoughNext
  <2>5. Counted'
    BY <2>3, <2>4 DEF Counted
  <2> QED BY <2>1, <2>2, <2>5 DEF WakeUps
<1>2. CASE UNCHANGED vars
  BY <1>2 DEF vars, listVars, delayVars, waitVars, timeVars, schedulerVars, interruptVars,
              queueVars, callVars, WakeUps, Waiters, Waits, Locked, Counted, Available, Noted,
              Lookers, Waiting, MyEvent, My
<1> QED BY <1>1, <1>2

LEMMA WakeUpsInit ==
    ASSUME Init PROVE WakeUps
<1>1. Range(<<>>) = {} /\ pc[current] = "run"
  BY DEF Init, Range
<1> QED BY <1>1 DEF Init, WakeUps, Waiters, Locked, Counted

LEMMA WakeUpsAlways == Spec => [](Control /\ Lists /\ WakeUps)
<1>1. Init => WakeUps
  BY WakeUpsInit
<1>2. Control /\ Control' /\ Lists /\ Lists' /\ WakeUps /\ [Next]_vars => WakeUps'
  BY WakeUpsNext
<1> QED BY <1>1, <1>2, ListsAlways, PTL DEF Spec

(* For all tasks, calls and interrupts, and every lock bound: while a task *)
(* waits for a queue that would serve it, the lock will hand it on, or a   *)
(* task that was woken is on its way to the queue.                         *)
THEOREM KernelNoLostWakeUp == Spec => []NoLostWakeUp
<1>1. Control /\ Lists /\ WakeUps => NoLostWakeUp
  <2> SUFFICES ASSUME Control, WakeUps, NEW e \in Event, waits[e] # <<>>, Open(e), ~(lock[e] > 0)
               PROVE  \E t \in Task : Looks(t, e)
    BY DEF NoLostWakeUp
  <2>1. Available(e) > 0 /\ Noted(e) = 0 /\ Available(e) \in Nat
    BY OpenIs DEF Control, Types, Noted
  <2>2. Available(e) <= Noted(e) + Cardinality(Lookers(e))
    BY DEF WakeUps, Counted
  <2>3. Cardinality(Lookers(e)) # 0
    BY <2>1, <2>2, LookersAre, Grown
  <2>4. PICK t : t \in Lookers(e)
    BY <2>3, FS_EmptySet
  <2>5. call[t].then # "fail" /\ pc[t] # "run"
    BY <2>4 DEF Lookers, Control, Stages, StageOf, Ending
  <2> QED BY <2>4, <2>5 DEF Lookers, Looks
<1> QED BY <1>1, WakeUpsAlways, PTL

----------------------------------------------------------------------------
(* Time.                                                                   *)
LEMMA Modulo ==
    ASSUME NEW x \in Int, x >= -Ticks, x < Ticks + Ticks
    PROVE  x % Ticks = IF x < 0 THEN x + Ticks ELSE IF x < Ticks THEN x ELSE x - Ticks
<1>0. Ticks \in Nat /\ Ticks > 1
  BY Constants
<1>1. CASE x < 0
  <2>1. x + Ticks \in 0..Ticks - 1 /\ x = (-1) * Ticks + (x + Ticks)
    BY <1>0, <1>1
  <2> QED BY <1>0, <1>1, <2>1
<1>2. CASE x >= 0 /\ x < Ticks
  BY <1>0, <1>2
<1>3. CASE x >= Ticks
  <2>1. x - Ticks \in 0..Ticks - 1 /\ x = 1 * Ticks + (x - Ticks)
    BY <1>0, <1>3
  <2> QED BY <1>0, <1>3, <2>1
<1> QED BY <1>0, <1>1, <1>2, <1>3

(* The counter after a tick, and the time between two of its values.       *)
LEMMA TickIs ==
    ASSUME NEW x \in Tick
    PROVE  (x + 1) % Ticks = IF x = Ticks - 1 THEN 0 ELSE x + 1
<1>1. x \in Int /\ 0 <= x /\ x < Ticks /\ Ticks \in Nat /\ Ticks > 1
  BY Constants DEF Tick
<1>2. (x + 1) % Ticks = IF x + 1 < Ticks THEN x + 1 ELSE x + 1 - Ticks
  BY <1>1, Modulo
<1> QED BY <1>1, <1>2

LEMMA BetweenIs ==
    ASSUME NEW x \in Tick, NEW y \in Tick
    PROVE  /\ (x - y) % Ticks = IF x >= y THEN x - y ELSE x - y + Ticks
           /\ (x - y) % Ticks \in Tick
           /\ (x + y) % Ticks = IF x + y < Ticks THEN x + y ELSE x + y - Ticks
           /\ (x + y) % Ticks \in Tick
<1>1. x \in Int /\ 0 <= x /\ x < Ticks /\ y \in Int /\ 0 <= y /\ y < Ticks /\ Ticks \in Nat
  BY Constants DEF Tick
<1>2. (x - y) % Ticks = IF x - y < 0 THEN x - y + Ticks ELSE x - y
  BY <1>1, Modulo
<1>3. (x + y) % Ticks = IF x + y < Ticks THEN x + y ELSE x + y - Ticks
  BY <1>1, Modulo
<1> QED BY <1>1, <1>2, <1>3 DEF Tick

LEMMA RemainingIs ==
    ASSUME NEW t \in Task, wake \in [Task -> Tick], tick \in Tick
    PROVE  /\ Remaining(t) = IF wake[t] >= tick THEN wake[t] - tick ELSE wake[t] - tick + Ticks
           /\ Remaining(t) \in Tick
<1>1. wake[t] \in Tick
  OBVIOUS
<1> QED BY <1>1, BetweenIs DEF Remaining

LEMMA RemainingThen ==
    ASSUME NEW t \in Task, wake' \in [Task -> Tick], tick' \in Tick
    PROVE  /\ Remaining(t)' = IF wake'[t] >= tick' THEN wake'[t] - tick'
                              ELSE wake'[t] - tick' + Ticks
           /\ Remaining(t)' \in Tick
<1>1. wake'[t] \in Tick
  OBVIOUS
<1> QED BY <1>1, BetweenIs DEF Remaining

(* The tick that is counted.                                               *)
LEMMA DelaysAdvance ==
    ASSUME ListTypes, tick \in Tick, StateLists, DelayLists, masked # "expire",
           NEW after, after # "expire", vTaskIncrementTick(after)
    PROVE  DelayLists'
<1>0. /\ Ticks \in Nat /\ Ticks > 1 /\ tick \in Int /\ 0 <= tick /\ tick < Ticks
      /\ next \in Int /\ \A t \in Task : wake[t] \in Int /\ 0 <= wake[t] /\ wake[t] < Ticks
      /\ Range(delayed) \subseteq Task /\ Range(overflow) \subseteq Task
      /\ wake \in [Task -> Int]
  BY Constants, RangeOfSeq DEF ListTypes, Tick
<1>1. /\ tick' = (IF tick = Ticks - 1 THEN 0 ELSE tick + 1) /\ wake' = wake
      /\ masked' = IF tick' >= next' THEN "expire" ELSE after
  BY TickIs DEF vTaskIncrementTick
<1>2. /\ \A t \in Range(delayed) : wake[t] > tick /\ wake[t] >= next
      /\ \A t \in Range(overflow) : wake[t] < tick
  BY DEF DelayLists
<1>3. CASE tick # Ticks - 1
  <2>1. tick' = tick + 1 /\ UNCHANGED <<delayed, overflow, next>>
    BY <1>0, <1>1, <1>3 DEF vTaskIncrementTick
  <2>2. \A t \in Range(overflow') : wake'[t] < tick'
    BY <1>0, <1>1, <1>2, <2>1
  <2>3. \A t \in Range(delayed') : wake'[t] >= tick'
    BY <1>0, <1>1, <1>2, <2>1
  <2>4. masked' # "expire" => \A t \in Range(delayed') : wake'[t] > tick' /\ wake'[t] >= next'
    BY <1>0, <1>1, <1>2, <2>1
  <2> QED BY <2>2, <2>3, <2>4 DEF DelayLists
<1>4. CASE tick = Ticks - 1
  <2>1. tick' = 0 /\ delayed' = overflow /\ overflow' = delayed /\ next' = NextWake(overflow)
    BY <1>1, <1>4 DEF vTaskIncrementTick
  <2>2. Range(overflow') = {}
    BY <1>0, <1>2, <1>4, <2>1
  <2>3. \A t \in Range(delayed') : wake'[t] >= tick' /\ wake'[t] >= next'
    <3> TAKE t \in Range(delayed')
    <3>1. overflow \in Seq(Task) /\ overflow # <<>> /\ t \in Range(overflow)
      BY <2>1, NotEmpty DEF ListTypes
    <3>2. wake[Head(overflow)] <= wake[t]
      BY <1>0, <3>1, HeadIsLeast DEF StateLists
    <3> QED BY <1>0, <1>1, <2>1, <3>1, <3>2 DEF NextWake
  <2>4. masked' # "expire" => next' > tick'
    <3>1. next' \in Tick
      BY <2>1, NextWakeType DEF ListTypes
    <3> QED BY <1>1, <2>1, <3>1 DEF Tick
  <2>5. masked' # "expire" => \A t \in Range(delayed') : wake'[t] > tick' /\ wake'[t] >= next'
    <3>1. \A t \in Range(delayed') : wake'[t] \in Int
      BY <1>0, <1>1, <2>1
    <3>2. next' \in Int
      BY <2>1, NextWakeType DEF ListTypes, Tick
    <3> QED BY <2>1, <2>3, <2>4, <3>1, <3>2
  <2> QED BY <2>2, <2>3, <2>5 DEF DelayLists
<1> QED BY <1>3, <1>4

LEMMA TimeAdvances ==
    ASSUME ListTypes, tick \in Tick, StateLists, DelayLists, masked # "expire",
           entry \in [Task -> EntryType], NEW after, vTaskIncrementTick(after),
           tick = Ticks - 1 => \A t \in Task : ~entry[t].wrapped
    PROVE  /\ \A t \in Task : t \in Timed' <=> t \in Timed
           /\ \A t \in Task : t \in Timed => Remaining(t) >= 1 /\ Remaining(t)' = Remaining(t) - 1
           /\ \A t \in Task :
                 /\ entry'[t].set = entry[t].set /\ entry'[t].tick = entry[t].tick
                 /\ entry'[t].wrapped = IF tick = Ticks - 1 THEN entry[t].set ELSE entry[t].wrapped
                 /\ entry[t].set => Elapsed(t)' = Elapsed(t) + 1
<1>0. /\ Ticks \in Nat /\ Ticks > 1 /\ tick \in Int /\ 0 <= tick /\ tick < Ticks
      /\ wake \in [Task -> Tick] /\ wake' = wake
      /\ \A t \in Task : wake[t] \in Int /\ 0 <= wake[t] /\ wake[t] < Ticks
  BY Constants DEF ListTypes, Tick, vTaskIncrementTick
<1>1. tick' = (IF tick = Ticks - 1 THEN 0 ELSE tick + 1) /\ tick' \in Tick
  BY <1>0, TickIs DEF vTaskIncrementTick, Tick
<1>2. \A t : t \in Timed' <=> t \in Timed
  <2>1. \/ delayed' = overflow /\ overflow' = delayed
        \/ UNCHANGED <<delayed, overflow>>
    BY DEF vTaskIncrementTick
  <2> QED BY <2>1 DEF Timed
<1>3. ASSUME NEW t \in Task, t \in Timed
      PROVE  Remaining(t) >= 1 /\ Remaining(t)' = Remaining(t) - 1
  <2>1. wake[t] # tick
    BY <1>0, <1>3 DEF Timed, DelayLists
  <2>2. Remaining(t) = IF wake[t] >= tick THEN wake[t] - tick ELSE wake[t] - tick + Ticks
    BY <1>0, RemainingIs
  <2>3. Remaining(t)' = IF wake[t] >= tick' THEN wake[t] - tick' ELSE wake[t] - tick' + Ticks
    BY <1>0, <1>1, RemainingThen
  <2> HIDE DEF Remaining
  <2>4. wake[t] \in Int /\ 0 <= wake[t] /\ wake[t] < Ticks
    BY <1>0
  <2> QED BY <1>0, <1>1, <2>1, <2>2, <2>3, <2>4
<1>4. ASSUME NEW t \in Task
      PROVE  /\ entry'[t].set = entry[t].set /\ entry'[t].tick = entry[t].tick
             /\ entry'[t].wrapped = IF tick = Ticks - 1 THEN entry[t].set ELSE entry[t].wrapped
             /\ entry[t].set => Elapsed(t)' = Elapsed(t) + 1
  <2>1. entry[t] \in EntryType /\ entry[t].tick \in Int
    BY DEF EntryType, Tick
  <2>2. CASE tick = Ticks - 1
    <3>1. entry'[t] = [entry[t] EXCEPT !.wrapped = entry[t].set]
      BY <1>1, <2>2 DEF vTaskIncrementTick
    <3>2. entry'[t].set = entry[t].set /\ entry'[t].tick = entry[t].tick
          /\ entry'[t].wrapped = entry[t].set
      BY <2>1, <3>1 DEF EntryType
    <3> QED BY <1>0, <1>1, <2>1, <2>2, <3>2 DEF Elapsed
  <2>3. CASE tick # Ticks - 1
    <3>1. entry' = entry
      BY <1>0, <1>1, <2>3 DEF vTaskIncrementTick
    <3> QED BY <1>0, <1>1, <2>1, <2>3, <3>1 DEF Elapsed
  <2> QED BY <2>2, <2>3
<1> QED BY <1>2, <1>3, <1>4

(* The steps that neither move the time nor put a task to sleep.           *)
Elsewhere == ~(SysTick \/ prvCheckDelayedTasks \/ ReplayTick \/ vTaskPlaceOnEventList \/ vTaskDelay)

LEMMA ClockStands ==
    ASSUME Control, Next, ~SysTick, ~ReplayTick
    PROVE  /\ UNCHANGED <<tick, missed, hooks>>
           /\ \A t \in Task : t # current => entry'[t] = entry[t] /\ left'[t] = left[t]
<1> USE DEF timeVars, callVars, vTaskSetTimeOutState, Forget, Return
<1>0. entry \in [Task -> EntryType] /\ left \in [Task -> Nat] /\ current \in Task /\ CallTypes
  BY DEF Control, Types, TimeTypes, SchedulerTypes
<1>1. CASE Interrupt
  BY <1>1 DEF Interrupt, prvCheckDelayedTasks, PendSV, FromISR
<1>2. CASE \/ Use \/ vTaskSuspendAll \/ prvLockQueue \/ Test
           \/ vTaskPlaceOnEventList \/ vTaskDelay \/ xTaskResumeAll \/ DrainPending
           \/ Yield \/ Back
  BY <1>0, <1>2 DEF Use, vTaskSuspendAll, prvLockQueue, Test, vTaskPlaceOnEventList, vTaskDelay,
       xTaskResumeAll, DrainPending, Yield, Back
<1>3. CASE Succeed \/ Fail \/ Enter \/ xTaskCheckForTimeOut
  BY <1>0, <1>3 DEF Succeed, Fail, Enter, xTaskCheckForTimeOut
<1>4. CASE UnlockTx \/ UnlockRx
  BY <1>4 DEF UnlockTx, UnlockRx, Unlock
<1>5. CASE Resumed
  <2>1. call[current].then \in {"fail", "retry", "wait", "sleep"}
    <3>1. pc[current] = "resume"
      BY <1>5 DEF Resumed, Control, Suspension
    <3> QED BY <1>0, <3>1 DEF Control, Stages, StageOf, Ending
  <2>2. /\ UNCHANGED <<entry, left>> \/ (Return /\ Forget)
        /\ UNCHANGED <<tick, missed, hooks>>
    BY <1>5, <2>1 DEF Resumed, Continue, My
  <2> QED BY <1>0, <2>2
<1> QED BY <1>1, <1>2, <1>3, <1>4, <1>5 DEF Next, Run, Resume

LEMMA DelaysStand ==
    ASSUME Control, Next, Elsewhere
    PROVE  /\ UNCHANGED <<wake, next>> /\ masked # "expire" /\ masked' # "expire"
           /\ Range(delayed') \subseteq Range(delayed) /\ Range(overflow') \subseteq Range(overflow)
<1> USE DEF listVars, delayVars, waitVars, interruptVars, At
<1>0. ListTypes /\ current \in Task /\ CallTypes /\ Stages
  BY DEF Control, Types, SchedulerTypes
<1>1. ASSUME UNCHANGED <<delayed, overflow>> \/ \E t : Unblock(t)
      PROVE  Range(delayed') \subseteq Range(delayed) /\ Range(overflow') \subseteq Range(overflow)
  BY <1>0, <1>1, Removed DEF Unblock, ListTypes
<1>2. CASE \E e \in IsrQueues \X Side : FromISR(e)
  <2>1. PICK e \in Event : FromISR(e)
    BY <1>2, QueueAssumption DEF Event
  <2>2. UNCHANGED <<wake, next>> /\ (UNCHANGED <<delayed, overflow>> \/ \E t : Unblock(t))
    BY <2>1 DEF FromISR, xTaskRemoveFromEventList
  <2> QED BY <1>1, <2>1, <2>2 DEF FromISR
<1>3. CASE Succeed
  <2>1. UNCHANGED <<wake, next>> /\ (UNCHANGED <<delayed, overflow>> \/ \E t : Unblock(t))
    BY <1>3 DEF Succeed, xTaskRemoveFromEventList
  <2> QED BY <1>1, <1>3, <2>1 DEF Succeed
<1>4. CASE DrainPending
  BY <1>1, <1>4 DEF DrainPending
<1>5. CASE PendSV
  BY <1>1, <1>5 DEF PendSV
<1>6. CASE \/ Use \/ Fail \/ Enter \/ vTaskSuspendAll \/ prvLockQueue \/ xTaskCheckForTimeOut
           \/ Test \/ xTaskResumeAll \/ Resumed \/ Yield \/ Back
  BY <1>1, <1>6 DEF Use, Fail, Enter, vTaskSuspendAll, prvLockQueue, xTaskCheckForTimeOut, Test,
       xTaskResumeAll, Resumed, Yield, Back
<1>7. CASE UnlockTx \/ UnlockRx
  BY <1>1, <1>7 DEF UnlockTx, UnlockRx, Unlock
<1> QED
  BY <1>2, <1>3, <1>4, <1>5, <1>6, <1>7 DEF Elsewhere, Next, Interrupt, Run, Resume

(* A task becomes ready because it waited, or because its time is over.    *)
Expires(t) == /\ prvCheckDelayedTasks /\ delayed # <<>> /\ t = Head(delayed) /\ wake[t] <= tick

LEMMA ReadyNext ==
    ASSUME Control, Lists, Next, NEW t \in Task, Ready(t)'
    PROVE  Ready(t) \/ t \in Held \/ Expires(t)
<1> USE DEF listVars, waitVars, delayVars, At
<1>0. /\ ListTypes /\ TimeTypes /\ current \in Task /\ CallTypes /\ Stages /\ StateLists /\ WaitLists
  BY DEF Control, Types, SchedulerTypes, Lists
<1>1. UNCHANGED ready => Ready(t)
  BY DEF Ready
<1>2. ASSUME NEW u \in Task, Unblock(u), UNCHANGED wake PROVE Ready(t) \/ t = u
  <2>1. CASE Ready(u)
    <3>1. Priority[u] \in Level /\ Priority[t] \in Level /\ ready \in [Level -> Seq(Task)]
      BY <1>0, Constants DEF ListTypes
    <3>2. ready' = [ready EXCEPT ![Priority[u]] = Append(ready[Priority[u]], u)]
      BY <1>2 DEF Unblock
    <3>3. Range(Append(ready[Priority[u]], u)) = Range(ready[Priority[u]]) \union {u}
      BY <3>1, Appended
    <3> QED BY <3>1, <3>2, <3>3 DEF Ready
  <2>2. CASE ~Ready(u)
    BY <1>0, <1>2, <2>2, UnblockSets
  <2> QED BY <2>1, <2>2
<1>3. ASSUME NEW e \in Event, waits[e] # <<>>, xTaskRemoveFromEventList(e)
      PROVE  Ready(t) \/ t \in Held
  <2>1. PICK u \in Task : u = Head(waits[e]) /\ u \in Range(waits[e])
    BY <1>0, <1>3, Behead DEF ListTypes
  <2>2. UNCHANGED ready \/ (Unblock(u) /\ UNCHANGED wake)
    BY <1>3, <2>1 DEF xTaskRemoveFromEventList
  <2> QED BY <1>1, <1>2, <2>1, <2>2, WaitingIs DEF Held
<1>4. CASE prvCheckDelayedTasks
  <2>1. CASE delayed # <<>> /\ wake[Head(delayed)] <= tick
    <3>1. PICK u \in Task : u = Head(delayed)
      BY <1>0, <2>1, Behead DEF ListTypes
    <3>2. Unblock(u) /\ UNCHANGED wake
      BY <1>4, <2>1, <3>1 DEF prvCheckDelayedTasks
    <3> QED BY <1>2, <1>4, <2>1, <3>1, <3>2 DEF Expires
  <2>2. CASE ~(delayed # <<>> /\ wake[Head(delayed)] <= tick)
    BY <1>1, <1>4, <2>2 DEF prvCheckDelayedTasks
  <2> QED BY <2>1, <2>2
<1>5. CASE \E e \in IsrQueues \X Side : FromISR(e)
  <2>1. PICK e \in Event : FromISR(e) /\ Other(e) \in Event
    BY <1>5, QueueAssumption DEF Event, Other, Side
  <2>2. UNCHANGED ready \/ (waits[Other(e)] # <<>> /\ xTaskRemoveFromEventList(Other(e)))
    BY <2>1 DEF FromISR
  <2> QED BY <1>1, <1>3, <2>1, <2>2
<1>6. CASE Succeed
  <2>1. PICK e \in Event : e = Other(MyEvent)
    BY <1>0, <1>6, MyEventIs DEF Succeed
  <2>2. UNCHANGED ready \/ (waits[e] # <<>> /\ xTaskRemoveFromEventList(e))
    BY <1>6, <2>1 DEF Succeed
  <2> QED BY <1>1, <1>3, <2>2
<1>7. CASE DrainPending
  <2>1. PICK u \in Task : u = Head(pending) /\ u \in Range(pending)
    BY <1>0, <1>7, Behead DEF DrainPending, ListTypes
  <2>2. Unblock(u) /\ UNCHANGED wake
    BY <1>7, <2>1 DEF DrainPending
  <2> QED BY <1>2, <2>1, <2>2 DEF Held
<1>8. CASE PendSV
  <2>1. CASE suspended
    BY <1>1, <1>8, <2>1 DEF PendSV
  <2>2. CASE ~suspended
    <3>1. \A p \in Level : Range(ready'[p]) = Range(ready[p])
      BY <1>0, <1>8, <2>2, SomeReady, TurnEffect DEF PendSV, Control
    <3> QED BY <3>1, Constants DEF Ready
  <2> QED BY <2>1, <2>2
<1>9. CASE vTaskPlaceOnEventList \/ vTaskDelay
  <2>1. PICK me \in Task : me = current /\ LeaveReady(me)
    BY <1>0, <1>9 DEF vTaskPlaceOnEventList, vTaskDelay
  <2> QED BY <1>0, <2>1, LeaveLists
<1>10. CASE SysTick \/ ReplayTick
  BY <1>1, <1>10 DEF SysTick, ReplayTick, vTaskIncrementTick
<1>11. CASE UnlockTx \/ UnlockRx
  BY <1>1, <1>11 DEF UnlockTx, UnlockRx, Unlock
<1>12. CASE \/ Use \/ Fail \/ Enter \/ vTaskSuspendAll \/ prvLockQueue \/ xTaskCheckForTimeOut
            \/ Test \/ xTaskResumeAll \/ Resumed \/ Yield \/ Back
  BY <1>1, <1>12 DEF Use, Fail, Enter, vTaskSuspendAll, prvLockQueue, xTaskCheckForTimeOut, Test,
       xTaskResumeAll, Resumed, Yield, Back
<1> QED
  BY <1>4, <1>5, <1>6, <1>7, <1>8, <1>9, <1>10, <1>11, <1>12 DEF Next, Interrupt, Run, Resume

LEMMA AddTimes ==
    ASSUME ListTypes, tick \in Tick, StateLists, DelayLists, masked # "expire", UNCHANGED tick,
           NEW t \in Task, t \notin Timed, NEW ticks \in Tick, ticks > 0,
           prvAddCurrentTaskToDelayedList(t, ticks)
    PROVE  /\ DelayLists' /\ Remaining(t)' = ticks
           /\ \A u \in Task : u # t => wake'[u] = wake[u] /\ (u \in Timed' => u \in Timed)
<1> DEFINE w == (tick + ticks) % Ticks
<1>0. /\ Ticks \in Nat /\ Ticks > 1 /\ tick \in Int /\ 0 <= tick /\ tick < Ticks
      /\ ticks \in Int /\ 0 < ticks /\ ticks < Ticks /\ next \in Int
      /\ \A u \in Task : wake[u] \in Int /\ 0 <= wake[u] /\ wake[u] < Ticks
      /\ Range(delayed) \subseteq Task /\ Range(overflow) \subseteq Task
      /\ delayed \in Seq(Task) /\ overflow \in Seq(Task)
  BY Constants, RangeOfSeq DEF ListTypes, Tick
<1>1. w = (IF tick + ticks < Ticks THEN tick + ticks ELSE tick + ticks - Ticks) /\ w \in Tick
  BY BetweenIs
<1>2. /\ wake' = [wake EXCEPT ![t] = w]
      /\ w < tick => overflow' = vListInsert(overflow, t, wake') /\ UNCHANGED <<delayed, next>>
      /\ ~(w < tick) => /\ delayed' = vListInsert(delayed, t, wake') /\ UNCHANGED overflow
                        /\ next' = IF w < next THEN w ELSE next
  BY DEF prvAddCurrentTaskToDelayedList
<1> HIDE DEF w
<1>3. wake' \in [Task -> Tick] /\ wake'[t] = w /\ \A u \in Task : u # t => wake'[u] = wake[u]
  BY <1>1, <1>2 DEF ListTypes
<1>4. wake' \in [Task -> Int] /\ w \in Int /\ 0 <= w /\ w < Ticks
  BY <1>0, <1>1, <1>3 DEF Tick
<1>5. /\ Range(vListInsert(overflow, t, wake')) = Range(overflow) \union {t}
      /\ Range(vListInsert(delayed, t, wake')) = Range(delayed) \union {t}
  BY <1>0, <1>4, Inserted
<1>6. /\ \A u \in Range(delayed) : u # t /\ wake[u] > tick /\ wake[u] >= next
      /\ \A u \in Range(overflow) : u # t /\ wake[u] < tick
  BY DEF DelayLists, Timed
<1>7. DelayLists'
  <2>1. CASE w < tick
    <3>1. /\ Range(overflow') = Range(overflow) \union {t}
          /\ delayed' = delayed /\ next' = next
      BY <1>2, <1>5, <2>1
    <3>2. \A u \in Range(overflow') : wake'[u] < tick
      BY <1>0, <1>3, <1>6, <2>1, <3>1
    <3>3. \A u \in Range(delayed') : wake'[u] > tick /\ wake'[u] >= next' /\ wake'[u] >= tick
      <4> TAKE u \in Range(delayed')
      <4>1. u \in Task /\ wake'[u] = wake[u] /\ wake[u] > tick /\ wake[u] >= next
        BY <1>0, <1>3, <1>6, <3>1
      <4> QED BY <1>0, <3>1, <4>1
    <3> QED BY <3>2, <3>3 DEF DelayLists
  <2>2. CASE ~(w < tick)
    <3>1. w > tick
      BY <1>0, <1>1, <2>2
    <3>0. Range(delayed') = Range(delayed) \union {t} /\ overflow' = overflow
      BY <1>2, <1>5, <2>2
    <3>p. next' = IF w < next THEN w ELSE next
      BY <1>2, <2>2
    <3>q. next' <= w /\ next' <= next /\ next' \in Int
      BY <1>0, <1>4, <3>p
    <3>2. /\ Range(delayed') = Range(delayed) \union {t} /\ overflow' = overflow
          /\ next' <= w /\ next' <= next /\ next' \in Int
      BY <3>0, <3>q
    <3>3. \A u \in Range(delayed') : wake'[u] > tick /\ wake'[u] >= next'
      <4> TAKE u \in Range(delayed')
      <4>1. CASE u = t
        BY <1>3, <1>4, <3>1, <3>2, <4>1
      <4>2. CASE u # t
        <5>1. u \in Range(delayed) /\ u \in Task /\ wake'[u] = wake[u]
          BY <1>0, <1>3, <3>2, <4>2
        <5>2. wake[u] > tick /\ wake[u] >= next /\ wake[u] \in Int
          BY <1>0, <1>6, <5>1
        <5> QED BY <1>0, <3>2, <5>1, <5>2
      <4> QED BY <4>1, <4>2
    <3>4. \A u \in Range(delayed') : wake'[u] \in Int
      BY <1>0, <1>4, <3>2
    <3>5. \A u \in Range(overflow') : wake'[u] < tick
      BY <1>0, <1>3, <1>6, <3>2
    <3>6. \A u \in Range(delayed') : wake'[u] >= tick
      BY <1>0, <3>3, <3>4
    <3> QED BY <3>3, <3>5, <3>6 DEF DelayLists
  <2> QED BY <2>1, <2>2
<1>8. Remaining(t)' = ticks
  <2>1. Remaining(t)' = IF w >= tick THEN w - tick ELSE w - tick + Ticks
    BY <1>3, RemainingThen
  <2> HIDE DEF Remaining
  <2> QED BY <1>0, <1>1, <2>1
<1>9. ASSUME NEW u \in Task, u # t, u \in Timed' PROVE u \in Timed
  <2>1. CASE w < tick
    <3>1. Range(overflow') = Range(overflow) \union {t} /\ delayed' = delayed
      BY <1>2, <1>5, <2>1
    <3> QED BY <1>9, <3>1 DEF Timed
  <2>2. CASE ~(w < tick)
    <3>1. Range(delayed') = Range(delayed) \union {t} /\ overflow' = overflow
      BY <1>2, <1>5, <2>2
    <3> QED BY <1>9, <3>1 DEF Timed
  <2> QED BY <2>1, <2>2
<1> QED BY <1>3, <1>7, <1>8, <1>9

(* The running task goes to sleep for what is left of its time.            *)
LEMMA FallsAsleep ==
    ASSUME Control, Lists, Next, NEW me \in Task, me = current,
           vTaskPlaceOnEventList \/ vTaskDelay
    PROVE  /\ call[me] \in CallType /\ call[me].ticks \in Tick /\ call[me].ticks > 0
           /\ Ready(me) /\ me \notin Timed /\ masked = "no" /\ suspended /\ UNCHANGED masked
           /\ ~Ready(me)' /\ UNCHANGED <<tick, missed, hooks, entry, left>>
           /\ \/ UNCHANGED <<delayed, overflow, wake, next>>
              \/ prvAddCurrentTaskToDelayedList(me, call[me].ticks)
           /\ vTaskDelay => prvAddCurrentTaskToDelayedList(me, call[me].ticks)
           /\ call[me].ticks = portMAX_DELAY /\ vTaskPlaceOnEventList
                 => UNCHANGED <<delayed, overflow, wake, next>>
<1> USE DEF At, My, timeVars, callVars, interruptVars
<1>0. /\ CallTypes /\ Stages /\ Suspension /\ ListTypes /\ StateLists
  BY DEF Control, Types, Lists
<1>1. pc[me] \in {"place", "delay"} /\ ~pendSV /\ masked = "no" /\ UNCHANGED masked /\ LeaveReady(me)
  BY DEF vTaskPlaceOnEventList, vTaskDelay
<1>2. call[me] \in CallType /\ call[me].ticks > 0
  BY <1>0, <1>1 DEF CallTypes, Stages, StageOf
<1>3. Ready(me) /\ suspended
  BY <1>0, <1>1, GoesOnReady DEF Ending, Suspension, Suspending
<1>4. me \notin Timed /\ ~Ready(me)'
  BY <1>0, <1>1, <1>3, LeaveLists DEF StateLists
<1>5. /\ UNCHANGED <<tick, missed, hooks, entry, left>>
      /\ \/ UNCHANGED <<delayed, overflow, wake, next>>
         \/ prvAddCurrentTaskToDelayedList(me, call[me].ticks)
      /\ vTaskDelay => prvAddCurrentTaskToDelayedList(me, call[me].ticks)
      /\ call[me].ticks = portMAX_DELAY /\ vTaskPlaceOnEventList
            => UNCHANGED <<delayed, overflow, wake, next>>
  BY DEF vTaskPlaceOnEventList, vTaskDelay
<1> QED BY <1>1, <1>2, <1>3, <1>4, <1>5 DEF CallType

LEMMA DelayListsNext ==
    ASSUME Control, Lists, DelayLists, Next PROVE DelayLists'
<1> USE DEF listVars, delayVars, timeVars
<1>0. /\ ListTypes /\ TimeTypes /\ tick \in Tick /\ SchedulerTypes /\ StateLists /\ Suspension
      /\ Range(delayed) \subseteq Task
  BY RangeOfSeq DEF Control, Types, TimeTypes, ListTypes, Lists
<1>1. CASE SysTick
  <2>1. CASE suspended
    BY <1>1, <2>1 DEF SysTick, DelayLists
  <2>2. CASE ~suspended
    BY <1>0, <1>1, <2>2, DelaysAdvance DEF SysTick
  <2> QED BY <2>1, <2>2
<1>2. CASE ReplayTick
  BY <1>0, <1>2, DelaysAdvance DEF ReplayTick
<1>3. CASE prvCheckDelayedTasks
  <2>1. UNCHANGED <<tick, wake>>
    BY <1>3 DEF prvCheckDelayedTasks
  <2>2. CASE delayed # <<>> /\ wake[Head(delayed)] <= tick
    <3>1. UNCHANGED <<next, masked>> /\ masked = "expire" /\ \E t : Unblock(t)
      BY <1>3, <2>2 DEF prvCheckDelayedTasks
    <3>2. Range(delayed') \subseteq Range(delayed) /\ Range(overflow') \subseteq Range(overflow)
      BY <1>0, <3>1, Removed DEF Unblock, ListTypes
    <3> QED BY <2>1, <3>1, <3>2 DEF DelayLists
  <2>3. CASE ~(delayed # <<>> /\ wake[Head(delayed)] <= tick)
    <3>1. UNCHANGED <<delayed, overflow>> /\ next' = NextWake(delayed)
      BY <1>3, <2>3 DEF prvCheckDelayedTasks
    <3>2. ASSUME NEW t \in Range(delayed) PROVE wake[t] > tick /\ wake[t] >= next'
      <4>1. delayed # <<>>
        BY <1>0, NotEmpty DEF ListTypes
      <4>2. Head(delayed) \in Task /\ wake \in [Task -> Int] /\ t \in Task
        BY <1>0, <4>1, Behead DEF ListTypes, Tick
      <4>3. wake[Head(delayed)] <= wake[t]
        BY <1>0, <4>1, <4>2, HeadIsLeast DEF StateLists, ListTypes
      <4>4. wake[Head(delayed)] \in Int /\ wake[t] \in Int /\ tick \in Int
        BY <1>0, <4>2 DEF Tick
      <4>5. wake[Head(delayed)] > tick /\ next' = wake[Head(delayed)]
        BY <2>3, <3>1, <4>1, <4>4 DEF NextWake
      <4> QED BY <4>3, <4>4, <4>5
    <3> QED BY <2>1, <3>1, <3>2 DEF DelayLists
  <2> QED BY <2>2, <2>3
<1>4. CASE vTaskPlaceOnEventList \/ vTaskDelay
  <2>1. PICK me \in Task : me = current
    BY <1>0 DEF SchedulerTypes
  <2>2. /\ call[me].ticks \in Tick /\ call[me].ticks > 0 /\ me \notin Timed /\ masked = "no"
        /\ UNCHANGED <<tick, masked>>
        /\ \/ UNCHANGED <<delayed, overflow, wake, next>>
           \/ prvAddCurrentTaskToDelayedList(me, call[me].ticks)
    BY <1>4, <2>1, FallsAsleep
  <2>3. CASE UNCHANGED <<delayed, overflow, wake, next>>
    BY <2>2, <2>3 DEF DelayLists
  <2>4. CASE prvAddCurrentTaskToDelayedList(me, call[me].ticks)
    BY <1>0, <2>2, <2>4, AddTimes
  <2> QED BY <2>2, <2>3, <2>4
<1>5. CASE Elsewhere
  <2>1. UNCHANGED tick
    BY <1>5, ClockStands DEF Elsewhere
  <2> QED BY <1>5, <2>1, DelaysStand DEF DelayLists
<1> QED BY <1>1, <1>2, <1>3, <1>4, <1>5 DEF Elsewhere

LEMMA HooksNext ==
    ASSUME Control, Lists, Hooks, Next PROVE Hooks'
<1>0. /\ tick \in Tick /\ missed \in Nat /\ missed < Ticks /\ Ticks \in Nat /\ Ticks > 1
      /\ missed \in Tick /\ tick \in Nat /\ tick < Ticks
  BY Constants DEF Control, Types, TimeTypes, Tick
<1>1. hooks = IF tick + missed < Ticks THEN tick + missed ELSE tick + missed - Ticks
  BY <1>0, BetweenIs DEF Hooks
<1>2. hooks \in Tick
  BY DEF Control, Types, TimeTypes
<1>3. CASE SysTick
  <2>1. hooks' = IF hooks = Ticks - 1 THEN 0 ELSE hooks + 1
    <3>1. hooks' = (hooks + 1) % Ticks
      <4>1. CASE suspended
        BY <1>3, <4>1 DEF SysTick, TickHook
      <4>2. CASE ~suspended
        <5>1. missed = 0
          BY <4>2 DEF Lists, Caught
        <5> QED BY <1>3, <4>2, <5>1
              DEF SysTick, vTaskIncrementTick, HookUnlessMissed, TickHook
      <4> QED BY <4>1, <4>2
    <3> QED BY <1>2, <3>1, TickIs
  <2>2. CASE suspended
    <3>1. tick' = tick /\ missed' = missed + 1 /\ missed < MaxMissed
      BY <1>3, <2>2 DEF SysTick
    <3>2. missed' \in Tick
      BY <1>0, <3>1, Constants DEF Tick
    <3>3. (tick' + missed') % Ticks = IF tick' + missed' < Ticks THEN tick' + missed'
                                      ELSE tick' + missed' - Ticks
      BY <1>0, <3>1, <3>2, BetweenIs
    <3>4. (tick' + missed') % Ticks = hooks'
      BY <1>0, <1>1, <2>1, <3>1, <3>3
    <3> QED BY <3>4 DEF Hooks
  <2>3. CASE ~suspended
    <3>1. missed = 0 /\ missed' = missed
      BY <1>3, <2>3 DEF SysTick, Lists, Caught
    <3>2. tick' = IF tick = Ticks - 1 THEN 0 ELSE tick + 1
      BY <1>0, <1>3, <2>3, TickIs DEF SysTick, vTaskIncrementTick
    <3>3. tick' \in Tick /\ missed' \in Tick
      BY <1>0, <3>1, <3>2 DEF Tick
    <3>4. (tick' + missed') % Ticks = IF tick' + missed' < Ticks THEN tick' + missed'
                                      ELSE tick' + missed' - Ticks
      BY <3>3, BetweenIs
    <3>5. (tick' + missed') % Ticks = hooks'
      BY <1>0, <1>1, <2>1, <3>1, <3>2, <3>4
    <3> QED BY <3>5 DEF Hooks
  <2> QED BY <2>2, <2>3
<1>4. CASE ReplayTick
  <2>1. missed > 0 /\ missed' = missed - 1 /\ hooks' = hooks
    BY <1>4 DEF ReplayTick, vTaskIncrementTick, HookUnlessMissed
  <2>2. tick' = IF tick = Ticks - 1 THEN 0 ELSE tick + 1
    BY <1>0, <1>4, TickIs DEF ReplayTick, vTaskIncrementTick
  <2>3. tick' \in Tick /\ missed' \in Tick
    BY <1>0, <2>1, <2>2 DEF Tick
  <2>4. (tick' + missed') % Ticks = IF tick' + missed' < Ticks THEN tick' + missed'
                                    ELSE tick' + missed' - Ticks
    BY <2>3, BetweenIs
  <2>5. (tick' + missed') % Ticks = hooks'
    BY <1>0, <1>1, <2>1, <2>2, <2>4
  <2> QED BY <2>5 DEF Hooks
<1>5. CASE ~SysTick /\ ~ReplayTick
  BY <1>5, ClockStands DEF Hooks
<1> QED BY <1>3, <1>4, <1>5

(* A tick that is counted, at once or late.                                *)
LEMMA TickCounted ==
    ASSUME Control, Lists, Entries, ReplayTick \/ (SysTick /\ ~suspended)
    PROVE  /\ masked # "expire"
           /\ \A t \in Task : pc[t] \notin {"test", "place", "delay"}
           /\ tick = Ticks - 1 => \A t \in Task : ~entry[t].wrapped
           /\ \E after : vTaskIncrementTick(after)
           /\ \/ missed = 0 /\ missed' = 0 /\ left' = CountDown
              \/ missed > 0 /\ missed' = missed - 1 /\ left' = left
<1>0. tick \in Int /\ missed \in Nat /\ Ticks \in Nat
  BY Constants DEF Control, Types, TimeTypes, Tick
<1>1. CASE ReplayTick
  <2>1. masked = "drain" /\ missed > 0 /\ missed' = missed - 1 /\ left' = left
    BY <1>1 DEF ReplayTick, callVars
  <2>2. pc[current] = "resume" /\ \A t \in Task : t # current => pc[t] \notin Suspending
    BY <2>1 DEF Control, Suspension
  <2>3. ASSUME tick = Ticks - 1, NEW t \in Task PROVE ~entry[t].wrapped
    BY <1>0, <2>1, <2>3 DEF Entries, EntryOf
  <2> QED BY <1>1, <2>1, <2>2, <2>3 DEF ReplayTick, Suspending
<1>2. CASE SysTick /\ ~suspended
  <2>1. masked = "no" /\ missed = 0 /\ missed' = missed /\ left' = CountDown
    BY <1>2 DEF SysTick, Lists, Caught
  <2>2. \A t \in Task : pc[t] \notin Suspending
    BY <1>2 DEF Control, Suspension
  <2>3. ASSUME tick = Ticks - 1, NEW t \in Task PROVE ~entry[t].wrapped
    BY <1>0, <1>2, <2>1, <2>3 DEF SysTick, InTime, RoundEnds
  <2> QED BY <1>2, <2>1, <2>2, <2>3 DEF SysTick, Suspending
<1> QED BY <1>1, <1>2

(* The counts of the calls, by a tick that is noted or counted.            *)
LEMMA EntriesTick ==
    ASSUME Control, Lists, DelayLists, Entries, SysTick \/ ReplayTick PROVE Entries'
<1> SUFFICES ASSUME NEW t \in Task PROVE EntryOf(t)'
  BY DEF Entries
<1>0. /\ ListTypes /\ tick \in Tick /\ StateLists /\ entry \in [Task -> EntryType]
      /\ Ticks \in Nat /\ Ticks > 1 /\ tick \in Int /\ 0 <= tick /\ tick < Ticks
      /\ missed \in Nat /\ missed < Ticks /\ left[t] \in Nat
      /\ entry[t].tick \in Int /\ entry[t].set \in BOOLEAN /\ entry[t].wrapped \in BOOLEAN
  BY Constants DEF Control, Types, TimeTypes, Lists, EntryType, Tick
<1>1. EntryOf(t)
  BY DEF Entries
<1>2. UNCHANGED <<pc, call>>
  BY DEF SysTick, ReplayTick, callVars
<1>3. call[t].kind \in Side => call[t].ticks \in Int
  BY Constants DEF Control, Types, CallTypes, CallType, Side, Tick
<1>4. Elapsed(t) \in Int
  BY <1>0 DEF Elapsed
<1>5. CASE SysTick /\ suspended
  <2>1. tick' = tick /\ entry' = entry /\ missed' = missed + 1 /\ left' = CountDown
        /\ (entry[t].wrapped => tick + missed # Ticks - 1)
    BY <1>5 DEF SysTick, InTime, RoundEnds
  <2>2. left'[t] = IF left[t] > 0 THEN left[t] - 1 ELSE 0
    BY <2>1 DEF CountDown
  <2>3. Elapsed(t)' = Elapsed(t)
    BY <2>1 DEF Elapsed
  <2>4. ASSUME entry[t].set PROVE left'[t] = Off(call[t].ticks - Elapsed(t))'
    <3>1. call[t].ticks - Elapsed(t) \in Int /\ left[t] = Off(call[t].ticks - Elapsed(t))
      BY <1>1, <1>3, <1>4, <2>4 DEF EntryOf
    <3>2. left[t] = IF call[t].ticks - Elapsed(t) > missed THEN call[t].ticks - Elapsed(t) - missed ELSE 0
      BY <3>1 DEF Off
    <3>3. Off(call[t].ticks - Elapsed(t))' =
            IF call[t].ticks - Elapsed(t) > missed + 1 THEN call[t].ticks - Elapsed(t) - (missed + 1) ELSE 0
      BY <1>2, <2>1, <2>3 DEF Off
    <3> QED BY <1>0, <2>2, <3>1, <3>2, <3>3
  <2>5. entry'[t].wrapped => tick' + missed' < Ticks
    BY <1>0, <1>1, <2>1 DEF EntryOf
  <2> QED BY <1>1, <1>2, <2>1, <2>3, <2>4, <2>5 DEF EntryOf
<1>6. CASE ReplayTick \/ (SysTick /\ ~suspended)
  <2>1. /\ masked # "expire" /\ pc[t] \notin {"test", "place"}
        /\ tick = Ticks - 1 => \A u \in Task : ~entry[u].wrapped
        /\ \E after : vTaskIncrementTick(after)
        /\ \/ missed = 0 /\ missed' = 0 /\ left'[t] = IF left[t] > 0 THEN left[t] - 1 ELSE 0
           \/ missed > 0 /\ missed' = missed - 1 /\ left'[t] = left[t]
    BY <1>6, TickCounted DEF CountDown
  <2>2. PICK after : vTaskIncrementTick(after)
    BY <2>1
  <2>3. /\ entry'[t].set = entry[t].set
        /\ entry'[t].wrapped = IF tick = Ticks - 1 THEN entry[t].set ELSE entry[t].wrapped
        /\ entry[t].set => Elapsed(t)' = Elapsed(t) + 1
    BY <1>0, <2>1, <2>2, TimeAdvances
  <2>4. tick' = IF tick = Ticks - 1 THEN 0 ELSE tick + 1
    BY <1>0, <2>2, TickIs DEF vTaskIncrementTick
  <2>5. entry'[t].wrapped => entry'[t].set /\ tick' + missed' < Ticks
    <3>1. entry[t].wrapped => entry[t].set /\ tick + missed < Ticks
      BY <1>1 DEF EntryOf
    <3> QED BY <1>0, <2>1, <2>3, <2>4, <3>1
  <2>6. ASSUME entry[t].set
        PROVE  Elapsed(t)' >= 0 /\ left'[t] = Off(call[t].ticks - Elapsed(t))'
    <3> DEFINE n == call[t].ticks - Elapsed(t)
    <3>1. call[t].ticks \in Int /\ left[t] = Off(n) /\ Elapsed(t) >= 0
      BY <1>1, <1>3, <2>6 DEF EntryOf
    <3>2. n \in Int /\ call[t].ticks - (Elapsed(t) + 1) = n - 1
      BY <1>4, <3>1
    <3>3. Off(n)' = IF n - 1 > missed' THEN n - 1 - missed' ELSE 0
      BY <1>2, <2>3, <2>6, <3>2 DEF Off
    <3>4. left[t] = IF n > missed THEN n - missed ELSE 0
      BY <3>1 DEF Off
    <3>5. left'[t] = IF n - 1 > missed' THEN n - 1 - missed' ELSE 0
      <4> HIDE DEF n
      <4> QED BY <1>0, <2>1, <3>2, <3>4
    <3> QED BY <1>4, <2>3, <2>6, <3>1, <3>3, <3>5
  <2> QED BY <1>1, <1>2, <2>1, <2>3, <2>5, <2>6 DEF EntryOf
<1> QED BY <1>5, <1>6

(* ... and by the other steps.  A count that is left alone stays right; a  *)
(* call that begins a count, or takes it off its time, does it right.      *)
LEMMA EntryKept ==
    ASSUME NEW t \in Task, EntryOf(t), UNCHANGED <<tick, missed>>,
           entry'[t] = entry[t], left'[t] = left[t],
           call'[t].kind = call[t].kind, call'[t].ticks = call[t].ticks,
           pc[t] = "try" => pc'[t] = "try" \/ entry[t].set \/ call[t].ticks = portMAX_DELAY,
           pc'[t] \in {"test", "place"} => pc[t] \in {"test", "place"} \/ ~entry[t].set
    PROVE  EntryOf(t)'
<1>1. Elapsed(t)' = Elapsed(t)
  BY DEF Elapsed
<1>2. Off(call[t].ticks - Elapsed(t))' = Off(call[t].ticks - Elapsed(t))
  BY <1>1 DEF Off
<1> QED BY <1>1, <1>2 DEF EntryOf

LEMMA NoEntryIs ==
    ASSUME NEW t \in Task, ~entry'[t].set, ~entry'[t].wrapped,
           call'[t].kind \in Side => call'[t].ticks = portMAX_DELAY \/ pc'[t] = "try"
    PROVE  EntryOf(t)'
BY DEF EntryOf

LEMMA EntryBegins ==
    ASSUME NEW t \in Task, tick \in Tick, missed \in Nat, UNCHANGED <<tick, missed>>,
           entry'[t] = [set |-> TRUE, tick |-> tick, wrapped |-> FALSE],
           call'[t].kind \in Side, call'[t].ticks \in Int, call'[t].ticks # portMAX_DELAY,
           left'[t] = Off(call'[t].ticks)
    PROVE  EntryOf(t)'
<1>1. Elapsed(t)' = 0
  BY DEF Elapsed, Tick
<1>2. call'[t].ticks - Elapsed(t)' = call'[t].ticks
  BY <1>1
<1>3. Off(call[t].ticks - Elapsed(t))' = Off(call'[t].ticks)
  BY <1>2 DEF Off
<1>4. entry'[t].set /\ ~entry'[t].wrapped
  OBVIOUS
<1>5. Elapsed(t)' >= 0
  BY <1>1
<1> QED BY <1>1, <1>3, <1>4, <1>5 DEF EntryOf

(* What has passed, as xTaskCheckForTimeOut finds it.                      *)
LEMMA PassedIs ==
    ASSUME Control, NEW me \in Task, me = current, EntryOf(me), entry[me].set, ~TimedOut
    PROVE  /\ Passed = Elapsed(me) /\ Passed \in Tick /\ Passed < call[me].ticks
           /\ call[me].ticks \in Tick /\ call[me].ticks # portMAX_DELAY
<1>0. /\ tick \in Tick /\ entry[me].tick \in Tick /\ entry[me].wrapped \in BOOLEAN
      /\ tick \in Int /\ 0 <= tick /\ tick < Ticks /\ Ticks \in Nat
      /\ entry[me].tick \in Int /\ 0 <= entry[me].tick /\ entry[me].tick < Ticks
  BY Constants DEF Control, Types, TimeTypes, EntryType, Tick
<1>1. call[me].kind \in Side /\ call[me].ticks # portMAX_DELAY /\ Elapsed(me) >= 0
  BY DEF EntryOf
<1>2. call[me].ticks \in Tick
  BY <1>1, Constants DEF Control, Types, CallTypes, CallType, Side
<1>3. /\ ~(entry[me].wrapped /\ tick >= entry[me].tick)
      /\ ~(Passed >= call[me].ticks)
  BY <1>1 DEF TimedOut, My
<1>4. /\ Passed = IF tick >= entry[me].tick THEN tick - entry[me].tick
                  ELSE tick - entry[me].tick + Ticks
      /\ Passed \in Tick
  BY <1>0, BetweenIs DEF Passed
<1>5. Elapsed(me) = tick - entry[me].tick + (IF entry[me].wrapped THEN Ticks ELSE 0)
  BY DEF Elapsed
<1> HIDE DEF Passed, Elapsed
<1>6. Passed = Elapsed(me)
  BY <1>0, <1>1, <1>3, <1>4, <1>5
<1>7. Passed \in Int /\ call[me].ticks \in Int
  BY <1>2, <1>4 DEF Tick
<1> QED BY <1>1, <1>2, <1>3, <1>4, <1>6, <1>7

LEMMA CheckEntry ==
    ASSUME Control, NEW me \in Task, me = current, EntryOf(me), xTaskCheckForTimeOut
    PROVE  EntryOf(me)'
<1> USE DEF At, My, timeVars, callVars, Then, Goto
<1>0. CallTypes /\ tick \in Tick /\ missed \in Nat /\ entry \in [Task -> EntryType]
  BY Constants DEF Control, Types, TimeTypes
<1>1. /\ pc[me] = "check" /\ UNCHANGED <<tick, missed, left>>
      /\ call[me] \in CallType /\ call[me].kind \in Side
  BY <1>0, MyEventIs DEF xTaskCheckForTimeOut, Control, Types, SchedulerTypes
<1>2. CASE TimedOut
  <2>1. /\ entry' = entry /\ pc' = [pc EXCEPT ![me] = "unlockTx"]
        /\ call' = [call EXCEPT ![me].then = "fail"]
    BY <1>2 DEF xTaskCheckForTimeOut
  <2>2. call'[me].kind = call[me].kind /\ call'[me].ticks = call[me].ticks
    BY <1>0, <1>1, <2>1 DEF CallType, CallTypes
  <2>3. pc'[me] = "unlockTx"
    BY <1>0, <2>1 DEF CallTypes
  <2> QED BY <1>1, <2>1, <2>2, <2>3, EntryKept
<1>3. CASE ~TimedOut /\ call[me].ticks = portMAX_DELAY
  <2>1. entry' = entry /\ pc' = [pc EXCEPT ![me] = "test"] /\ call' = call
    BY <1>3 DEF xTaskCheckForTimeOut
  <2>2. ~entry[me].set
    BY <1>3 DEF EntryOf
  <2> QED BY <1>1, <2>1, <2>2, EntryKept
<1>4. CASE ~TimedOut /\ call[me].ticks # portMAX_DELAY
  <2>1. entry[me].set
    BY <1>1, <1>4 DEF EntryOf
  <2>2. /\ Passed = Elapsed(me) /\ Passed \in Tick /\ Passed < call[me].ticks
        /\ call[me].ticks \in Tick
    BY <1>4, <2>1, PassedIs
  <2>3. /\ call' = [call EXCEPT ![me].ticks = call[me].ticks - Passed]
        /\ entry' = [entry EXCEPT ![me] = [set |-> TRUE, tick |-> tick, wrapped |-> FALSE]]
    BY <1>4 DEF xTaskCheckForTimeOut, vTaskSetTimeOutState
  <2> HIDE DEF Passed
  <2>4. call'[me].kind = call[me].kind /\ call'[me].ticks = call[me].ticks - Passed
    BY <1>0, <1>1, <2>3 DEF CallType, CallTypes
  <2>5. call[me].ticks - Passed \in Int /\ call[me].ticks - Passed # portMAX_DELAY
    <3>1. Ticks \in Nat /\ Passed \in Int /\ 0 <= Passed /\ call[me].ticks \in Int
          /\ call[me].ticks < Ticks
      BY <2>2, Constants DEF Tick
    <3> QED BY <1>4, <3>1 DEF portMAX_DELAY
  <2>6. left'[me] = Off(call'[me].ticks)
    <3>1. left[me] = Off(call[me].ticks - Elapsed(me))
      BY <2>1 DEF EntryOf
    <3> QED BY <1>1, <2>2, <2>4, <3>1
  <2>7. entry'[me] = [set |-> TRUE, tick |-> tick, wrapped |-> FALSE]
    BY <1>0, <2>3
  <2> QED BY <1>0, <1>1, <2>4, <2>5, <2>6, <2>7, EntryBegins
<1> QED BY <1>2, <1>3, <1>4

LEMMA UnlockCall ==
    ASSUME UnlockTx \/ UnlockRx
    PROVE  /\ UNCHANGED <<call, left, entry>> /\ pc[current] \in {"unlockTx", "unlockRx"}
           /\ \E s \in {"unlockRx", "resume"} : pc' = [pc EXCEPT ![current] = s]
<1>1. (\E e : Unlock(e)) /\ UNCHANGED <<call, left, entry>>
  BY DEF UnlockTx, UnlockRx, Unlock, timeVars
<1>2. /\ pc[current] \in {"unlockTx", "unlockRx"}
      /\ \E s \in {"unlockRx", "resume"} : pc' = [pc EXCEPT ![current] = s]
  BY DEF UnlockTx, UnlockRx, At, Goto
<1> QED BY <1>1, <1>2

LEMMA EntriesNext ==
    ASSUME Control, Lists, DelayLists, Entries, Next PROVE Entries'
<1> USE DEF At, My, timeVars, callVars, Goto
<1>1. CASE SysTick \/ ReplayTick
  BY <1>1, EntriesTick
<1>2. CASE ~SysTick /\ ~ReplayTick
  <2> SUFFICES ASSUME NEW t \in Task PROVE EntryOf(t)'
    BY DEF Entries
  <2>0. /\ CallTypes /\ Stages /\ Suspension /\ entry \in [Task -> EntryType] /\ left \in [Task -> Nat]
        /\ tick \in Tick /\ missed \in Nat /\ UNCHANGED <<tick, missed>> /\ EntryOf(t)
    BY <1>2, ClockStands, Constants DEF Control, Types, TimeTypes, Entries
  <2>1. CASE t # current
    <3>1. /\ pc'[t] = pc[t] /\ call'[t] = call[t] /\ entry'[t] = entry[t] /\ left'[t] = left[t]
      BY <1>2, <2>1, ClockStands, OthersStay
    <3> QED BY <2>0, <3>1, EntryKept
  <2>2. CASE t = current
    <3>1. CASE \/ Interrupt \/ xTaskResumeAll \/ DrainPending
      <4>1. UNCHANGED <<pc, call, entry, left>>
        BY <1>2, <3>1 DEF Interrupt, prvCheckDelayedTasks, PendSV, FromISR, xTaskResumeAll,
                          DrainPending
      <4> QED BY <2>0, <4>1, EntryKept
    <3>2. CASE Use
      <4>1. call[t] = NoCall /\ ~entry[t].set /\ ~entry[t].wrapped
        BY <2>0, <2>2, <3>2, Constants DEF Use, Stages, StageOf, EntryOf, Side
      <4>2. PICK c \in Calls[t] : /\ call' = [call EXCEPT ![t] = c]
                                  /\ pc' = [pc EXCEPT ![t] = IF c.kind = "delay" THEN "suspend" ELSE "try"]
        BY <2>2, <3>2 DEF Use
      <4>3. call'[t].kind \in Side => pc'[t] = "try"
        BY <2>0, <4>2 DEF CallTypes, Side
      <4> QED BY <3>2, <4>1, <4>3, NoEntryIs DEF Use
    <3>3. CASE Succeed \/ Fail
      <4>1. entry' = [entry EXCEPT ![t] = NoEntry] /\ call' = [call EXCEPT ![t] = NoCall]
        BY <2>2, <3>3 DEF Succeed, Fail, Forget, Return
      <4>2. entry'[t] = NoEntry /\ call'[t] = NoCall
        BY <2>0, <4>1 DEF CallTypes
      <4> QED BY <4>2, NoEntryIs, Constants DEF NoEntry, Side
    <3>4. CASE Enter
      <4>1. pc[t] = "try" /\ pc' = [pc EXCEPT ![t] = "suspend"] /\ call' = call /\ call[t].ticks # 0
            /\ call[t] \in CallType /\ call[t].kind \in Side
        BY <2>0, <2>2, <3>4, MyEventIs DEF Enter
      <4>2. CASE entry[t].set \/ call[t].ticks = portMAX_DELAY
        <5>1. entry' = entry /\ left' = left
          BY <2>2, <3>4, <4>2 DEF Enter
        <5>2. pc'[t] = "suspend"
          BY <2>0, <4>1 DEF CallTypes
        <5> QED BY <2>0, <4>1, <4>2, <5>1, <5>2, EntryKept
      <4>3. CASE ~(entry[t].set \/ call[t].ticks = portMAX_DELAY)
        <5>1. /\ entry'[t] = [set |-> TRUE, tick |-> tick, wrapped |-> FALSE]
              /\ left'[t] = call[t].ticks
          BY <2>0, <2>2, <3>4, <4>3 DEF Enter, vTaskSetTimeOutState
        <5>2. missed = 0
          BY <2>0, <2>2, <4>1 DEF Suspension, Suspending, Lists, Caught
        <5>3. call[t].ticks \in Int /\ call[t].ticks > 0
          BY <4>1, Constants DEF CallType, Tick
        <5>4. left'[t] = Off(call'[t].ticks)
          BY <4>1, <5>1, <5>2, <5>3 DEF Off
        <5> QED BY <2>0, <4>1, <4>3, <5>1, <5>3, <5>4, EntryBegins
      <4> QED BY <4>2, <4>3
    <3>5. CASE vTaskSuspendAll
      <4>1. entry' = entry /\ call' = call /\ pc[t] = "suspend"
        BY <2>2, <3>5 DEF vTaskSuspendAll
      <4>2. CASE call[t].kind = "delay"
        <5>1. ~entry[t].set /\ ~entry[t].wrapped
          BY <2>0, <4>2 DEF EntryOf, Side
        <5> QED BY <4>1, <4>2, <5>1, NoEntryIs DEF Side
      <4>3. CASE call[t].kind # "delay"
        <5>1. left' = left /\ pc'[t] = "lock"
          BY <2>0, <2>2, <3>5, <4>3 DEF vTaskSuspendAll, CallTypes
        <5> QED BY <2>0, <4>1, <5>1, EntryKept
      <4> QED BY <4>2, <4>3
    <3>6. CASE xTaskCheckForTimeOut
      BY <2>0, <2>2, <3>6, CheckEntry
    <3>7. CASE prvLockQueue \/ vTaskPlaceOnEventList \/ UnlockTx \/ UnlockRx \/ Yield
      <4>1. CASE prvLockQueue \/ vTaskPlaceOnEventList \/ Yield
        <5>1. /\ entry' = entry /\ call' = call /\ left' = left /\ pc[t] # "try"
              /\ pc'[t] \in {"check", "unlockTx", "back"}
          BY <2>0, <2>2, <4>1 DEF prvLockQueue, vTaskPlaceOnEventList, Yield, CallTypes
        <5> QED BY <2>0, <5>1, EntryKept
      <4>2. CASE UnlockTx \/ UnlockRx
        <5>1. /\ entry' = entry /\ call' = call /\ left' = left
              /\ pc[t] # "try" /\ \E s \in {"unlockRx", "resume"} : pc' = [pc EXCEPT ![t] = s]
          BY <2>2, <4>2, UnlockCall
        <5>2. pc'[t] \in {"unlockRx", "resume"}
          BY <2>0, <5>1 DEF CallTypes
        <5> QED BY <2>0, <5>1, <5>2, EntryKept
      <4> QED BY <3>7, <4>1, <4>2
    <3>8. CASE Test \/ vTaskDelay
      <4>1. /\ entry' = entry /\ left' = left /\ pc[t] # "try"
            /\ \E then : call' = [call EXCEPT ![t].then = then]
            /\ pc'[t] \in {"test", "place"} => pc[t] \in {"test", "place"}
        BY <2>0, <2>2, <3>8 DEF Test, vTaskDelay, Then, CallTypes
      <4>2. call[t] \in CallType
        BY <2>0, <2>2, <3>8 DEF Test, vTaskDelay, CallTypes, Stages, StageOf
      <4>3. call'[t].kind = call[t].kind /\ call'[t].ticks = call[t].ticks
        BY <2>0, <4>1, <4>2 DEF CallType, CallTypes
      <4> QED BY <2>0, <4>1, <4>3, EntryKept
    <3>9. CASE Resumed
      <4>1. pc[t] = "resume" /\ call[t].then \in {"fail", "retry", "wait", "sleep"}
        <5>1. pc[t] = "resume"
          BY <2>0, <2>2, <3>9 DEF Resumed, Suspension
        <5> QED BY <2>0, <5>1 DEF Stages, StageOf, Ending
      <4>2. CASE call[t].then = "fail"
        <5>1. entry' = [entry EXCEPT ![t] = NoEntry] /\ call' = [call EXCEPT ![t] = NoCall]
          BY <2>2, <3>9, <4>2 DEF Resumed, Continue, Forget, Return
        <5>2. entry'[t] = NoEntry /\ call'[t] = NoCall
          BY <2>0, <5>1 DEF CallTypes
        <5> QED BY <5>2, NoEntryIs, Constants DEF NoEntry, Side
      <4>3. CASE call[t].then # "fail"
        <5>1. /\ entry' = entry /\ call' = call /\ left' = left
              /\ \E s \in {"try", "back", "yield"} : pc' = [pc EXCEPT ![t] = s]
          BY <2>2, <3>9, <4>1, <4>3 DEF Resumed, Continue
        <5>2. pc'[t] \in {"try", "back", "yield"}
          BY <2>0, <5>1 DEF CallTypes
        <5> QED BY <2>0, <4>1, <5>1, <5>2, EntryKept
      <4> QED BY <4>2, <4>3
    <3>10. CASE Back
      <4>1. entry' = entry /\ pc[t] = "back"
        BY <2>2, <3>10 DEF Back
      <4>2. CASE call[t].kind = "delay"
        <5>1. ~entry[t].set /\ ~entry[t].wrapped
          BY <2>0, <4>2 DEF EntryOf, Side
        <5>2. call'[t] = NoCall
          BY <2>0, <2>2, <3>10, <4>2 DEF Back, Return, CallTypes
        <5> QED BY <4>1, <5>1, <5>2, NoEntryIs, Constants DEF Side
      <4>3. CASE call[t].kind # "delay"
        <5>1. call' = call /\ left' = left /\ pc'[t] = "try"
          BY <2>0, <2>2, <3>10, <4>3 DEF Back, CallTypes
        <5> QED BY <2>0, <4>1, <5>1, EntryKept
      <4> QED BY <4>2, <4>3
    <3> QED
      BY <1>2, <3>1, <3>2, <3>3, <3>4, <3>5, <3>6, <3>7, <3>8, <3>9, <3>10 DEF Next, Run, Resume
  <2> QED BY <2>1, <2>2
<1> QED BY <1>1, <1>2

(* How the time a task has left moves with its call.                       *)
LEMMA LeftNext ==
    ASSUME Control, Next, ~SysTick, ~ReplayTick, NEW t \in Task
    PROVE  /\ ~Ready(t) => left'[t] = left[t]
           /\ pc'[t] = "delay" =>
                 \/ pc[t] = "delay" /\ call'[t] = call[t] /\ left'[t] = left[t]
                 \/ ~suspended /\ left'[t] = call'[t].ticks /\ call'[t].kind = "delay"
           /\ call'[t].kind = "delay" /\ pc'[t] \in {"resume", "yield", "back"} =>
                 /\ call[t].kind = "delay" /\ left'[t] = left[t]
                 /\ pc[t] \in {"resume", "yield", "back"} \/ (vTaskDelay /\ t = current)
           /\ call'[t].then = "fail" =>
                 /\ left'[t] = left[t]
                 /\ \/ call[t].then = "fail"
                    \/ pc[t] = "check" /\ TimedOut /\ t = current
<1> USE DEF At, My, callVars, Goto
<1>0. /\ CallTypes /\ Stages /\ Suspension /\ left \in [Task -> Nat] /\ StageOf(t)
  BY DEF Control, Types, TimeTypes, Stages
<1>1. CASE t # current
  <2>1. pc'[t] = pc[t] /\ call'[t] = call[t] /\ left'[t] = left[t]
    BY <1>1, ClockStands, OthersStay
  <2> QED BY <2>1
<1>2. CASE t = current
  <2>1. CASE \/ Interrupt \/ xTaskResumeAll \/ DrainPending
    <3>1. UNCHANGED <<pc, call, left>>
      BY <2>1 DEF Interrupt, prvCheckDelayedTasks, PendSV, FromISR, xTaskResumeAll, DrainPending
    <3> QED BY <3>1
  <2>2. CASE Use
    <3>1. PICK c \in Calls[t] : /\ call' = [call EXCEPT ![t] = c] /\ left' = left
                                /\ pc' = [pc EXCEPT ![t] = IF c.kind = "delay" THEN "suspend" ELSE "try"]
      BY <1>2, <2>2 DEF Use
    <3>2. call'[t] = c /\ c.then = "none" /\ pc'[t] \in {"suspend", "try"}
      BY <1>0, <3>1, Constants DEF CallTypes
    <3> QED BY <3>1, <3>2
  <2>3. CASE Succeed \/ Fail
    <3>1. call' = [call EXCEPT ![t] = NoCall] /\ pc' = [pc EXCEPT ![t] = "run"]
      BY <1>2, <2>3 DEF Succeed, Fail, Return
    <3>2. call'[t] = NoCall /\ pc'[t] = "run"
      BY <1>0, <3>1 DEF CallTypes
    <3>3. Ready(t)
      BY <1>2, <2>3, GoesOnReady DEF Succeed, Fail, Ending
    <3> QED BY <3>2, <3>3, Constants
  <2>4. CASE Enter
    <3>1. /\ call' = call /\ pc' = [pc EXCEPT ![t] = "suspend"] /\ pc[t] = "try"
      BY <1>2, <2>4 DEF Enter
    <3>2. pc'[t] = "suspend"
      BY <1>0, <3>1 DEF CallTypes
    <3>3. Ready(t)
      BY <1>2, <2>4, GoesOnReady DEF Enter, Ending
    <3>4. call[t].then # "fail"
      BY <1>0, <3>1 DEF StageOf, Ending
    <3> QED BY <3>1, <3>2, <3>3, <3>4
  <2>5. CASE vTaskSuspendAll
    <3>1. call' = call /\ pc[t] = "suspend"
      BY <1>2, <2>5 DEF vTaskSuspendAll
    <3>2. Ready(t)
      BY <1>2, <2>5, GoesOnReady DEF vTaskSuspendAll, Ending
    <3>3. call[t].then # "fail" /\ ~suspended
      BY <1>0, <1>2, <3>1 DEF StageOf, Ending, Suspension, Suspending
    <3>4. IF call[t].kind = "delay" THEN pc'[t] = "delay" /\ left'[t] = call[t].ticks
          ELSE pc'[t] = "lock"
      BY <1>0, <1>2, <2>5 DEF vTaskSuspendAll, CallTypes
    <3> QED BY <3>1, <3>2, <3>3, <3>4
  <2>6. CASE xTaskCheckForTimeOut
    <3>1. /\ left' = left /\ pc[t] = "check" /\ \E s \in {"unlockTx", "test"} : pc' = [pc EXCEPT ![t] = s]
      BY <1>2, <2>6 DEF xTaskCheckForTimeOut
    <3>2. pc'[t] \in {"unlockTx", "test"}
      BY <1>0, <3>1 DEF CallTypes
    <3>3. call'[t].then = "fail" => TimedOut \/ call[t].then = "fail"
      <4>1. CASE TimedOut
        BY <4>1
      <4>2. CASE ~TimedOut
        <5>1. call' = call \/ \E n : call' = [call EXCEPT ![t].ticks = n]
          BY <1>2, <2>6, <4>2 DEF xTaskCheckForTimeOut
        <5>2. call[t] \in CallType
          BY <1>0, <3>1 DEF CallTypes, StageOf
        <5>3. call'[t].then = call[t].then
          BY <1>0, <5>1, <5>2 DEF CallTypes, CallType
        <5> QED BY <5>3
      <4> QED BY <4>1, <4>2
    <3> QED BY <1>2, <3>1, <3>2, <3>3
  <2>7. CASE prvLockQueue \/ vTaskPlaceOnEventList \/ Yield
    <3>1. /\ call' = call /\ left' = left /\ pc'[t] \in {"check", "unlockTx", "back"}
          /\ pc[t] \in {"lock", "place", "yield"} /\ (pc'[t] = "back" => pc[t] = "yield")
      BY <1>0, <1>2, <2>7 DEF prvLockQueue, vTaskPlaceOnEventList, Yield, CallTypes
    <3> QED BY <3>1
  <2>8. CASE UnlockTx \/ UnlockRx
    <3>1. /\ call' = call /\ left' = left /\ pc[t] \in {"unlockTx", "unlockRx"}
          /\ \E s \in {"unlockRx", "resume"} : pc' = [pc EXCEPT ![t] = s]
      BY <1>2, <2>8, UnlockCall
    <3>2. pc'[t] \in {"unlockRx", "resume"}
      BY <1>0, <3>1 DEF CallTypes
    <3>3. call[t].kind # "delay"
      BY <1>0, <3>1 DEF StageOf
    <3> QED BY <3>1, <3>2, <3>3
  <2>9. CASE Test \/ vTaskDelay
    <3>1. /\ left' = left /\ pc[t] \in {"test", "delay"} /\ call[t] \in CallType
          /\ \E then \in {"retry", "wait", "sleep"} : call' = [call EXCEPT ![t].then = then]
          /\ pc'[t] \in {"unlockTx", "place", "resume"} /\ (pc'[t] = "resume" => vTaskDelay)
      BY <1>0, <1>2, <2>9 DEF Test, vTaskDelay, Then, CallTypes, StageOf
    <3>2. call'[t].kind = call[t].kind /\ call'[t].then # "fail"
      BY <1>0, <3>1 DEF CallTypes, CallType
    <3> QED BY <1>2, <3>1, <3>2
  <2>10. CASE Resumed
    <3>1. pc[t] = "resume" /\ call[t].then \in {"fail", "retry", "wait", "sleep"}
      <4>1. pc[t] = "resume"
        BY <1>0, <1>2, <2>10 DEF Resumed, Suspension
      <4> QED BY <1>0, <4>1 DEF StageOf, Ending
    <3>2. CASE call[t].then = "fail"
      <4>1. /\ call' = [call EXCEPT ![t] = NoCall] /\ pc' = [pc EXCEPT ![t] = "run"]
        BY <1>2, <2>10, <3>2 DEF Resumed, Continue, Return
      <4>2. call'[t] = NoCall /\ pc'[t] = "run"
        BY <1>0, <4>1 DEF CallTypes
      <4>3. Ready(t)
        BY <3>1, <3>2 DEF Control, Resting
      <4> QED BY <4>2, <4>3, Constants
    <3>3. CASE call[t].then # "fail"
      <4>1. /\ call' = call /\ left' = left
            /\ \E s \in {"try", "back", "yield"} : pc' = [pc EXCEPT ![t] = s]
        BY <1>2, <2>10, <3>1, <3>3 DEF Resumed, Continue
      <4>2. pc'[t] \in {"try", "back", "yield"}
        BY <1>0, <4>1 DEF CallTypes
      <4> QED BY <3>1, <4>1, <4>2
    <3> QED BY <3>2, <3>3
  <2>11. CASE Back
    <3>1. Ready(t)
      BY <1>2, <2>11, GoesOnReady DEF Back, Ending
    <3>2. pc[t] = "back" /\ call[t].then # "fail"
      BY <1>0, <1>2, <2>11 DEF Back, StageOf, Ending
    <3>3. CASE call[t].kind = "delay"
      <4>1. call'[t] = NoCall /\ pc'[t] = "run"
        BY <1>0, <1>2, <2>11, <3>3 DEF Back, Return, CallTypes
      <4> QED BY <3>1, <4>1, Constants
    <3>4. CASE call[t].kind # "delay"
      <4>1. call' = call /\ left' = left /\ pc'[t] = "try"
        BY <1>0, <1>2, <2>11, <3>4 DEF Back, CallTypes
      <4> QED BY <3>2, <4>1
    <3> QED BY <3>3, <3>4
  <2> QED
    BY <2>1, <2>2, <2>3, <2>4, <2>5, <2>6, <2>7, <2>8, <2>9, <2>10, <2>11 DEF Next, Run, Resume
<1> QED BY <1>1, <1>2

(* A tick takes one off what is left to every task.                        *)
LEMMA SleepsTick ==
    ASSUME Control, Lists, DelayLists, Entries, Sleeps, SysTick \/ ReplayTick PROVE Sleeps'
<1>0. /\ ListTypes /\ tick \in Tick /\ tick' \in Tick /\ StateLists /\ entry \in [Task -> EntryType]
      /\ missed \in Nat /\ left \in [Task -> Nat] /\ CallTypes /\ wake' = wake
      /\ wake \in [Task -> Tick]
      /\ Range(delayed) \subseteq Task /\ Range(overflow) \subseteq Task
  <2>1. /\ ListTypes /\ tick \in Tick /\ StateLists /\ entry \in [Task -> EntryType]
        /\ missed \in Nat /\ left \in [Task -> Nat] /\ CallTypes /\ wake \in [Task -> Tick]
        /\ Range(delayed) \subseteq Task /\ Range(overflow) \subseteq Task
    BY RangeOfSeq, Constants DEF Control, Types, TimeTypes, Lists, ListTypes
  <2>2. tick' = tick \/ tick' = (tick + 1) % Ticks
    BY DEF SysTick, ReplayTick, vTaskIncrementTick
  <2>3. tick' \in Tick
    BY <2>1, <2>2, TickIs, Constants DEF Tick
  <2>4. wake' = wake
    BY DEF SysTick, ReplayTick, vTaskIncrementTick, listVars, delayVars
  <2> QED BY <2>1, <2>3, <2>4
<1>1. UNCHANGED <<ready, pc, call>>
  BY DEF SysTick, ReplayTick, vTaskIncrementTick, callVars, listVars
<1>2. \A t \in Task : left[t] = 0 => left'[t] = 0
  BY <1>0 DEF SysTick, ReplayTick, CountDown, callVars
<1>3. Timed \subseteq Task /\ Timed' \subseteq Task
  <2>1. Range(delayed') \union Range(overflow') = Range(delayed) \union Range(overflow)
    <3>1. UNCHANGED <<delayed, overflow>> \/ (delayed' = overflow /\ overflow' = delayed)
      BY DEF SysTick, ReplayTick, vTaskIncrementTick, listVars, delayVars
    <3> QED BY <3>1
  <2> QED BY <1>0, <2>1 DEF Timed
<1>4. CASE SysTick /\ suspended
  <2>1. UNCHANGED <<tick, delayed, overflow>> /\ missed' = missed + 1 /\ left' = CountDown
    BY <1>4 DEF SysTick, listVars, delayVars
  <2>2. \A n \in Int : \A t \in Task :
           left[t] = (IF n > missed THEN n - missed ELSE 0) =>
              left'[t] = (IF n > missed' THEN n - missed' ELSE 0)
    BY <1>0, <2>1 DEF CountDown
  <2>3. ASSUME NEW t \in Timed' PROVE left'[t] = Off(Remaining(t))'
    <3>1. t \in Timed /\ Remaining(t)' = Remaining(t) /\ left[t] = Off(Remaining(t))
      BY <1>0, <2>1, <2>3 DEF Timed, Remaining, Sleeps
    <3>2. t \in Task /\ Remaining(t) \in Int
      BY <1>0, <1>3, <3>1, RemainingIs DEF Tick
    <3> HIDE DEF Remaining, Timed
    <3> QED BY <2>2, <3>1, <3>2 DEF Off
  <2>4. ASSUME NEW t \in Task, pc'[t] = "delay" PROVE left'[t] = Off(call[t].ticks)'
    <3>1. left[t] = Off(call[t].ticks) /\ call[t].kind = "delay"
      BY <1>1, <2>4 DEF Sleeps, Control, Stages, StageOf
    <3>2. call[t].ticks \in Int
      BY <1>0, <3>1, Constants DEF CallTypes, CallType, Tick
    <3> QED BY <1>1, <2>2, <3>1, <3>2 DEF Off
  <2> QED BY <1>1, <1>2, <2>3, <2>4 DEF Sleeps, Ready
<1>5. CASE ReplayTick \/ (SysTick /\ ~suspended)
  <2>1. /\ masked # "expire" /\ \A t \in Task : pc[t] # "delay"
        /\ tick = Ticks - 1 => \A t \in Task : ~entry[t].wrapped
        /\ \E after : vTaskIncrementTick(after)
        /\ \/ missed = 0 /\ missed' = 0 /\ left' = CountDown
           \/ missed > 0 /\ missed' = missed - 1 /\ left' = left
    BY <1>5, TickCounted
  <2>2. /\ \A t \in Task : t \in Timed' <=> t \in Timed
        /\ \A t \in Task : t \in Timed => Remaining(t) >= 1 /\ Remaining(t)' = Remaining(t) - 1
    BY <1>0, <2>1, TimeAdvances
  <2>3. \A n \in Int : \A t \in Task :
           left[t] = (IF n > missed THEN n - missed ELSE 0) =>
              left'[t] = (IF n - 1 > missed' THEN n - 1 - missed' ELSE 0)
    BY <1>0, <2>1 DEF CountDown
  <2>4. ASSUME NEW t \in Timed' PROVE left'[t] = Off(Remaining(t))'
    <3>1. t \in Task /\ t \in Timed /\ left[t] = Off(Remaining(t))
      BY <1>3, <2>2, <2>4 DEF Sleeps
    <3>2. Remaining(t)' = Remaining(t) - 1 /\ Remaining(t) \in Int
      BY <1>0, <2>2, <3>1, RemainingIs DEF Tick
    <3> HIDE DEF Remaining, Timed
    <3> QED BY <2>3, <3>1, <3>2 DEF Off
  <2>5. \A t \in Task : pc'[t] # "delay"
    BY <1>1, <2>1
  <2> QED BY <1>1, <1>2, <2>4, <2>5 DEF Sleeps, Ready
<1> QED BY <1>4, <1>5

(* A call that gives up has had its time.                                  *)
LEMMA TimedOutIs ==
    ASSUME Control, NEW t \in Task, t = current, EntryOf(t), entry[t].set, TimedOut
    PROVE  call[t].ticks - Elapsed(t) \in Int /\ call[t].ticks - Elapsed(t) <= 0
<1>0. /\ tick \in Tick /\ entry[t].tick \in Tick /\ entry[t].wrapped \in BOOLEAN
      /\ tick \in Int /\ 0 <= tick /\ tick < Ticks /\ Ticks \in Nat
      /\ entry[t].tick \in Int /\ 0 <= entry[t].tick /\ entry[t].tick < Ticks
  BY Constants DEF Control, Types, TimeTypes, EntryType, Tick
<1>1. call[t].kind \in Side /\ Elapsed(t) >= 0
  BY DEF EntryOf
<1>2. call[t].ticks \in Int /\ call[t].ticks < Ticks
  BY <1>1, Constants DEF Control, Types, CallTypes, CallType, Side, Tick
<1>3. \/ entry[t].wrapped /\ tick >= entry[t].tick
      \/ Passed >= call[t].ticks
  BY DEF TimedOut, My
<1>4. Passed = IF tick >= entry[t].tick THEN tick - entry[t].tick
               ELSE tick - entry[t].tick + Ticks
  BY <1>0, BetweenIs DEF Passed
<1>5. Elapsed(t) = tick - entry[t].tick + (IF entry[t].wrapped THEN Ticks ELSE 0)
  BY DEF Elapsed
<1> HIDE DEF Passed, Elapsed
<1> QED BY <1>0, <1>1, <1>2, <1>3, <1>4, <1>5

LEMMA SleepsNext ==
    ASSUME Control, Lists, Waiters, DelayLists, Entries, Sleeps, Next PROVE Sleeps'
<1>1. CASE SysTick \/ ReplayTick
  BY <1>1, SleepsTick
<1>2. CASE ~SysTick /\ ~ReplayTick
  <2>0. /\ ListTypes /\ tick \in Tick /\ StateLists /\ CallTypes /\ SchedulerTypes /\ missed \in Nat
        /\ wake \in [Task -> Tick] /\ Range(delayed) \subseteq Task /\ Range(overflow) \subseteq Task
        /\ Stages /\ UNCHANGED <<tick, missed>> /\ Timed \subseteq Task
    <3>1. /\ ListTypes /\ tick \in Tick /\ StateLists /\ CallTypes /\ SchedulerTypes /\ missed \in Nat
          /\ Stages /\ UNCHANGED <<tick, missed>>
      BY <1>2, ClockStands, Constants DEF Control, Types, TimeTypes, Lists
    <3>2. Range(delayed) \subseteq Task /\ Range(overflow) \subseteq Task
      BY <3>1, RangeOfSeq DEF ListTypes
    <3> QED BY <3>1, <3>2 DEF ListTypes, Timed
  <2>1. ASSUME NEW t \in Timed' PROVE left'[t] = Off(Remaining(t))'
    <3>1. ASSUME t \in Timed, wake'[t] = wake[t]
          PROVE  left'[t] = Off(Remaining(t))'
      <4>1. t \in Task /\ ~Ready(t) /\ left[t] = Off(Remaining(t))
        BY <2>0, <3>1 DEF StateLists, Sleeps
      <4>2. left'[t] = left[t]
        BY <1>2, <4>1, LeftNext
      <4>3. Remaining(t)' = Remaining(t)
        BY <2>0, <3>1 DEF Remaining
      <4>4. Off(Remaining(t))' = Off(Remaining(t))
        BY <2>0, <4>3 DEF Off
      <4> QED BY <4>1, <4>2, <4>4
    <3>2. CASE vTaskPlaceOnEventList \/ vTaskDelay
      <4>1. PICK me \in Task : me = current
        BY <2>0 DEF SchedulerTypes
      <4>2. /\ call[me] \in CallType /\ call[me].ticks \in Tick /\ call[me].ticks > 0
            /\ me \notin Timed /\ masked = "no" /\ UNCHANGED <<tick, left>>
            /\ \/ UNCHANGED <<delayed, overflow, wake, next>>
               \/ prvAddCurrentTaskToDelayedList(me, call[me].ticks)
            /\ call[me].ticks = portMAX_DELAY /\ vTaskPlaceOnEventList
                  => UNCHANGED <<delayed, overflow, wake, next>>
        BY <3>2, <4>1, FallsAsleep
      <4>3. CASE UNCHANGED <<delayed, overflow, wake, next>>
        BY <2>1, <3>1, <4>3 DEF Timed
      <4>4. CASE /\ prvAddCurrentTaskToDelayedList(me, call[me].ticks)
                 /\ ~UNCHANGED <<delayed, overflow, wake, next>>
        <5>1. /\ Remaining(me)' = call[me].ticks
              /\ \A u \in Task : u # me => wake'[u] = wake[u] /\ (u \in Timed' => u \in Timed)
          BY <2>0, <4>2, <4>4, AddTimes
        <5>2. CASE t = me
          <6>1. left[me] = Off(call[me].ticks)
            <7>1. CASE vTaskDelay
              BY <4>1, <7>1 DEF vTaskDelay, At, Sleeps
            <7>2. CASE vTaskPlaceOnEventList
              <8>1. pc[me] = "place" /\ call[me].kind \in Side /\ call[me].ticks # portMAX_DELAY
                BY <2>0, <4>1, <4>2, <4>4, <7>2, MyEventIs DEF vTaskPlaceOnEventList, At, SchedulerTypes
              <8>2. EntryOf(me)
                BY DEF Entries
              <8>3. entry[me].set /\ Elapsed(me) = 0 /\ left[me] = Off(call[me].ticks - Elapsed(me))
                BY <8>1, <8>2 DEF EntryOf
              <8>4. call[me].ticks - 0 = call[me].ticks
                BY <4>2, Constants DEF Tick
              <8> QED BY <8>3, <8>4
            <7> QED BY <3>2, <7>1, <7>2
          <6>2. Off(Remaining(me))' = Off(call[me].ticks)
            BY <2>0, <5>1 DEF Off
          <6> QED BY <4>2, <5>2, <6>1, <6>2
        <5>3. CASE t # me
          <6>1. t \in Task
            <7>1. ListTypes'
              BY ControlNext DEF Control, Types
            <7>2. Range(delayed') \subseteq Task /\ Range(overflow') \subseteq Task
              BY <7>1, RangeOfSeq DEF ListTypes
            <7> QED BY <2>1, <7>2 DEF Timed
          <6> QED BY <2>1, <3>1, <5>1, <5>3, <6>1
        <5> QED BY <5>2, <5>3
      <4> QED BY <4>2, <4>3, <4>4
    <3>3. CASE prvCheckDelayedTasks
      <4>1. wake' = wake /\ (UNCHANGED <<delayed, overflow>> \/ \E u : Unblock(u))
        BY <3>3 DEF prvCheckDelayedTasks
      <4>2. Range(delayed') \subseteq Range(delayed) /\ Range(overflow') \subseteq Range(overflow)
        BY <2>0, <4>1, Removed DEF Unblock, ListTypes
      <4> QED BY <2>1, <3>1, <4>1, <4>2 DEF Timed
    <3>4. CASE Elsewhere
      <4>1. /\ wake' = wake
            /\ Range(delayed') \subseteq Range(delayed) /\ Range(overflow') \subseteq Range(overflow)
        BY <3>4, DelaysStand
      <4> QED BY <2>1, <3>1, <4>1 DEF Timed
    <3> QED BY <1>2, <3>2, <3>3, <3>4 DEF Elsewhere
  <2>2. ASSUME NEW t \in Task, pc'[t] = "delay" PROVE left'[t] = Off(call[t].ticks)'
    <3>1. CASE pc[t] = "delay" /\ call'[t] = call[t] /\ left'[t] = left[t]
      BY <2>0, <3>1 DEF Sleeps, Off
    <3>2. CASE ~suspended /\ left'[t] = call'[t].ticks /\ call'[t].kind = "delay"
      <4>1. missed' = 0
        BY <2>0, <3>2 DEF Lists, Caught
      <4>2. call'[t].ticks \in Int /\ call'[t].ticks >= 0
        <5>1. call'[t] \in CallType \union {NoCall}
          BY ControlNext DEF Control, Types, CallTypes
        <5> QED BY <3>2, <5>1, Constants DEF CallType, Tick
      <4> QED BY <3>2, <4>1, <4>2 DEF Off
    <3> QED BY <1>2, <2>2, <3>1, <3>2, LeftNext
  <2>3. ASSUME NEW t \in Task, call'[t].kind = "delay", Ready(t)', pc'[t] \in {"resume", "yield", "back"}
        PROVE  left'[t] = 0
    <3>1. /\ call[t].kind = "delay" /\ left'[t] = left[t]
          /\ pc[t] \in {"resume", "yield", "back"} \/ (vTaskDelay /\ t = current)
      BY <1>2, <2>3, LeftNext
    <3>2. pc[t] \in {"resume", "yield", "back"}
      BY <2>3, <3>1, FallsAsleep
    <3>3. CASE Ready(t)
      BY <3>1, <3>2, <3>3 DEF Sleeps
    <3>4. CASE t \in Held
      <4>1. Waits(t)
        BY <3>4, WaitingIs DEF Held, Waiters
      <4> QED BY <3>1, <4>1 DEF Waits, Side
    <3>5. CASE Expires(t)
      <4>1. t \in Range(delayed) /\ wake[t] <= tick
        BY <2>0, <3>5, Behead DEF Expires, ListTypes
      <4>2. wake[t] >= tick /\ wake[t] \in Int /\ tick \in Int
        BY <2>0, <4>1 DEF DelayLists, Tick
      <4>3. wake[t] = tick
        BY <4>1, <4>2
      <4>4. Remaining(t) = 0
        <5>1. Remaining(t) = IF wake[t] >= tick THEN wake[t] - tick ELSE wake[t] - tick + Ticks
          BY <2>0, RemainingIs
        <5> HIDE DEF Remaining
        <5> QED BY <4>2, <4>3, <5>1
      <4>5. left[t] = Off(Remaining(t))
        BY <4>1 DEF Sleeps, Timed
      <4> QED BY <2>0, <3>1, <4>4, <4>5 DEF Off
    <3> QED BY <2>3, <3>3, <3>4, <3>5, ReadyNext
  <2>4. ASSUME NEW t \in Task, call'[t].then = "fail" PROVE left'[t] = 0
    <3>1. /\ left'[t] = left[t]
          /\ call[t].then = "fail" \/ (pc[t] = "check" /\ TimedOut /\ t = current)
      BY <1>2, <2>4, LeftNext
    <3>2. CASE call[t].then = "fail"
      BY <3>1, <3>2 DEF Sleeps
    <3>3. CASE pc[t] = "check" /\ TimedOut /\ t = current
      <4>1. EntryOf(t) /\ call[t].ticks # portMAX_DELAY /\ call[t].kind \in Side
        BY <2>0, <3>3, MyEventIs DEF Entries, TimedOut, My, SchedulerTypes
      <4>2. entry[t].set /\ left[t] = Off(call[t].ticks - Elapsed(t))
        BY <3>3, <4>1 DEF EntryOf
      <4>3. call[t].ticks - Elapsed(t) \in Int /\ call[t].ticks - Elapsed(t) <= 0
        BY <3>3, <4>1, <4>2, TimedOutIs
      <4> QED BY <2>0, <3>1, <4>2, <4>3 DEF Off
    <3> QED BY <3>1, <3>2, <3>3
  <2> QED BY <2>1, <2>2, <2>3, <2>4 DEF Sleeps
<1> QED BY <1>1, <1>2

LEMMA TimesNext ==
    ASSUME Control, Lists, WakeUps, Times, [Next]_vars PROVE Times'
<1>1. CASE Next
  <2>1. DelayLists'
    BY <1>1, DelayListsNext DEF Times
  <2>2. Entries'
    BY <1>1, EntriesNext DEF Times
  <2>3. Sleeps'
    BY <1>1, SleepsNext DEF Times, WakeUps
  <2>4. Hooks'
    BY <1>1, HooksNext DEF Times
  <2> QED BY <2>1, <2>2, <2>3, <2>4 DEF Times
<1>2. CASE UNCHANGED vars
  BY <1>2 DEF vars, listVars, delayVars, waitVars, timeVars, schedulerVars, interruptVars,
              queueVars, callVars, Times, DelayLists, Entries, EntryOf, Elapsed, Off, Sleeps,
              Timed, Remaining, Ready, Hooks
<1> QED BY <1>1, <1>2

LEMMA TimesInit ==
    ASSUME Init PROVE Times
<1>1. /\ Range(<<>>) = {} /\ \A t \in Task : pc[t] = "run" /\ call[t] = NoCall /\ entry[t] = NoEntry
      /\ delayed = <<>> /\ overflow = <<>>
  BY DEF Init, Range
<1>2. DelayLists
  BY <1>1 DEF DelayLists
<1>3. Entries
  BY <1>1, Constants DEF Entries, EntryOf, NoEntry, Side
<1>4. Sleeps
  BY <1>1, Constants DEF Sleeps, Timed
<1>5. Hooks
  <2>1. (0 + 0) % Ticks = 0
    BY Constants, BetweenIs DEF Tick
  <2> QED BY <2>1 DEF Init, Hooks
<1> QED BY <1>2, <1>3, <1>4, <1>5 DEF Times

(* For all tasks and calls, all widths of the counter and every number of  *)
(* ticks that come while the scheduler is suspended: no tick is lost, and  *)
(* no task sleeps longer or shorter than it was to, nor gives up before.   *)
THEOREM KernelTimeKept == Spec => []TimeKept
<1>1. Init => Times
  BY TimesInit
<1>2. Control /\ Lists /\ WakeUps /\ Times /\ [Next]_vars => Times'
  BY TimesNext
<1>3. Control /\ Times => TimeKept
  <2> SUFFICES ASSUME Control, Times PROVE TimeKept
    OBVIOUS
  <2>1. ASSUME NEW t \in Timed PROVE Remaining(t) > 0 \/ masked = "expire"
    <3>0. /\ wake \in [Task -> Tick] /\ tick \in Tick /\ Ticks \in Nat
          /\ Range(delayed) \subseteq Task /\ Range(overflow) \subseteq Task
      BY RangeOfSeq, Constants DEF Control, Types, ListTypes, TimeTypes
    <3>1. t \in Task /\ wake[t] \in Int /\ tick \in Int /\ 0 <= wake[t] /\ tick < Ticks
      BY <3>0 DEF Timed, Tick
    <3>2. Remaining(t) = IF wake[t] >= tick THEN wake[t] - tick ELSE wake[t] - tick + Ticks
      BY <3>0, <3>1, RemainingIs
    <3>3. wake[t] # tick \/ masked = "expire"
      BY <3>1 DEF Times, DelayLists, Timed
    <3> HIDE DEF Remaining
    <3> QED BY <3>0, <3>1, <3>2, <3>3
  <2>2. \A t \in Timed :
           left[t] = IF Remaining(t) > missed THEN Remaining(t) - missed ELSE 0
    BY DEF Times, Sleeps, Off
  <2> QED BY <2>1, <2>2 DEF TimeKept, Times, Hooks, Sleeps
<1> QED BY <1>1, <1>2, <1>3, WakeUpsAlways, PTL DEF Spec
=============================================================================
