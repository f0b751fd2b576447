# TLA+ model of the SAM4E tracker firmware

The repository holds the firmware of a vehicle tracker (a SAM4E micro-controller, a GSM modem, a GPS
receiver, four digital inputs, a 1-Wire thermometer and a terminal). Almost all of its own code is
`USER_APPLICATION3/USER_APPLICATION3/src/main.c`; the 1-Wire code is `App.c`, `OWIHighLevelFunctions.c`,
`OWISWBitFunctions.c` and `OWIcrc.c` beside it. The rest is Atmel's ASF, CMSIS and FreeRTOS 7.3.0.
`main.c:N` below is a line of that file; other paths are given in full or are its neighbours.

## 1. The system

### What runs

* **Four tasks**, all of them the function `test_task` (main.c:275-1151) with another parameter: *init*, *GPS*,
  *GSM* and *I/O* mode. They have one priority and a queue each. `main` puts one item into init's queue;
  a task waits for an item, runs its mode's loop while it holds it, and passes it on to another mode.
* **The tick hook** (main.c:1542-1708), every millisecond in the interrupt of the FreeRTOS tick: it counts, drives the power
  pins, looks at the inputs, searches the 1-Wire bus, starts conversions, and raises flags for the tasks.
* **UART0** (the terminal), **UART1** (the GPS receiver), **USART1** (the modem) and **ADC** interrupts.

All of them share about sixty global variables; there is no lock, no critical section and no `volatile`.

### Components

| Component | State | Operations | Talks to |
|---|---|---|---|
| Mode machine (main.c:275-1151, 1332-1383, 1542-1700) | the queues, the `*_flag` ints, `init_chs` ... `IO_chs`, the last typed bytes | a loop per mode: poll the flags, take a key, obey it, hand over; in init also the reset block, the report and the custom message | the tick hook and UART0 raise flags and store keys |
| Modem and receiver power (main.c:288-411, 1562-1587) | `GSM_tick_cnt`, `GPS_tick_cnt`, `GSM_init_flag`, `GPS_start_flag`, `GPS_fix_flag`, `init_flag`, pins PD19, PB14, PD26, PD24 | pulse, power, initialise, watch, reset | mode machine: who runs, who resets |
| 1-Wire search (App.c:98-188, OWIHighLevelFunctions.c:150-265) | the device array, `lastDeviation`, the bit pattern; the slaves' own state | `SearchBuses`, `OWI_SearchRom` | called by the tick hook |
| Thermometer (main.c:715-750, 1461-1528, 1594-1611) | `ow_cnt`, `ConversionStarted`, `OWI_test_dev`, `Counter`, `SMS_Value.BootType`; the slave's scratchpad | search and convert in the tick hook; wait, read, retry in init | shares the bus and `OWI_test_dev` between interrupt and task |
| NMEA ring and scan (main.c:414-712, 1385-1398) | `instring_GPS`, `wptr_GPS`, `rptr_GPS`, `str_ndx_GPS`, `datastr` | store a byte; scan for RMC, GSV and GGA and copy fields | UART1 writes what init's loop reads |
| Report data and packing (main.c:190-264, 660-711, 753-775, 1612-1654) | `SMS_Value`, its copy `SmsStr`, `PosQ_No` | look at the inputs, copy, count and send a report; numbers out of fields, `UDP2SMS` | read by init, written by tick hook and ADC |
| Terminal ring (main.c:1332-1383) | `instring_RS232`, `wptr_RS232`, `GSM_sms`, `phnnmb` | store a byte, append it to the text; look for Enter, take the key, empty the line, start a text | written by UART0, read and emptied by whichever mode runs |
| Analogue inputs (main.c:1419-1459, 1588-1593) | the enabled AFEC channel, `ADC_IN1` ... `VIN_ADC` | a chain of five conversions | tick hook starts it |
| FreeRTOS kernel (tasks.c, queue.c, list.c, port.c of freertos-7.3.0) | ready, delayed and event lists, tick count, missed ticks, queue locks | send, receive, delay, the tick, suspend and resume, switch | runs the tasks, calls the tick hook |

Not the program's own logic: the accelerometer (configured at main.c:1321-1323 and never used), the bit timing of the 1-Wire
bus and the CRC polynomials, the draft `TempApp.c` (never called), the rest of FreeRTOS, ASF and CMSIS, the makefile script.

### What is hard here, and what makes each part correct

* *Four loops over shared flags.* Only the single queue item keeps two of them from running at once. A reset is asked for in one
  mode and done in another, in thirty assignments with interrupts enabled. Correct: one mode is active; a reset comes before anything else,
  ends, and leaves initial values; a report that is due is sent from whatever mode; the modem's two directions stay together.
* *Timing by equality.* The tick hook acts when a counter *equals* a number; tasks sleep for seconds and reset clears counters in between.
  Correct: whatever tick a reset meets, the modem is powered within a known time and initialised in the end, the receiver switched on and not off again.
* *A search inside an interrupt*, over a wire that slaves leave and join and that noise can change. Correct: it ends; it lists
  each slave once; nothing with a right CRC is listed that is not there.
* *A reading that an interrupt can cut.* Correct: the value is one the slave measured, the report follows it, the byte decodes.
* *A ring that is written while it is scanned*, with a dozen hand-written wraps. Correct: the index stays in it, the newest whole sentence is found,
  the scan ends.
* *A terminal line that two programs interpret at once*: the handler puts bytes into texts while the mode loop takes commands from the same ring and
  empties it. Correct: the command is the byte before Enter; a text is what was typed since its prompt.
* *A report that is copied while it changes* and whose request goes down seconds later. Correct: what the gateway believes is what the tracker
  last saw, or a report is due; every byte, number, time and voltage decodes.
* *A kernel that lists tasks twice and counts time modulo 2^32*, with interrupts between any two of its critical sections. Correct: no wake-up is lost, the
  highest ready task runs, no delay is shorter or forgotten.

The full list, with lines, is `hazards` in `PROJECT.json`.

## 2. Modules

| Module | Models |
|---|---|
| `ModeControl` | abstract: one mode at a time; any service mode may ask for a reset; nothing but the reset happens until it is done |
| `Modes` | the detailed mode machine: tasks, queues, flags, keys, UART0, tick hook. Implements `ModeControl` |
| `Power` | counters, pins, the receiver and the AT commands; instantiates `ModeControl` for who runs and who resets |
| `Discovery` | abstract: a search lists the slaves, each once, in order |
| `OneWire` | `SearchBuses` and `OWI_SearchRom` bit by bit against wired slaves. Implements `Discovery` while the bus is undisturbed |
| `Thermometer` | the search (as one step), conversions, the reading in steps, retries, the report's byte |
| `Nmea` | the ring, UART1 and the scan's loops, byte by byte |
| `Terminal` | the terminal's ring and texts, UART0 and the reader, store by store. Its history `rx` is what `Modes` keeps of the ring: `LastTwo` says that this is right, except at the ring's beginning, which `Modes` keeps too (`place`) |
| `Encoding` | pure: letters, numbers, time and voltage of a report |
| `Report` | who writes a report's fields, the copy, the request; the converter's chain. Extends `Encoding` |
| `Kernel` | FreeRTOS's queues, delays, tick and scheduler |
| `MC*` | keys, sentences, identifiers, counts and temperatures for TLC |
| `*Proofs` | theorems and their proofs |

### How they correspond to the code

**Steps.** A task's action is a stretch of code between two accesses of state an interrupt also touches, so TLC interleaves the
interrupts at every point that can be told apart. What one interrupt handler does is one action: no two handlers write the
same variable of one module.

**Modes.** `pc[m]` is where the task of mode `m` stands: `recv` (in `xQueueReceive`), `enter`, `poll` (the flags at the loop's top),
`cmd`/`copy`/`clear` (the test for Enter, the `memcpy` of the key, the emptying of the buffer, apart because UART0 may
come between), `act` (the `switch`); for init also `top`, `reset` (one step per assignment of the block), `scan` and the sending of reports
and messages. `scan` stands for what init does between its command and the report (main.c:363-750); the scan of the GPS ring in it may never end
(section 5), so `EndScan` may never be taken. `mail` counts queue items, `idx` goes through the polled flags and the reset block. Of the terminal ring the last two
bytes typed are kept (`rx`), and whether the pointer is at 0, at 1 or further (`place`): at 0 the code looks for Enter, and at 1 for the key, in the memory
before the ring, which holds any byte of `Foreign`. The two-minute count and the inputs are reduced to "may become due at any tick".

**Power.** `Tick` is the hook's lines on the two counters, with the real comparisons; `sleep` is what is left of the task's
`vTaskDelay`, and `late` keeps a task that can run from being overtaken by more than one tick. The counters wrap at `Period`, so that every comparison is met again. `initialised` is a history:
the AT commands have been sent since the modem was last powered. The receiver follows each rising edge of the pulse
within `AnswerMax` ticks, or (with `obeys` false) does as it likes.

**OneWire.** A search step is one bit of `OWI_SearchRom`: the two reads as wired ANDs of all listeners, the choice of the direction,
the write that silences the others. `NoisyBit` turns a bit that is read; `Move` unplugs or plugs a slave.

**Thermometer.** The reading is presence, match, first two bytes, rest with CRC; a reset of the bus by the tick hook
between them makes the slave stop sending. `cut` is a history variable: a search fell into this reading.

**Nmea.** The seven copies of the field loop are two actions with the sentence and the field as parameters; `Skip` holds the numbers of
separators. `datastr` is unbounded in the model (see 6). What may be sent is given by the constants: `Texts` of the three sentences, `Others` that are not
looked for, and `Layout`, where a text's fields are by its separators. A sign is compared at `[ndx]`, `[ndx+1]`, `[ndx+2]` (main.c:421) without going back to the ring's
beginning, so that at the ring's last bytes the comparison reads the memory behind `instring_GPS`: there each letter may be the same or not.
A real sign that the ring's end cuts may thus be overlooked (`Cut`), and what only begins like one, the `G` of `$GP` in the last byte, may be taken for one (`Misleading`).

**Terminal.** The reader's steps are those between which `UART0_Handler` can come: reading the pointer, testing for Enter, copying the key,
emptying the ring, setting the pointer, and, to start a text, raising its flag, the count, and the two halves of clearing it. `told` is
what was typed for a text since its prompt, `early` says that a byte came before. For a command, `before` and `at` are the byte before the Enter that the test saw
and the pointer at that moment, and `moved` counts the bytes since. The pointer's two predecessors are read without going back over the ring's beginning, as the
code does (main.c:947): before it lies other memory, `Foreign`.

**Report.** `memcpy` is two steps, since `MessageID` lies in the first words of `SMS_Value` and the inputs, the voltage and the number in the last. `late` and
`dropped` are the two ways in which a change can be lost, written down when they happen. A round of the converter starts whenever the tick hook
says so, whether or not the last one is over, as in the code; `overlap` writes down that it was not. `Encoding` has no state; `UDP2SMS` has the code's byte-wide indices, which come round after 128 bytes; `Number` keeps
the width of an `int` in the digits' multiplications, the voltage is the code's two integer divisions (main.c:1455-1456).

**Kernel.** One step is one critical section, or what lies between two of them; the two loops that run with interrupts off,
`prvCheckDelayedTasks` and those of `xTaskResumeAll` (`DrainPending`, `ReplayTick`, `Resumed`), take a step per turn, and `masked` keeps everything else
out meanwhile. The tick hook is called inside `vTaskIncrementTick` with the guard of tasks.c:1723, and by the interrupt's other branch (1712-1718) when the scheduler is suspended. The operators are named as in tasks.c. A ready list is kept from the next task to the last, and `pxIndex` is its beginning. `lock[e]` is
`xTxLock` or `xRxLock`, for the event of the tasks it may wake. `left` and `hooks` count the time that really passes.
What a queue holds is a number. The firmware's `Modes` uses of it what `NoLostWakeUp` and `HighestRuns` promise.

## 3. What TLC checks

Twelve runs. Every bound is a constant of the `.cfg` or of the `MC` module.

| Run | Question | Bounds, and why they are enough |
|---|---|---|
| `Modes` | `OneToken`, `ResetFirst`, `NmeaOnlyInGPS`, `InitKeyTakenOnce`, `DirectBothWays`, `ResetComplete`: can keys and interrupts at any point break the exclusion, the reset's priority, the GPS read-out, init's key, the coupling of the modem's directions, or a finished reset? `ResetComplete` leaves out what interrupts raise anew (`Raised`) and the flag the block forgets (`Forgotten`, section 5) | All modes, all tasks, the real queue length of 10, every menu key but 8; the memory before the ring holds nothing or a key. Unbounded otherwise: the state is finite. The view drops bytes that no step can read any more |
| `ModesTimer` | `TypeOK`, `TimerRequestKept`, `ResetDone`, `ReportsSent`, `EnterTaken` and the refinement of `ModeControl`. `TimerRequestKept` is about cnt2_flag itself: only the sending of a report or a reset takes it down, be it for another report's sake. `EnterTaken` is about an Enter the code can see (`EnterSeen`: the pointer is not at 0) | Keys for periodic reports and the reset; fair tasks. No view: liveness is checked on the full states |
| `Power` | `ModemSupplied`: no pin without its supply; `ModemPowered`: after any reset the powering lies ahead and not a counter's wrap away; `ModemInitialised`: a modem without AT commands has a request or the count to it ahead, and gets them when the user stays in init; `ReceiverComesUp`: the retry does not switch a started receiver off | One tick is 1/7 s. The counts keep the order and the coincidences of main.c: the pulse is as late as the delay is long, the retry comes one tick after twice that, the modem's count between them, AT commands last. `Period` is 30, twice the retry's count, so that both counters wrap and meet their numbers again. The block's read-outs (`Busy`) take at most 1 tick and the receiver answers within 1 (`AnswerMax`): one that is slower than the retry allows is outside the model |
| `OneWire` | `TypeOK`, `FoundReal`, `AllFound`, `DiscoverySpec`, `SearchEnds` | All sets of slaves with 4-bit identifiers of even parity, one turned bit, one slave moved, one retry. 4 bits have forks at the first, inner and last bit, and 8 slaves of them fill the array |
| `Thermometer` | `TypeOK`, `ReadingRight`, `ByteRight`, `TemperatureFollows` | A search every 16 ticks, a delay of 3, two retries; a cold, a hot and the suspicious 10.625 degree reading. The delay fits several times between two searches, and a reading can meet the next search, as in the code. `ByteRight` is about the DS18B20; the code takes the DS18S20 too (main.c:725, 1602), whose scale is another |
| `Nmea` | `TypeOK`, `InRange`, `ScanRight`, `ScanEnds` | 13 bytes of ring, texts of 6 and 9 bytes: room for two of the short ones, so that there is a newest; every alignment of a sentence with the ring's end, overwriting, and a byte in the middle of a scan. The signs share a letter with each other and with what comes before them, as `GSV` and `GGA` do with `$GP`. `Others` is empty here, for the number of states (three million); `NmeaMixed` has one. Which field holds what is taken from the code (`Skip`): the "satellites" are the first field of GSV (main.c:495), which in NMEA is the number of messages |
| `Terminal` | `TypeOK`, `LastTwo`, `TextRight`, `CommandRight` | A ring of 4 bytes (the reader looks at two, so that there is an index at the beginning, one after it, one in the middle, and the last), texts of 3 and 2 bytes, both open at once, Enter, dash, the keys that start a text and the reset's. `Fits` bounds what is typed to the arrays: behind them lies undefined behaviour (see 6) |
| `Report` | `ChangeReported`, `OneChannel`, `EncodingRight` | Two inputs, so that one changes while the other's report is on its way; a number that wraps at 2; samples at both ends. `OneChannel` holds until a round starts in another (`overlap`). `EncodingRight` goes through all 256 bytes in reports of the code's 44, all 4096 samples, and digits 0, 1 and 9 in five places |
| `Kernel` | `TypeOK`, `HighestRuns`, `NoLostWakeUp`, `TimeKept` | Four priorities in use: two equal tasks, one that waits with a limit above them, idle below; one queue of length 1, so that it is full or empty after every call; a counter of `Ticks` = 4 values that wraps again and again, with the tick hook called once per tick, missed or not, with delays of 1 and 2; up to `MaxMissed` = 2 ticks in a suspended scheduler and `MaxLock` = 1 call of an interrupt to a locked queue. `MaxMissed` is less than `Ticks`, as on the target, where a task that keeps the scheduler suspended for 49 days is no concern. `InTime` bounds what the counter cannot tell: it does not wrap twice while one call counts its time (99 days at 1 kHz) |
| `ModesDropped`, `PowerAT`, `NmeaMixed` | the departures of section 5 | as the passing run of the same module |

Three passing runs of safety use a `VIEW`. Each maps states to one that differ only in what is overwritten before it is read again, and in which the
checked invariants agree, as the comments in `MCModes`, `MCTerminal` and `MCKernel` say: in `Modes` a byte before a byte that is not
Enter; in `Terminal` the ring's bytes that no pointer is near, and the contents of texts that are closed; in `Kernel` the wake time of a task in no delay list. Two such states have
the same steps, so no violation is hidden.

The types of `Power` and `Report` are proved (section 4) and have no run of their own. `OneWire` is checked without the test for deadlock: the search stops. Each property of a passing run has a mutant in `PROJECT.json`: an
operator such as `LockNothing` or `TimesTenPlusNarrow` that changes one definition the way a slip in the code would, and that
TLC refutes. Those operators stand directly before the definition they would replace.

### Fairness

* `Modes`: weak fairness of each task. The four have one priority and are sliced by the tick (`configUSE_PREEMPTION`), and a task whose queue holds an
  item is ready: `Kernel` shows the part of this that the scheduler owes. The end of init's scan is not fair (`EndScan`), since the code does not end it with the GPS pointer at 0 and a silent receiver. Nothing makes a user type, an input change or the timer's flag rise. `ReportsSent`
  and `EnterTaken` assume that the keyboard falls silent (`Silence`): with keys coming in for ever the reset can come first again and again,
  and Enter can be overwritten. They also assume `ScansEnd`: init comes out of its scan again and again. `ResetDone` needs neither: `reset_flag` goes up only in another mode, which then hands over to
  init, and there the block comes before the scan.
* `Power`: weak fairness of the running task, the tick (the SysTick timer does not stop) and of the receiver's answer.
  The second half of `ModemInitialised` and `ReceiverComesUp` assume that the user stays in init, where alone the program does these things.
* `OneWire`: weak fairness of the search, which runs in the tick interrupt. Noise and plugging are not fair.
* `Thermometer`: weak fairness of the tick and of init's steps, but not of leaving or entering init nor of plugging.
* `Terminal`, `Report`, `Kernel`: safety only.
* `Nmea`: weak fairness of the scan's steps. `ScanEnds` assumes a receiver that falls silent after a whole sentence; for one that sends
  on, the scan follows the text and need not end before it. It also assumes that in the end no place in the ring is `Misleading`: else what lies behind the ring can
  look like a sign in every round, and the fields read after it carry the index past the write pointer again and again.

## 4. What is proved

TLAPS checks these for **every** value of the constants that satisfies the named assumptions.

**`ModesProofs`** (assumes `QueueAssumption`: the queues have room for at least one item; `TypedAssumption`: what is typed is a byte;
`ForeignAssumption`: so is what the memory before the ring holds). The inductive invariant `IInv` is the conjunction of the checked invariants with three auxiliary ones: `LabelInv` (a task stands only
at labels of its own mode), `IndexInv` (the index is 1 except while a list is gone through, and within it) and `ResetProgress` (what the
block has assigned so far stays assigned, but for `Raised`, what interrupts raise, and `Forgotten`, the one flag the block omits). `OneToken` carries most of the weight: no other task can run while one does, so each
of the other lemmas only has to look at one task and the interrupts. `ResetFirst` needs it to see that no second mode
can do anything between key 0 and the block; `NmeaOnlyInGPS` and `InitKeyTakenOnce` rest on both; `ResetComplete` is
`ResetProgress` at the block's end. From `IInv` follow `TypeCorrect`, `TokenSafe`, `ResetSafe`, `NmeaSafe`, `DirectSafe`,
`InitKeySafe`, and the action properties `ResetCompleteHolds` and `TimerSafe`. `Refinement` shows that every step of the machine is a step
or a stutter of `ModeControl`, with the holder of the token as the mode; the witness of `CHOOSE` is unique because of `OneToken`.

**`OneWireProofs`** (assumes `SizeAssumption`, `ValidAssumption`; for `FoundReal` also at most one turned bit, and that an identifier differing from a
slave's only in its last bit has a wrong CRC). `OneWireTypes` gives the types. For `OneWireFoundReal` the invariant is that whoever
still listens agrees with the pattern so far; as long as the bus is not misread, the pattern is a prefix of a listener's
identifier, and after a wrong bit the listeners that are left no longer agree with it, so the rest reads as "nobody answers" and the
search fails, unless the wrong bit was the last one: that is the CRC's case.

A second invariant, `QuietInv`, holds of a bus that nothing has disturbed since the last start. It says that the slaves that listen are those that agree with the pattern, that
`newDeviation` is the last fork at which the pattern took the 0, and that the pattern follows the last listed identifier up to that one's last fork, `lastDeviation`, and turns off there. The slaves
still to be found agree with the pattern or have been left behind at a fork, and all come after the last one listed. Two facts about the order of identifiers carry it: what is left behind at a fork
comes after all that still listen, and nothing lies between an identifier and the first one past its last fork. From it follow `OneWireAllFound` (`AllFound`, for any number of slaves and any
room) and `OneWireDiscovers`: each step of the search is an entry of `Discovery` or a stutter.

**`NmeaProofs`** (assumes `RingAssumption`; `SentenceAssumption`: at least one sentence, each with a sign and fields and a positive number of separators before a
field; `SignAssumption`: a text holds its own sign, in its place, and nothing else that looks like one as far as the text goes; `LayoutAssumption`: its fields are where its separators
put them). `IInv == TypeOK /\ InRange` is inductive as it stands; `TypeCorrect` and `ScanStaysInRange` say that the scan never reads a
field outside the ring, whatever arrives when. `ScanFindsNewest` is `ScanRight` for every ring size, set of sentences and history of overwriting. It rests on two more invariants.

* `HistoryInv` (`RingHolds`): there are functions from the age of the ring's bytes to texts and places in them, such that a byte is the one at its place, and
  bytes of one text follow each other. The program keeps no such record, so the invariant says that one exists; a byte that arrives makes all others one older.
  When the last sentence is whole, this gives for the window between the pointers a parsing into texts (`ViewExists`), of which only the first may lack its beginning.
* `ScanGood`: for any such parsing, where the scan is. Everything that looks like a sign in the window is one (`SignIsOwn`), so the scan reads exactly the sentences' fields:
  `Reading` says that the number of separators counted and the bytes copied are those of the text up to the byte that comes next, and `Done` that before that
  byte the newest sentence of each kind whose sign is not cut has given its fields. A step of the scan moves one place on in the window, over the ring's end too (`PlaceNext`), and since sentences are
  whole the end of the window is met in the outer loop only, where it is looked for.

**`ThermometerProofs`** (assumes `TimeAssumption`; `MeasurableAssumption`: the slave measures within -55..125 degrees, and
the power-up value and 0 are left out to tell them from a genuine measurement). The invariant says what the slave is doing at each step of an uncut
reading: matched and sending, or gone. `ReadingSafe` follows; `ByteDecodes` is arithmetic on the division toward zero and on the cut to
eight bits; `TypeCorrect` gives the types.

**`TerminalProofs`** (assumes `RingAssumption`: more than two bytes of ring; `SizeAssumption`; `TypedAssumption`: no zero is typed;
`ForeignAssumption`: the memory before the ring holds a byte that is not Enter). Two inductive invariants, for two halves of the state that hardly meet. `RingInv` adds `EnterSeen`: between test and copy, with
no byte since, the pointer the reader holds is still the ring's and Enter is before it. `TextInv` adds `StartOK`: a start that nothing disturbed has cleared the count before it clears the
text. From them `RingShowsTheLine` (`LastTwo`: with the pointer at 1 only the last byte is claimed, with 0 none, as `Modes` has it), `CommandCorrect`
(the command is the byte before Enter, with the departures the code has: one byte came between, and at the ring's beginning a byte of `Foreign`), `TextsComplete` and `TypeCorrect`, for rings and texts of any size.

**`ReportProofs`** (assumes `SampleAssumption`: twelve bits; `NumberAssumption`: at most 256 numbers). `ReportDecodes` says that the letters of any sequence of fewer than 128 bytes
give it back (not only of the sequences TLC tries; from 128 on the byte-wide index comes round), `NumberReads` that any nine digits come out of the two 32-bit halves as the number they are, digit by digit so that no step overflows,
`TimeComesApart` the same of a date ddmm below 10000 and a time hhmmss below 235960, `NoTimeIsNoDate` what becomes of empty fields, whose zeros are read as digits of -48:
the 121st of month 87, which no reader takes for a date, `VoltageFits` that the byte is the nearest step and fits; `EncodingCorrect` puts these together as `EncodingRight`.
`ChangesReported` needs the strengthening `ChangeInv`: what the copy's inputs have become out of date by is still asked for while the copy is not sent; `OneChannelAtATime` needs that the
chain's channel is the only one and that the converter is busy exactly while one is on, both until a round overlaps. `TypeCorrect` gives the types.

**`PowerProofs`** (assumes `CountAssumption`: the counts are positive, the pulse ends before the retry, AT commands sent to a modem just powered would end before they are due
anew, and the counters wrap later than all of it). `SupplySafe` (`ModemSupplied`) needs `Supplied`: the modem's pin is high without its supply only at the second of the reset block's nine steps.
`PoweredAgain` (`ModemPowered`) needs `Ahead`: from the block's seventh assignment on, which restarts the count, the modem is powered or its count is short of `ModemAt`, whatever ticks come between.
`RequestSafe` (`RequestAhead`, the first half of `ModemInitialised`) needs `Requested`: from there on the commands have been sent, or are asked for with the modem on, or the count is short of `InitAt`; and
`Wasted`: commands sent to a modem without power end before the count gets there, so that the flag they take down is not the new request's. `TypeCorrect` gives the types.

**`KernelProofs`** (assumes `TaskAssumption`: every task is created once, in its priority's list; `CallAssumption`; `IdleAssumption`: a task of priority 0 that never waits;
`TickAssumption`; `QueueAssumption`; `BoundAssumption`: fewer missed ticks than the counter has values). No property of the kernel is inductive alone, so the invariant has four layers, each proved
with the help of the ones before it.

* *`Control`*: types; the stage of a call says what may be in it (`Stages`); the scheduler is suspended exactly while the running task is in the middle of a call,
  and no other task is (`Suspension`); a task that is not ready is at the end of a wait (`Resting`); without a request for a switch nobody more urgent is ready (`Urgency`).
  It gives `KernelHighestRuns`. The point is `xTaskResumeAll`: what it drains and replays may make any task ready, and it has to ask for the switch before it lets interrupts in.
* *`Lists`*: the parts of `TypeOK` about lists, with lemmas about `uxListRemove`, `vListInsert` and the cutting of a list for lists of any length. `KernelTypes` follows.
* *`WakeUps`*: the invariant that is needed for `KernelNoLostWakeUp` counts. While anyone waits for an event, the items (or free places) of the queue are no more than the calls
  noted in the lock and the tasks on their way to it together. It is kept because each item that comes wakes one task or is noted, because a task that waits found the queue without items
  after it had locked it (`Locked`, and the second part of `Counted`), and because unlocking wakes as many as were noted. That some task is on its way is then a matter of arithmetic.
* *`Times`*: the sleeping tasks' wake times lie on the right sides of the counter (`DelayLists`); what is left of a task's time is, by its wake time or by the count of its call and what
  has passed since, the same number, less the missed ticks (`Sleeps`, `Entries`). `KernelTimeKept` holds for every width of the counter, over its wrap and for any number of missed ticks.
  The bound `InTime` is needed here: an entry that wraps twice looks young.

**Only model-checked.** All liveness (`ResetDone`, `ReportsSent`, `EnterTaken`, `ReceiverComesUp` and the second half of `ModemInitialised`, `SearchEnds`, `ScanEnds`, `TemperatureFollows`):
fairness is beyond the prover. Every invariant and every action property of the passing runs is a theorem.

## 5. Where the code departs from its documentation

Each has a run that ends in a counterexample.

* `ModesDropped` (main.c:909): entering GSM clears `sms_flag`, so a report that an input or key asked for just before is dropped.
  `README.md:16` of the repository says a requested message leads back into init and is sent.
* `PowerAT` (main.c:308, 321): a tick inside the reset block raises `GSM_init_flag` after the block cleared it and before the count
  restarts; the AT commands go to an unpowered modem, against the comment at main.c:1578. They are sent again: line 321 restarts the count, the modem is powered at 1005 and
  10000 asks once more (`ModemInitialised`). A count that is left past its number comes round to it after 49.7 days.
* `NmeaMixed` (main.c:565): the field loops stop at separators and not at the write pointer, so an incomplete sentence takes the rest of its fields
  from older text.

Other behaviour worth knowing, which the models show but no run is devoted to:

* "Confirm with Enter" (main.c:811), but a byte that arrives between the test and the copy moves the key that is taken (main.c:849 and
  its three copies): `moved` in `CommandRight`. With one byte since, Enter itself is taken, or at the ring's end a byte of foreign memory.
* A wrong CRC is recorded and unrecorded three lines later; the documented code `SEARCH_CRC_ERROR` (App.c:14) is never returned (App.c:126).
* An Enter that is stored at the last index of the ring leaves the pointer at 0, where main.c:332 and 947 look before the ring: it is not seen until another byte is typed, and then is no longer the last
  (`EnterSeen`, and `place` in `Modes`). The one at index 0 takes a byte of the memory before the ring as the command (849-854): the exceptions of `CommandRight`.
* A two-minute request that comes while another report is being sent goes down with that one (main.c:774) and has no report of its own: `TimerRequestKept` counts any report.
* A round of the converter that is still going when the next one starts (main.c:1589-1593 do not look) leaves two channels on: `overlap` in `OneChannel`.
* An input that changes between a report's copy (main.c:753) and the end of its request (775), more than two seconds later, is not reported: `late`. If it changes in
  the middle of the copy the report may carry the new inputs with the old `MessageID`.
* `GSM_atcmd_flag` is 1 at the start and after a reset (main.c:145, 310), so what is typed in the menus goes to the modem too until key 3 cuts the connection.
* The hemisphere letters of a position are read and not used: a report's latitude and longitude have no sign.

* The reset block leaves `GSM_cstmsms_flag` and the texts alone (main.c:303-330): a reset while a message is written leaves UART0 collecting text. `ResetComplete` names the flag as `Forgotten`.
* In init a mode key is obeyed (main.c:345) before a pending custom message is sent (780).
* While a message is written, Enter makes the character before it a command (main.c:947), because the handler stores the text in the same ring.
  The prompt says "Write SMS and end with \-" (main.c:1004). `TextRight` shows that the text itself is right all the same.
* The end of the GPS pulse is conditional (main.c:1566): if `GPS_start_flag` rises in that one millisecond the pin stays high. The retry is tested at 2001
  exactly (1584): with the flag up at that tick and taken down later, the counter is past it.
* When the receiver stops with the ring filled exactly to its end (`wptr_GPS` = 0), the scan compares before it wraps and goes round for ever
  (main.c:414); no report is sent and no key is taken then. This is one premise of `ScanEnds`, and `ScansEnd` that of `ReportsSent` and `EnterTaken`.
* A sign that the ring's end cuts is compared with what lies behind the ring (main.c:421, 498, 539), so one sentence in some hundreds is overlooked, and a `G` in the last byte
  may be taken for `GSV` or `GGA` if the next globals happen to look like the rest: `Cut` and `Misleading`, the premises of `ScanRight`.
* A slave that is converting sends zeros, which have a right CRC: a search in the middle of a reading can give 0 degrees. This is the
  premise of `ReadingRight`. `Counter` is not reset after a success, and 10.625 degrees counts as suspicious (main.c:728).

## 6. What is not modelled, and why

* `datastr` (1000 bytes, main.c:571) is written without a test. In a ring that is still mostly zeros an incomplete sentence makes each of
  its fields a run round the ring; what the memory behind it then does is undefined, so the model gives the buffer room.
* `GSM_sms` and `phnnmb` are filled without a test of their length (main.c:1359); `Fits` keeps what is typed within them.
* Echo: UART0 waits for the transmitter and echoes; what the user sees is left out, as are the texts of menus and read-outs.
* *Other analogue channels*: `Report` has the chain of all five; of the values only the voltage, the one that is reported.
* *Bit timing, CRC polynomials*: the search sees wires through `WireA`/`WireB`, and the CRC through the set of identifiers with a right one.
* *The rest of the kernel*: mutexes and priority inheritance, suspending, deleting and re-prioritising tasks, `vTaskDelayUntil`, software timers, co-routines, the
  heap. The firmware uses none of them, and the timer task is there only as a task above the others. The start-up of the scheduler is `Init`.
* ASF, CMSIS: modelled by what main.c uses of them. By far the most of the repository's lines are register definitions, headers, a DSP library of
  which nothing is called, and drivers that write one register a function. They have no state to reason about beside the hardware's, so the share of the
  repository's lines that the models can cover stays small: of the firmware's own lines main.c's and App.c's logic is covered nearly whole.
* Nothing is persistent, so a power cut is a new start: there is no recovery to model.

## 7. Plan

Done, in this order: `Modes`/`ModeControl`, `Power`, `OneWire`/`Discovery`, `Nmea`, `Thermometer`, `Terminal`, `Encoding`/`Report` (with the analogue chain), `Kernel`, and
proofs of every safety property. What would come next: the refinement of `Modes`' bytes by `Terminal` stated as a refinement and not only through `LastTwo`.
