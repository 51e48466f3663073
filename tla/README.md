# TLA+ models of embedded_projects

The repository holds three independent projects, and a folder of board
documents:

| part | code | what it is |
|---|---|---|
| keypanel | `keypanel/` | Linux drivers for a key panel on the SSC of an AT91SAM9G45: the real one and a virtual one |
| ADC | `adc_driver/` | Linux driver of an 8-channel ADC, a virtual one, and the test program that reads both |
| FirEngine | `firengine/` | a C++ program that schedules FIR filters on MAC units and writes Verilog, and the Verilog engine |
| DSM350 | `DSM350_Sonar_Fishfinder/` | PDF and Word documents, no code |

This directory models them in TLA+.  TLC checks the models on small instances;
TLAPS proves nearly all of the safety properties for every value of the
constants.

## 1. Inventory

### Keypanel: SSC access functions (`insync_keypanel.c` 63-112, `vkeypanel.c` 43-90)

* State: `ssc_list`, `ssc->user`, the spinlock `user_lock`.
* Operations: `in_ssc_request` (find device 0, refuse it if busy, mark it in
  use), `in_ssc_free`.
* Users: every function of the two drivers but the real interrupt handler,
  which takes `user_lock` itself.
* Hard: the test and the increment of `user` are two steps; callers retry, give
  up and free pointers they may not have.
* Correct when: one holder at a time, no holder lost, nothing freed that is not
  held.

### Keypanel: the real driver (`insync_keypanel.c`)

* State: `rx_frame`/`prev_rx_frame`, the SSC registers RHR, SR, THR, the event
  stream to user space.
* Operations: `write_LED_dataframe` (a write to the sysfs file TX_DATA),
  `insync_keypanel_interrupt` with `process_RX_data_frame`; `probe`, `remove`,
  module init and exit.
* Hard: writers against writers and against the handler; frames arriving while
  the handler runs; frames lost by overrun; a bounded retry loop; a signed byte
  in an unsigned variable.
* Correct when: THR is written only by the holder; the events add up to the
  frame read, none twice, none missing; user space converges to the panel.

### Keypanel: the virtual driver (`vkeypanel.c`)

* State: `RX_HOLDING_REGISTER`, `rx_frame`, seven timers.
* Operations: `write_LED_dataframe`, `write_RX_data` (a gesture: a first
  KEY_DOWN at once, the rest by timers), the handler, called by both.
* Hard: the handler runs in several contexts at once and shares the device
  handle with everybody; a timer that gives up loses its frame; gestures
  overlap.
* Correct when: one decoder at a time, no press overwritten in the register,
  every gesture ends with its key up, the handle always given back; the last
  two but for a call that gives up.

### ADC: driver, virtual driver, reader (`insync_adcc.c`, `vadcc.c`, `adc_test.c`, `vadc_data.c`)

* State: the enabled channels, pending end-of-conversion bits, the channel data
  registers; the last value the input core passed on and its queue to the
  reader; the reader's two-event buffer.
* Operations: `insync_adcc_probe` (channel setup), `insync_adcc_interrupt`;
  `write_vadcc`; the loop of `adc_test`; `vadc_data`, a generator of input for
  the virtual driver; `remove`, init and exit.
* Hard: one channel is served per interrupt while others convert; the two input
  events of a report can be read apart; two writers of the virtual device
  interleave their reports; the 13-bit packing at its boundaries.
* Correct when: every reading reaches the reader with its own channel, in
  order, and the last non-zero reading of every channel is what the reader ends
  up with.

### Life cycle of the drivers (all four)

* State: what `init` and `probe` have acquired (platform device, sysfs files,
  memory, input device, register mapping, interrupt, clock), `ssc_list`,
  `user_lock`, the interrupt enable register.
* Operations: `init`, `probe` with its error labels, `remove`, `exit`.
* Hard: every step can fail, each has a label of its own; the interrupt handler
  and the tasks that look the device up come in between.
* Correct when: a call that has returned leaves a whole device or nothing, the
  handler always finds what it follows, a device on the list is complete,
  nothing is released that is not held.

### FirEngine builder (`firengine/src`)

* State: the specification (`m_vFirSpec`); the MAC descriptions: time slots
  with coefficient references, update slots, Fifos, input and output signals.
* Operations: read a `.fsp` file (`firenginespec.cpp`), bind the FIRs to MACs
  and slots (`firenginedescbind.cpp`), establish the per-MAC tables
  (`firenginemacdesc.cpp`), write Verilog (`firenginemacdescgen.cpp`,
  `firenginedesc.cpp`) and an HTML report.
* Hard: integer intervals at the limits of the sample frequency, slot and Fifo
  limits, tables computed before and after a sort of the Fifos, ends by error,
  trap and assertion in the middle of the output.
* Correct when: no slot is taken twice, each update ends a whole row, updates
  come as often as samples, the buffers do not overlap, and all tables speak of
  the same order of Fifos.

### The circuit the builder writes (`firenginemacdescgen.cpp` 209-855)

* State: the time-slot counter with its delayed copies, the latches of the
  inputs, the commit chain, the data buffer and the position of each Fifo, the
  addresses of the row that is read, the products and sums of the DSP.
* Operations: one, the clock edge, with samples that arrive and reset.
* Hard: data and control must stay aligned over eleven stages; the flag "new
  sample" is refreshed only in the slot of its channel; the word for the next
  sample is computed from the row that is being read; reset clears the pipeline
  but not the buffers.
* Correct when: every output is the filter's answer to the samples taken, each
  sample is taken once and in order, and every sample is answered.  The first
  is not so (finding `fir_taps`): the samples are the right ones, but each meets
  the coefficient of the next tap.

`firengine/rtl/firengine.v` is the hand-written original of that circuit for
five fixed channels.

## 2. Plan

1. Keypanel: `SscHandle`, `SscAccess`, `KeyTracker`, `InsyncKeypanel`,
   `VKeypanel` with `VKeypanelHistory`.  Modelled, and every property that is not liveness proved.
2. ADC: `AdcFeed` (abstract), `AdcReader`, `InsyncAdcc`, `Vadcc`.  Modelled, and
   every property that is not liveness proved.
3. FirEngine builder: `FirSchedule`, `FirTables`, `FirBuilder`.  Modelled, and
   every property of `fir_builder` proved.
4. The generated circuit: `FirEngine`, on the tables of `FirTables`.  Modelled,
   and every property that is not liveness proved, from what the builder is
   proved to guarantee of a MAC (`MacsFit`) and from the conditions under which
   the circuit works at all (`CircuitAssumption`; see section 7).
5. Life cycle of the drivers: `DriverLifecycle`.  Modelled and model-checked,
   over its whole state space.

## 3. Modules

### `SscHandle`, `SscAccess`

`SscHandle` is the promise: a device with one owner, passed on only through
being free.  `SscAccess` is the code of `in_ssc_request` and `in_ssc_free`,
each task a program counter `at[t]` over the places where another task can come
in: waiting for `user_lock`, looking at the list and at `user`, taking the
device, dropping it.  `kp[t]` is the caller's local pointer: nothing, the
device, or one of the two error pointers.  Both drivers EXTEND the module and
call `RequestCall`, `FreeCall` and `Abandon` (a return, which forgets the
pointer) from their own actions.

`in_ssc_free` reads `ssc->user` of whatever it is given.  Given an error
pointer the task dies there (`FreeOops`).

`SmpBuild` is the one switch.  FALSE is the target, the single core
AT91SAM9G45, where `spin_lock` compiles to `preempt_disable`: it keeps tasks
apart, and the interrupt handler goes straight through it.  TRUE is a kernel
with real spinlocks, where the handler waits for `user_lock` like everybody
else.  The proofs cover both values.  On the single core a timer softirq runs
to its end between two instructions of a task; treating it as one more task
that can be interrupted only adds behaviours.

### `KeyTracker`

What the decoding of key frames promises user space: a frame is latched only
when the one before has been reported, and every event moves user space's
picture by one key towards it.

### `InsyncKeypanel`

| state | code |
|---|---|
| `pc`, `tries`, `led` | where a task is in `write_LED_dataframe`, its locals |
| `rhr`, `sr`, `thr` | the SSC registers the driver reads and writes |
| `rx` | `rx_frame`; `prev_rx_frame` is its value before `IsrLatch` |
| `ipc`, `xor`, `keyId`, `max` | where the handler is in `process_RX_data_frame`, its locals |
| `event`, `view` | the last event dispatched, and the keys that are down as the events tell it |

| actions | code |
|---|---|
| `StartWrite`, `Retry`, `GiveUp`, `Transmit`, `EndWrite` | `write_LED_dataframe` between its calls |
| `Access` | a step inside the two access functions |
| `IsrEnter`, `IsrStatus`, `IsrLatch`, `IsrKey`, `IsrSkip`, `IsrRotary`, `IsrReturn` | `insync_keypanel_interrupt` and `process_RX_data_frame`, one turn of the key loop per step |
| `FrameArrives` | the SSC hardware (external) |
| `ProbePublish` | the last step of `in_keypanel_probe` |

The model starts when `probe` has everything but the `list_add_tail` behind it,
with the sysfs file already there.  ENDRX stands for "a frame is in RHR" and is
acknowledged by reading RHR; reading SR clears OVRUN.  The log line for an
overrun is left out.  The code does not wait for TXRDY before it writes THR; the
model ends at the register, and does not say what is shifted out.

### `VKeypanel`, `VKeypanelHistory`

Three functions share a retry loop (`InTime`, `Retry`, `GiveUp`): the LED
write, the gesture write and the handler, the last called by gesture writers
and timers alike, so `fn[t]` says which one a task is in.  `due` holds the
timers, counted in steps of 200 jiffies; time moves (`Tick`) only when no
handler is at work and no timer is due, since a handler's eight retries take
some 8 ms.  `wrecked` records that `init_timer` was applied to a pending timer;
what a kernel does after that is not modelled, the model stops.  The loop over
the keys is one step per changed key (`InsyncKeypanel` has it bit by bit).
The handler's branch for a rotary value is left out: a gesture is of a key of
the panel, and its frames, `1 << key` and 0, have no rotary bits.

`VKeypanelHistory` adds two bits of history to the driver, and nothing that a
step depends on.  A call that runs out of tries returns without the device or,
if its last request was granted, with it.  `leaked` records that a LED write or
the handler has given up with the device in hand, `lost` that the handler has
given up, so that its frame was not delivered.  With these the promises that the
code breaks in this one way can be stated of all its interleavings:
`HandleLostByGiveUp` says that the device is marked in use without a holder if
and only if `leaked`, `KeyStuckByGiveUp` that after `lost` alone a key can still
be down when all gestures have been played.

The runs are those of an SMP build.  A task that dies in `in_ssc_free` keeps
`user_lock` there, and a `wrecked` timer wheel stops the model: the system may
really stop, and these runs do not check for deadlock.

### `AdcFeed`, `AdcReader`, `InsyncAdcc`, `Vadcc`

`AdcFeed` is the promise: a reading is posted with its channel, and the program
learns of every posted reading, in order.  `AdcReader` is what both drivers
have before them: `input_report_abs` (which drops a value equal to the last
one) and `input_sync` (which drops an empty report), the queue of the event
device, and the loop of `adc_test.c` with its two-element buffer `adc_ev`.
`InsyncAdcc` puts the conversions and the interrupt handler in front of it,
`Vadcc` any number of tasks in `write_vadcc`.

`whole`, chosen at the start from `EventDevices`, tells two behaviours of the
kernel's event device apart: newer ones show a report to the reader when its
SYN_REPORT is there (TRUE), older ones show each event at once (FALSE).  The
repository does not say which kernel it runs on, so both are checked.  `Stale`
is what `adc_ev`, which is not initialised, may hold; when it looks like an ABS
event and the device shows single events, a first read of one event takes it for
a reading.  `StaleHarmless` says that this is not so, and is what the properties
about the readings that arrive depend on.  `Posted`, the readings on their way
in a queue of whole reports, goes by position: the odd places hold the ABS
events, as `WholeReports` says.  What is written to `Vadcc` is a pair out of
`Pairs`, and `NothingInvented` asks that the channel and the reading the program
is told come from one such pair.  `Vadcc` keeps the 29 bits of a number that
`y << 3` leaves; `NothingInvented` is stated of those.

### `FirSchedule`, `FirTables`, `FirBuilder`

`FirSchedule` has the calculations of `firenginedescbind.cpp` as operators on
MAC descriptions: `Interval`, `CanBind`, `ValidBinding` (first fit over MACs and
origins), `Bound`.  A FIR is its number of coefficients and `half`, the whole
part of 2 * clock / sample rate: that is all the comparisons and divisions of
`bindFir` see.  `FirTables` has the tables of `firenginemacdesc.cpp` as
functions of a MAC, the sort of the Fifos (any order of equal sizes, which
`std::sort` leaves open), their addresses, the coefficient buffer, and the
assertions of the generator (`Generable`).  `WholeMac` and `WholeBuffers` say
what the circuit can rely on of those tables.

`FirBuilder` is the program around them:

| state | code |
|---|---|
| `phase` | what `buildFirEngine` is doing, or how it ended: by an error message (`failed`) or by a trap or assertion (`aborted`) |
| `spec` | `m_vFirSpec` |
| `macs`, `numFirs` | `m_vFirEngineMacDesc`, `m_NumFirs` |
| `rtl` | per MAC, the tables that were written to its file |

| actions | code |
|---|---|
| `ReadSampleRate`, `ReadCoeff`, `SyntaxError`, `EndOfFile` | a line of `readFromFile`, by what it does to the specification |
| `BindFir`, `RejectFir`, `DivideByZero` | `bindFir` |
| `StartGenerating`, `GenerateMac`, `AssertionFails`, `Finish` | `buildFirEngine`, `generateRtl` |

### `FirEngine`

The circuit of one MAC, with the tables `FirTables` gives for the FIRs of the
constant `Filters`.  One action, `Clock`, is a clock edge; its conjuncts are the
`always` blocks of the generated Verilog, each named for what it does.  `ps[n]`
is the time slot in stage n.  Registers with an asynchronous reset go through
`Clocked`.  A sample is its number; a product is the pair of a coefficient and
a sample, a sum the sequence of the products since its first tap, so that an
answer can be compared with the one of the filter term by term.  The DSP48E2
is a primitive; `Dsp` has the registers that the parameters of its instantiation
give it: one for a coefficient before the multiplier (`AMULTSEL` "A", `AREG` 1),
two for a sample (`BREG` 1, then `ADREG` 1, since `BMULTSEL` is "AD" and
`PREADDINSEL` "B"), then those of the product and the sum.  The sources of the
samples are external and send at most one sample per period, at any clock.  `pushed`, `sent`, `since`, `outputs` and `resets` are
history.

What the module assumes of `Filters` is named.  `BuiltAssumption` and
`GeneratedAssumption` are `WholeMac` and `WholeBuffers` of its MAC, which
`FirBuilder` guarantees of every MAC it generates whose FIRs have intervals that
divide the round and more than one coefficient (`MacsFit`).
`CircuitAssumption` is what the builder does not see to: the slots are a power
of two, every FIR has four taps at least and three slots more between its
updates, and the sort of the Fifos changes nothing.  The run lists the FIRs in
`Filters` with the longer first, so that it does not (the finding `fir_order`).

### `DriverLifecycle`

The routines of the four drivers are sequences of steps: `Get` acquires or fails
(then the steps of its label, and those of the caller, follow), `Do` cannot
fail, `Put` releases.  `Goto` cuts the tail off a chain of labels.  Where
`platform_driver_probe` or `platform_driver_register` calls `probe`, its steps
follow those of `init`; `remove` comes before the steps of `exit`.  The actions
`Acquire`, `AcquireFails`, `EnableInterrupts`, `Release`, `TakeLock` and
`GiveLock` run them.  `todo` is what remains of the call in progress, `held`
what is acquired, `wrong` what was released without being held.  A task on its
way through `in_ssc_request` is represented by its precondition
(`ListedIsWhole`): what it would find under `user_lock`.

## 4. Runs

| run | question | result | distinct states |
|---|---|---|---|
| `keypanel_handle` | two LED writers, single-core scheduling: is the handle exclusive and never lost, THR written under it, does each write end? | holds | 215,730 |
| `keypanel_decode` | SMP build, frames of three keys and a rotary byte at any time: do the events add up to the frames, and converge to the panel at rest? | holds | 205,626 |
| `keypanel_give_up` | is what a write gives back always the device? | violated | |
| `vkeypanel_shared` | a LED writer, a gesture writer and three timers: one decoder at a time, no press lost from the register, events that track the frames, handle and KEY_UPs lost by nothing but a call that gives up? | holds | 3,074,342 |
| `vkeypanel_pending` | are only timers initialised that are not pending? | violated | |
| `adcc` | two channels, whole reports or single events: is no reading skipped or given to another channel; with whole reports, does every reading arrive once, in order, and the last one stay? | holds | 135,470 |
| `vadcc_two` | two writers: is what the program is told of a channel a reading written together with it? | holds | 16,189 |
| `fir_builder` | every file of up to three FIRs: are rows whole and apart, updates in time, buffers apart and filled right, bad files refused? | holds | 81,460 |
| `fir_order` | do the slots of a MAC read the Fifo of their own FIR? | violated | |
| `fir_engine` | the circuit of two filters, samples and a reset at any clock: is every answer a sum over exactly the samples taken, in order, and every sample answered? | holds | 588,133 |
| `fir_taps` | is every answer the filter's: each sample with its own coefficient? | violated | |
| `lifecycle` | the four drivers loaded and unloaded with every possible failure: nothing left behind, nothing half bound, handler and list safe? | holds | 524 |

### What the violations show

* `keypanel_give_up`: the retry loop of `write_LED_dataframe` tests `tries > 7`
  after a request whose result it has not looked at.  When that request failed
  too, `in_ssc_free` gets an error pointer and reads through it.  When it
  succeeded, the device is given back, but the frame dropped and a failure
  reported.  `write_RX_data` in `vkeypanel.c:426` has the same code.
* `vkeypanel_pending`: a second gesture initialises the timers of the first.
* `fir_order`: `generateRtl` establishes RDFIFONUM and UPDATEFIFONUM, then sorts
  the Fifos, then writes FIFOSIZES and the coefficients.  When a MAC has a short
  FIR bound before a longer one, each reads the other's buffer.
* `fir_taps`: coefficient and sample of a time slot leave their buffers in the
  same clock (`firenginemacdescgen.cpp:365` and `:395`) and go to the ports A and
  B of the DSP (`:581`).  By the parameters of the instantiation the coefficient
  passes one register before the multiplier, the sample two (`:503` to `:543`).
  So each sample is multiplied by the coefficient of the next slot: the first
  coefficient of a FIR meets no sample of its row, and the last sample meets the
  coefficient of the slot behind the row.  Lines 177 and 178 speak of the
  "first tap of the section of FIR" and of the product "B*A".  The first answer
  of a filter shows it: its newest sample comes with the second coefficient.
  `rtl/firengine.v` has the same parameters.

### Bounds

* `MaxTries` is 7 in the code, and 7 in the violation run that depends on it.  The passing runs use 0 to 2: the loop body is the same at each turn, and
  each bound still has a request before the loop, one that is looked at again,
  and one that is given up on.  The proofs hold for every `MaxTries`.
* Two writers: a third adds no new conflict to a handle that is free or held;
  the proofs cover any number.
* Three keys, two of them "few": a change below the cut of the loop, one above,
  and both.  Rotations 0, 3 and 253: none, one of each sign.  The virtual
  driver's runs have one key, single and double presses and all timers of these:
  its keys share the register, the handle and the timers, and a gesture has one
  key.  The loop over several keys is in `keypanel_decode`, and the proofs cover
  any keys and all gestures.
* `QueueCap`: a driver begins a report only while at most so many events wait
  for the reader.  With 2, two reports of two events each can be split over
  reads in every way.  A queue that overflows is not modelled.
* Each ADC channel gives readings no other channel has (with 0 and the top of
  the range among them), so that a reading given to the wrong channel shows.
  The virtual driver is given pairs of numbers inside and just outside both
  ranges, no two with the same reading, and one, 2^29 + 5, of which the shift
  leaves 5.
* The builder: 16 time slots; FIRs 0 to 2, in any order and with gaps, each line
  at any time before the end of the file and again; 1, 3, 4 or 6 coefficients;
  the sample rates that give `half` 0 (too fast), 1 (the division by zero), 8
  and 32 (intervals that divide the round) and 12 (one that does not).
  `MaxInputs` is 2 where the code has 15, so that a MAC fills up.
* The circuit: 16 time slots, filters of 5 and 4 coefficients, which share a MAC
  and have circular buffers of 8 (with words that are never read) and 4 words.
  The second source sends 5 samples, one more than its buffer has words, so
  that positions wrap; the first 2, so that both orders of arrival occur at any
  distance.  With a reset after power-up (`MaxResets` 1, at any clock, of any
  length) each source sends one more sample at most (`ResetSamples`).
* The life cycle needs no bound: a module is loaded and unloaded any number of
  times.

### Fairness

* The handler: an interrupt that is raised is served, and its steps go on.
* A task inside the driver runs on (weak fairness).  On the single core no task
  is scheduled while another is between `spin_lock` and `spin_unlock`, so one
  that waits for the lock gets it again and again: strong fairness of taking
  the lock, in the run with `SmpBuild` FALSE.
* `probe` finishes.  Nobody has to write, press or convert.  Nothing is assumed
  of the virtual driver: its properties are safety.
* The circuit: the clock runs and reset does not stay high for ever, stated as
  `[]<><<Next>>_vars` (the step is always possible; while reset is held it
  changes nothing).  The sources need not send.

## 5. Proofs

`SscAccessProofs` proves the two access functions for any set of tasks, and any
driver that uses them:

* `SscInvariance`: `SscInv` is inductive.  A task between `spin_lock` and
  `spin_unlock` is the one in `lock`, so two are never there together, and what
  it saw of `user` when it looked is still so when it takes the device.
  Exclusion alone is not inductive: it needs `user = 0` at the place where the
  device is taken, and that needs the lock.
* `SscExclusive` and `SscImplementsHandle` follow: one holder, and the abstract
  handle of `SscHandle` is implemented, the owner being the task whose pointer
  is the device.

`InsyncKeypanelProofs` proves the driver for any tasks, retries, keys, frames
and rotations:

* `AccessImplemented`: every step of the driver is a step of `SscNext` or
  leaves the access state alone.  `HandleExclusive` and `HandleSpec` are carried
  over with it.
* `Invariance`: `IInv` is inductive.  Its parts: `TypeOK`; `SscInv`;
  `HandleOwned`; `CallInv`, which ties where a task is inside the access
  functions to where it is in `write_LED_dataframe` (without it, a task could
  return while it holds the device and `HandleOwned` would not be preserved);
  `DecodeInv`, which says that the bits left in `xor` are what user space has
  not been told, all of them ahead of the loop and below its end (without it,
  the loop that is cut short at ten keys could leave one behind).
* From it: `TypeCorrect`, `Owned`, `Serialized` (THR is written by the one
  holder), `ViewCorrect`, `LoopComplete`, `NoRepetition` and
  `ImplementsTracker`.

`VKeypanelProofs` does the same for the virtual driver, with any writers,
timers, gestures, keys and retries:

* `AccessImplemented`, `Exclusive`, `ImplementsHandle`: as above.
* `Invariance`: `IInv` is inductive.  `CallInv` again ties the place in the
  access functions to the place in the caller, here one of three functions;
  with it, a task that decodes holds the device, so there is one (`HolderDecodes`).
  `DecodeInv` says that user space's picture, `rx` and the one `xor` that is not
  empty agree.  From it `TypeCorrect`, `SingleDecoder`, `PressStays`,
  `ImplementsTracker`.
* `HistoryInvariance`, `HandleKept` and `KeysReleased`: the same driver with its
  history, for any writers, timers and contention.  That the handle is never
  lost and that every key comes up are false of the code, for one reason each
  (section 7); what is proved is that there is no other.  `HistoryInv` adds to
  `IInv`: a task past its use of the device has it only while it is in
  `in_ssc_free` (`GivenBack`); a timer does nothing but call the handler, which
  never frees an error pointer (`HandlerCalls`); while a timed press is pending or
  under way, its release is pending for a later time (`ReleasesDue`); and unless
  `lost`, a key in the register has its presser still on the way to the latch,
  and a key in `rx_frame` its writer still in the handler, or a release that is
  pending or about to deliver (`KeysComing`).  That a release comes after its
  press is in the delays of `first_press`, `press` and `press_and_hold`
  (`DelaysDiffer`).

`AdcReaderProofs` has lemmas about the event stream, for both ADC drivers: what
a turn of the reader takes and chooses, that events keep coming from reports of
the driver's values (`Reports`), that a first short read does not reach the
uninitialised element when reports are whole.  On them:

* `InsyncAdccProofs`, for any channel mask and any values the channels give: `IInv`
  is inductive.  `OwnReadings` is not so alone: it needs that what is in the
  handler's locals, in the queue and in `adc_ev` belongs to its channel.
  `ReportsApart` (between two ABS events there is a SYN_REPORT) gives
  `NoneSkipped`: a read of two events has one of them at most.  `WholeReports`
  (the ABS events are at the odd places) gives `ImplementsFeed`, the refinement
  of `AdcFeed`: every report posts one reading, every turn of the reader takes
  the oldest one or none.
* `VadccProofs`, for any finite set of writers and any integers: what is on its
  way passed `Accepts` for its writer, and the queue has two places left for
  each writer that is to report and one for each that is to sync (`RoomKept`).  `ToldIsWritten` follows by the
  arithmetic of `Pack`: a number on its way determines the channel and the
  reading of the pair it was packed from.
* `ReadingsOwn` and `ToldIsWritten` have the hypothesis `StaleHarmless`, for the
  reason given in section 3; the other theorems do not.

`FirBuilderProofs` proves the builder for any file, any number of time slots up
to 2^30 and any number of inputs per MAC:

* `Invariance`: `IInv` is inductive.  `RowsWhole` and `UpdatedInTime` are about
  single FIRs; that binding the next FIR keeps them needs `InputsServed` (what
  is in a slot belongs to an input of the MAC, so that `canBind` sees it) and
  `FirsFit` (a row is not longer than the interval, so that the rows of one FIR
  do not overlap: the last row that `bind` writes does not cut the first).
* From it `TypeCorrect`, `RowsAreWhole`, `UpdatesInTime`, `BindingKeepsSlots`, and
  with what `GenerateMac` leaves (`RtlWhole`) `WholeBuilds`.
* `BuffersApart`: `FifoOffsets` is a recursive function.  Where an argument by
  induction is needed (that it is defined, that regions follow one another, that
  each begins at a multiple of its size), it is made by the least
  counterexample: the lemma `MinOfNats` gives the smallest index at which the
  claim fails, and the equation of the function refutes it.  Since the Fifos
  are sorted by size and the sizes are powers of two, an aligned region is
  followed by aligned ones.
* `MacsAreFit` gathers what the circuit relies on.  It adds one fact to `IInv`, the
  invariant `FirstSlot`: the FIR for which a MAC is made has origin 0, since
  every origin of a new MAC is free and the lowest is taken.

`FirEngineProofs` proves the circuit for any filters that fill one MAC under the
assumptions of section 3, any number of samples and of resets, resets at any
clock and samples at any that the sample rate allows:

* `NextInv`: `IInv` is inductive.  It names one number, the clocks `a` since the
  last reset, and says of each register what it holds as a function of `a`:
  stage n has time slot a - 1 - n (`CounterInv`), and in it the entries of the
  tables for that slot (`TableInv`); a commit is that of an update after the
  reset (`CommitInv`); the addresses, the operands and the sum in stages 1 to 9
  are those of the row that ends at the update d slots on (`PositionInv`,
  `OperandInv`, `SumInv`), down to the outputs (`OutInv`).  `BufferHoldsWindow` is
  a part of it and not inductive alone: a sample is written where the row before
  it has computed the next word to be.
* While the pipeline fills after a reset nothing may be written, which is what
  `doUpdate_EnableCounter` is for; `a` is 0 while reset is held, and the buffers
  stay as they are.  What holds only before any reset is stated apart
  (`SamplesInv`): the flags of each channel tell the samples sent, latched and
  selected up to an even number (`FlagInv`), at most one sample waits, or two in
  the very clock in which one of them is selected (`WaitInv`), what is selected
  is the next in order (`OrderInv`), and one answer at most is on its way
  (`AnswerInv`).
* That a row does not read a word that the pipeline is still writing is where the
  conditions on taps and intervals enter; that updates of other channels between
  do no harm is where the regions that do not overlap do.
* From it `TypeCorrect`, `BuffersHoldWindows`, `AnswersHold` (an action property:
  what is on the output when its flag changes has the samples of the whole
  window in order, each with the coefficient of the next tap, and stays there for
  that clock) and `InOrder`.
* `NoAnswerIsAWindow` is the finding `fir_taps` for all filters: an answer that
  holds as `AnswersHold` says begins with the second coefficient, the filter's
  with the first.

Each of these two modules has the lemmas it needs of `Min` and `Max`, which the
community modules define by CHOOSE: the least of any non-empty set of naturals,
the least and greatest of two, the greatest of a range.

The assumptions are those named in the modules: `Nobody` and `Outside` are not
tasks, `MaxTries` and `NumKeys` are naturals, `FewKeys` is at most `NumKeys`,
rotations are bytes and 0 is one of them; the sets of writers and timers are
disjoint, and the timers of every gesture that is used are there
(`TasksAssumption`, `GesturesAssumption`); channels measure 10 bits
(`MeasuredAssumption`), the writers of the virtual ADC are finitely many and
write pairs of integers (`PairsAssumption`), and the value in `adc_ev` is one (`StaleAssumption`); there is at
least one time slot and no more than 2^30 (`SlotsAssumption`), the largest power of two that
`RoundUpToPowerOfTwo` can give, and no more inputs to a MAC than channel numbers
(`ChannelsAssumption`; the code has 15 of both); and for `FirEngine` those of
section 3.  Its MAC is computed from `Filters` by a fold, about which nothing can
be proved here.  So `MacsAreFit` is not applied to it by the prover: the two
modules share `WholeMac` and `WholeBuffers`, the one proves them of every MAC it
generates, the other assumes them of its MAC, and TLC evaluates them there.

Only model-checked:

* The liveness properties `WriteEnds`, `KeysConverge`,
  `LastReadingTold` and `EverySampleAnswered`, which are beyond the prover.
* `DriverLifecycle`.  It has no constants: the 524 states TLC visits are all it
  has, and a proof would add nothing to them.
* What the violation runs refute is false, and there is nothing to prove.

## 6. Not modelled

* A handler or timer that spins on a lock held by the task it interrupted on
  the same CPU of an SMP build: the models do not say on which CPU a step runs.
* What holds a module in memory: writers inside a sysfs file while it is
  removed, timers that outlive it.  `DriverLifecycle` has no writers; the
  drivers' modules start with `probe` behind them.  See section 7.
* An interrupt that a boot loader left enabled.
* The parsing of what is written to the sysfs files, messages, the LED bits.
* Gestures of numbers that are no key of the panel, which `write_RX_data` does
  not refuse: 24 to 31 make a rotary frame.
* The text of the builder's input and output: characters of the specification
  file (`stringmatchstream`), options, the top level's port lists, the HTML
  report, style sheet, date.
* The values of coefficients, and the scaling of sums to outputs.
* Of the generated circuit: buffer B and the D input of the pre-adder (off in
  every slot the builder writes), the coefficient write port (tied to 0 by the top level), and
  the chaining of MACs, which the binder never does.
* `rtl/firengine.v` and `sim/tb_top.v`: the hand-written original with its five
  channels, and its stimulus.
* Build files, scripts, IDE project, generated Verilog and board documents;
  `vadc_data.c`, which prints random numbers; `insync-ssc.h`, a list of offsets.

## 7. Seen while modelling, without a run of their own

Keypanel

* `insync_keypanel.c:209`: the rotation is an unsigned int, so `encoder > 0` is
  true of every turn and IN_KP_EVENT_ROTARY_LEFT_TURN is never sent, although
  `insync_keypanel.h:90` calls it an 8 bit signed value.
* `insync_keypanel.c:219`: the input core drops an ABS event equal to the last
  one, so two equal rotations in a row reach user space as one.
* `insync_keypanel.c:303`: THR is written without waiting for TXRDY.
* `insync_keypanel.c:244`: an overrun is logged only when no frame is ready.
* `vkeypanel.c:231` and `:283`: the handler and the LED write return at
  `tries > 7` without freeing a device that the last request may have got.  The
  device then stays in use for ever.  `HandleLostByGiveUp` says that this is the
  only way to lose it.
* A timer of the virtual keypanel that finds the device busy for its eight
  requests drops its KEY_UP, and the key stays down for user space, against
  `vkeypanel.h:117`.  `KeyStuckByGiveUp` says that this is the only way for it to
  stay down.

ADC

* `insync_adcc.c:340` enables channels while `i < 7`, where line 339 says "set
  all 8 channels 0 - 7" and line 108 "default: all 8 channels enabled".
  Channel 7 is never converted (`LoopChannels`).
* `adc_test.c` asks for two events, does not look at how many it got, and
  processes what an earlier read left in the second element.  With single
  events, three short reads in a row make that an older reading than the one it
  has; at the first read it is what the stack held.  `LastReadingTold` is
  therefore stated for whole reports; `NoReadingSkipped` holds for both.
* `vadcc.c:50` tests the packed value.  It refuses reading 1023 of channel 7
  and lets reading 0 of channels 1 to 7 through, for which the real driver
  sends nothing (`insync_adcc.c:185`); and `y << 3` may lose the high bits of a
  number before it is tested, so that 536870916 is accepted as reading 4.
* Two writers of `vadcc.c` can put two ABS_Y events into one report, of which
  `adc_test.c` processes the first.  The real handler cannot do that.

Life cycle (`ReleasesOwned` leaves these out by name)

* All four drivers call `input_free_device` after `input_unregister_device`: the
  reference is given up twice.
* `insync_adcc.c` ignores the result of `platform_device_register`, and its exit
  unregisters the device all the same.
* `vadcc.c`: a failure of `alloc_chrdev_region` is ignored; when there is no
  input device, `PTR_ERR( NULL )` is returned, which is success; cleanup then
  unregisters what is not there.
* `vkeypanel.c:722` uses the result of `platform_device_register_simple`
  untested.  No driver removes all the sysfs files it made: they go with the
  device's directory.
* `exit` and `remove` of `vkeypanel.c` do not delete its timers.
* `insync_keypanel.c:549`: `free_irq` waits under `user_lock` for a handler that
  waits for `user_lock` on an SMP build; and a writer that got its handle before
  `remove` goes on with freed memory, against line 94, "device clocked from init
  to remove".
* Events of an interrupt between the write of IER (`insync_keypanel.c:494`) and
  `input_register_device` reach nobody, while `rx_frame` counts them as told.

FirEngine

* `firenginedescbind.cpp:138` means to round the interval to a divisor of the
  slots; its two divisions need not give one.  With 32 slots, an interval of 5
  and origin 2 the round starts again 7 clocks after the last update, where
  samples come every 6.  The rows of such a FIR overwrite one another when it
  has enough taps.  `UpdatedInTime` and `RowsWhole` are stated accordingly.
* `firenginedescbind.cpp:131` compares with twice the clock, its message says
  half; a FIR between ends the program by a division by zero.
* `canBind` keeps a new FIR's updates off the slot two after an earlier FIR's,
  but not the other way round, although `firenginedesc.h:30` says that no update
  can occur on a read slot; this makes a difference only for FIRs of up to two
  taps.
* A FIR with fewer than four taps computes the word for its next sample from
  the Fifo of the slot three before its update, which is another's
  (`firenginemacdescgen.cpp:328`).  The run has filters of four and five.
* A FIR needs an interval of at least its taps and three, or a window is read
  before the sample before it is in.
* The slot counter wraps at a power of two; with another number of slots the
  tables have gaps.
* Two FIRs of one tap share the two words of one circular buffer.
* A FIR without coefficients (a gap in the numbers of the file), or with more
  than 64, ends the program by an assertion after other files were written.
* A coefficient of 1.0 becomes -1.0 (`firenginemacdesc.cpp:235`).
* `matchUInt` takes numbers modulo 2^32.
* `firenginedesc.cpp` names the instances `<name>_fir` (line 87) and the modules
  `<name>_fir<k>` (line 130).
* A reset clears the previous-sample flags but not the buffers: the sample
  before it may be taken again, one in the pipeline is dropped.  What is in the
  buffers is still answered in order (`AnswersHoldSamples` holds across it).
* `CircuitAssumption` has four conditions that nothing in the builder checks: a
  number of slots that is a power of two, four taps at least, an interval of at
  least the taps and three, and Fifos that the sort leaves where they are.

Caught only in part

* The deadlock of `free_irq` under `user_lock`, and a writer that outlives
  `remove`: the life-cycle properties say what a request finds, and do not see
  a handler that blocks.
* What `adc_test.c` leaves in its second element and processes again:
  `NoReadingSkipped` says only that nothing is skipped.
* A sample rate of 0 in the specification file is not among those of
  `fir_builder`.
* An interval that does not divide the slots: `UpdatedInTime` has the bound of
  two intervals there, so it does not show that samples may come faster.
