# TLA+ models of the F450 AMP flight controller

The repository is the flight controller of an F450 quadcopter on a dual-core
Milk-V Duo: a FreeRTOS core flies, a Linux core sends configuration, heartbeats
and stops through shared memory and a mailbox doorbell. This directory models
the parts of both cores in which order, time and failure matter, checks them
with TLC and proves with TLAPS, for every value of the constants, the safety
properties of both flight loops, of the channel between the cores and of the
sensor chain, and two refinements.

There are two realtime programs in the repository, and both are modelled, down
to the byte streams, buses and memory they share with the rest:

- `comm_main.c`, the bring-up firmware, a single C file whose CMDQU task polls
  UART, sensors, shared memory and motors (`BringupLoop`, `SensorProbe`,
  `FlightMath`, `MotorMath`, `Cmdqu`, `I2cBus`, `IbusParser`);
- `rt_core/`, the modular C++ flight loop that is to replace it
  (`FlightRtNode`, `RtosTransport`, `CmdRing`, `IbusParser`).

The Linux process (`linux_core/`) is a part of each of these compositions and
has a model of its own, `LinuxNode`, against the firmware's command path.

## Inventory

| Part | State it keeps | Operations | Talks to |
|---|---|---|---|
| Bring-up poll loop (`comm_main.c`, `ibus_probe_poll_once`) | RC channels and two stamps, arm gate (`g_rc_*`), sensors ready, motor outputs, ESC delay, last slot numbers, gains | one poll: drain UART, probe sensors, failsafe, poll region, arm gate, safety decision, mix, PWM, report | shared region, UART, I2C, PWM |
| CMDQU task and mailbox ISR (`comm_main.c`) | FreeRTOS queue, mailbox slots, address of the region | receive, poll, ACK | Linux doorbell |
| `FlightRtNode` | arm state, setpoint, timeouts, due time of the control step | one cycle per millisecond | transport, receiver, controller, actuator |
| `RtosCmdquIsrTransport` | last slot numbers, doorbell ring | `poll`, `publish`, `onCmdFromMailbox` (ISR) | shared region, loop |
| `Receiver` | IBUS frame buffer, last sample and its time | `poll`, `hasLink` | UART, loop |
| `Controller`, `Actuator` | arm state, setpoint, gains, integrators; PWM | `update`, `applyConfig`, `output`, `stop` | loop |
| Bit-banged I2C (`comm_main.c`, `bb_*`) | two pins | read and write registers | sensors |
| Sensor probe (`comm_main.c`, `amp_i2c_probe_once`) | which sensors are set up, calibration, level trim, body rates and angles | one probe | I2C, poll loop |
| IBUS parsers (`ibus_parse_byte`, `Receiver::pushByte`) | bytes of a frame | one byte | UART |
| `MailboxTransport` (Linux) | sequence counters, mapping of the region | `sendSetpoint`, `sendArm`, `sendHeartbeat`, `sendEmergencyStop`, `sendConfig`, open | shared region, `/dev/cvi-rtos-cmdqu` |
| `TelemetryNode` (Linux) | active config, heartbeat number, RC timeout | loop, CLI, INI reload, `pushConfig` | `MailboxTransport` |
| `protocol.hpp` | - | slot layout, CRC, identifiers | both cores |

Hard behaviours, all listed with their lines under `hazards` in `PROJECT.json`:

- both cores touch the region concurrently with every step of a poll;
- the clock advances inside a poll, and several timeouts read it at different
  places;
- ISR and loop share a lock-free ring that may overflow;
- Linux may restart and number its slots from the beginning, or die between two
  stores of a slot;
- commands and answers get lost in full queues and mailboxes, and answers come
  after the wait for them has timed out;
- bytes are lost on the serial line, sensors refuse bytes, a PWM write fails
  half way, and the firmware restarts in the middle of a bus transaction;
- stops, clears, configs and pilot inputs arrive in any order;
- a probe of the sensors may fail at any of a dozen transactions and leaves the
  rest of its state to the next one;
- limits: NaN and out-of-range gains, mixer saturation, tick 0 as a sentinel,
  truncating integer arithmetic in attitude and control.

What makes each part correct: motors run only when every condition holds and
stop in bounded time when one ceases (both loops); arming needs the pilot
(both); a stop is obeyed wherever it lands (both); a published config comes into
force (`FlightRtNode`); gains stay in range (`comm_main.c`); the ring is a FIFO; a
slot whose number is used once is never kept torn (`RtosTransport`); an answer means that the command was obeyed
(`LinuxNode`); a transfer moves the bytes it claims and frees the bus
(`I2cBus`); sensor data that is used is current and calibrated (`SensorProbe`);
the loops push against the motion and with the stick (`FlightMath`); a parser accepts what was sent and finds its way back
(`IbusParser`).

## Modules

| Module | Models | Notes |
|---|---|---|
| `MotorMath` | throttle floor, mixer, trim, minimum spin, range check of gains | operators only; the corrections are inputs inside the controller's clamp |
| `FlightMath` | square root, arc tangent, attitude, setpoints, rate and angle loops | operators only, on top of `MotorMath` |
| `SensorOutcome` | what a poll sees of a probe | abstract specification; `BringupLoop` uses it as a part |
| `SensorProbe` | `amp_i2c_probe_once`, one step per bus transaction | implements `SensorOutcome` |
| `BringupLoop` | one poll of `comm_main.c`, clock, Linux | four steps per poll, cut where the code reads the clock or shared memory |
| `MCBringupLoop` | | frames, corrections and configs for TLC |
| `FlightRtNode` | one cycle of `FlightRtNode::run` with transport and receiver, mailbox ISR, Linux | cut at slot reads, ring accesses and clock readings |
| `MCFlightRtNode` | | samples and publications for TLC |
| `CmdRing` | `onCmdFromMailbox` and `popCommand`, one step per memory access | implements `BoundedFifo` |
| `RtosTransport` | `publishSlot` and `poll` with its parse functions, one step per memory access, crash of Linux | composes `CmdRing` with the slots |
| `Cmdqu` | mailbox slots, `prvQueueISR`, `prvCmdQuRunTask`, `amp_shared_region_poll_once` word by word | the firmware's half of `LinuxNode` |
| `LinuxNode` | `TelemetryNode` over `MailboxTransport`; the driver behind the ioctl is external | composes Linux with `Cmdqu` |
| `I2cBus` | `bb_*`, one step per pin operation; the sensor is external | 8-bit bytes |
| `IbusParser` | both parsers on one byte stream | 32-byte frames, real checksum |
| `MCRtosTransport`, `MCLinuxNode`, `MCI2cBus`, `MCIbusParser`, `MCSensorProbe` | | instances for TLC |
| `BoundedFifo` | what the ring promises | abstract specification |
| `BringupLoopProofs` | | lemmas and theorems about the bring-up loop and `MotorMath` |
| `SensorProbeProofs` | | about `SensorProbe` and `FlightMath` |
| `I2cBusProofs`, `IbusParserProofs` | | about `I2cBus` and `IbusParser` |
| `CmdRingProofs`, `RtosTransportProofs` | | about the ring, and about the slots around it |
| `FlightRtNodeProofs`, `LinuxNodeProofs` | | about the two modules of their name |

Correspondence. Variables carry the names of the C globals and C++ members.
In
`BringupLoop`, `PollEnter` and `RxFrame` are lines 2391-2466 of
`comm_main.c`, `Decide` is the sensor probe, the failsafe test and
`amp_shared_region_poll_once`, `Gate` is the arm gate, the safety decision and
the control outputs, `Apply` is `motor_apply_outputs` and the report.
`LinuxStart` is `MailboxTransport::open` in a new process, `InitShm` the firmware's
half of its announcement, and `region` the shared memory at every address that
was ever announced. The variables `low_since`, `masked`, `stop_at` and `stop_held`
are history: no other variable depends on them. In
`FlightRtNode`, `CycleStart`, `PopCommand` and `ParseSlots` are
`RtosCmdquIsrTransport::poll`, `ApplyCommand` is `applyCommand`, `RxFrame` and
`RxSilent` are `Receiver::poll` with `applyReceiver`, and `Control` is the
timeout check with the control step. In `RtosTransport`, `LinuxBegin` to
`LinuxStoreSeq` are one `write*Cache` (`SameNumber` is the config that `pushConfig`
numbers like the one before, which was not answered), `PollStart`, `Pop` and `RingEmpty` are
`poll`, and `ParseSeq` to `ParseCopied` any of the parse functions. In
`LinuxNode`, `linux` says where `run` is and `op` and `stage` how far the command
sent there is; `Return` is what the caller makes of its result. In `I2cBus` a
transaction is the sequence of its `bb_*` calls, in their order; `call`, `nth` and
`step` say at which call, which of its bits and which pin operation of that bit
the firmware is. A missing acknowledgement goes on at the last call, which is
always the stop. In `SensorProbe`, `ready_before` and `read` are history; `pc` and `n` name
the next transaction of the probe, and what the code does between two
transactions belongs to the first of them. Operators named after a definition and
preceded by a comment "Mutant" are deliberately wrong variants of the code; no
specification uses them. They document which mistake each property would catch.

Abstractions:

- in `BringupLoop` and `FlightRtNode` a slot is published and read as a whole; a
  config is a version in `FlightRtNode` and the three fields that the firmware
  reads in `BringupLoop`. `RtosTransport` and `Cmdqu` take the same slots apart
  and show what that hides;
- a CRC in `RtosTransport` is the words it was computed from, so it never
  collides. Stores before the fence may come in any order, and the compiler may
  read the plain `seq` again or keep it; loads of one core are not reordered,
  and the caches are coherent or flushed where the code flushes them;
- one config slot stands for the four slots with a payload in `RtosTransport`,
  whose parse functions are copies of each other;
- `LinuxNode`: a config is one value, a CLI line or INI text is the value it sets
  or none, Linux code takes no time except in ioctl and sleep. Times are relative
  to the clock, so the clock is unbounded. Steps of `run` between two commands
  touch nothing the firmware sees and are taken before the other core goes on
  (`AtLocalStep`). Setpoint, heartbeat and arm slots are left out there, since the
  bring-up firmware ignores them;
- the ioctl numbers of `MailboxTransport.cpp:56-60` (`CmdquSendWait` is 2) differ
  from those of `help/rtos_cmdqu.h` (`CMDQU_SEND_WAIT` is 4). The driver is not in
  the repository; `LinuxNode` takes the ioctl to do what its name says;
- `I2cBus`: the delays are long enough for the sensor, which never holds SCL
  (the firmware does not wait for it); there is one sensor and four registers;
- `SensorProbe`: a transaction succeeds or fails as a whole (`I2cBus` has its
  bits), a failing write may have been carried out, and an overflowed compass axis
  counts as a failure. The gyro's three axes are one. The craft rests until the
  calibration is complete, as the comment at `comm_main.c:1481` asks of its user;
- `FlightMath`: the heading is for display only and left out. The square root
  starts at the bit 4^15 and not at 4^31; the code skips the bits above its
  argument, so the two agree on arguments below 2^32, and the sum of the squares
  of two 16-bit readings is one. `IsqrtRoundsDown` shows the result to be the root
  for all of them. Accelerations are small in the instance, since TLC's integers
  have 32 bits; the proofs take readings of 16 bits;
- the parsers of `IbusParser` hand on raw channels; deadzone and expo follow;
- the clock does not wrap (49 days of milliseconds);
- several frames in one poll are possible up to `FrameBudget` in `BringupLoop`;
  `FlightRtNode` keeps the last one, as `Receiver::poll` does;
- `sample.low` in `FlightRtNode` is the test of the channel after the expo
  curve, `channels[2] <= 1100`, which is what the loop compares;
- `pwm` in `FlightRtNode` tells whether some motor is driven: a write that fails
  at one channel leaves the old pulse on the later ones. In `BringupLoop` the PWM
  hardware accepts every write. Prints and debug dumps are left out;
- the report of the bring-up loop keeps its safety fields only, and nothing
  else reads it;
- no program in the repository sends an emergency slot with reason 0, but
  `comm_main.c:1651-1656` defines it as an explicit clear, so the model of
  Linux in `BringupLoop` may send it;
- `TelemetryNode` clamps gains to ranges below the divisors that the firmware
  accepts; `MCHotConfigs` follows the bring-up convention of
  `comm_main.c:1688-1691` instead. A NaN passes `std::clamp` and `std::stof`;
- `Publish("config")` in `FlightRtNode` stands for acknowledged pushes, which
  are the ones that advance the number. A config that reuses a number, which
  `pushConfig` sends after an unanswered one, is in `RtosTransport` (what the
  loop then holds) and in `LinuxNode` (what Linux then believes), so
  `ConfigTakesEffect` says nothing of it and finding 3 does;
- a start of Linux in `BringupLoop` maps either a zeroed region at an address of
  its own (ION) or the memory it had (`/dev/mem`), whose slots stay unless the
  magic was lost. Memory that is given back is left as it is or wiped; that its
  next owner writes something like a slot there is excluded. Linux may
  publish before its region is announced, and need not announce it at all.
  Announcements arrive in their order, as they do through the mailbox. A config
  slot may get any number there, used ones included;
- `safety_now_us` and `control_now_us` are one reading in `FlightRtNode`;
- a restart of the realtime core is modelled for the bus only (`I2cBus`). A
  restart of Linux is modelled in `BringupLoop`, with every announcement of a new
  or kept region, and in `FlightRtNode` and `RtosTransport`, where the region
  keeps its contents.

## Runs

Ticks are abstract: the instances keep the order of the periods and timeouts of
the code and shrink their ratios. An instance is long enough when a full
scenario fits: boot, calibration, ESC delay, arming, spinning, the fault and
the reaction to it.

| Run | Question | Bounds |
|---|---|---|
| `BringupSafety` | do motors ever run on stale RC or sensor data, without a condition of the safety decision, or into a clamp, and do the gains stay in range? | 8 ticks: arm at the third, spin, lose the link (2 ticks), react (3 ticks); throttle in three classes, two corrections, one config that breaks every range (one of them by NaN) |
| `BringupStop` | is a stop obeyed in time and eventually wherever in a poll it is published, what releases the latch when Linux ends and starts again, and does the gate latch without an observed LOW when no tick falls between poll entry and decoding? | 3 ticks; two starts of Linux with new or kept memory, announced at any time; one stop or clear by the first and two by the second, numbered from one both times, so they may repeat the recorded number; fairness |
| `BringupRearmRace` | and if a tick falls between them? | violated, see findings |
| `NodeSafety` | who arms, whose setpoint flies, when do motors stop, is a failed write repaired, does anything lead out of Failsafe? | 8 ticks, all eight receiver samples, one heartbeat and one setpoint per life of Linux, one restart, one failing PWM write |
| `NodeCommands` | is a stop obeyed, and does every config come into force, wherever they land and whatever doorbell is dropped? | 4 ticks, ring of one doorbell (so it overflows), one stop, one arm request, two configs, fairness |
| `NodeConfigRestart` | also after a restart of Linux? | violated, see findings |
| `RtosTransport` | what does the loop hold after slots were stored, checked and copied in any interleaving, and is the ring a FIFO? | two configs (one is stored while the other is read), the second with the first's number or the next, one stop, one crash, ring of three slots (it wraps and overflows) |
| `LinuxNode` | does an answer mean that the firmware obeyed, can a stop be misread, how late is it? | one mailbox slot and a queue of one (both fill up), four environments, two inputs beyond the clamp, link lost twice, all timeouts one period |
| `LinuxConfig` | does every config that Linux holds to be in force come into force? | violated, see findings |
| `I2cBus` | are transfers genuine, and is the bus free afterwards? | 8-bit bytes, a present and an absent address, one or two registers, two data bytes, one restart at any pin operation |
| `IbusParser` | is only accepted what was sent, and how soon is the next frame found? | frames with and without 0x20 among the channels, one byte lost, one changed to 0x20 or 0x40, any number of frames |
| `SensorProbe` | does `g_sensor_ready` vouch for current, calibrated data of sensors that are set up, do attitude and corrections point the right way, is a probe what `BringupLoop` takes it for, do the sensors recover? | four failing transactions, calibration of three samples, gyro on the second address, five tilts up to and beyond 45 degrees, rates up to the gyro's limit, sticks and gains at and next to every border of the code, fairness |

In runs that concern one slot the others are not published; each slot is
published in some run.

A stop is due in `RtosTransport` (`stop_due`) while the slot has shown it from
the start of the poll on: a restarted Linux that stores a lower number hides it,
which is the code's behaviour of `NodeConfigRestart` again, and `StopEndsPoll`
promises nothing for it. `StopInv` of `FlightRtNodeProofs` shows why a stop does
not need that promise: the loop records the number of a stop only on its way to
Failsafe.

`RtosTransport` counts up to four drops of the ring, as many as there are
doorbells. `LinuxNode` shrinks the mailbox from eight slots and the queue from
thirty entries to one, since what matters is that they fill up. `Recovery` in
`I2cBus` is one transaction per bit of a byte; on this instance seven suffice and
six do not. `SensorProbe` needs four failures so that both sensors can be
interrupted in their setup and once more after calibration. Deadlock is checked
everywhere and never occurs: a poll or a cycle can always go on when the clock
has reached its bound, and after a failed `open` the firmware polls on.

Some properties say less than one might wish, and what they leave out is real:

- `EmergencyStopsInTime` and `EmergencyObeyed` of `BringupLoop` except a stop with
  the number that the task recorded last (`masked`), see the notes after the
  findings;
- `EmergencyObeyed` promises that the motors come to rest. That they stay there is
  `EmergencyStopsInTime` while the stop is in the slot, and `StopOutlastsSlot`
  after it was read. The latter ends when a slot with another number and
  reason 0 can be read, which need not be a clear: see the same notes;
- `Settled` lets a config whose number was used again be torn or outdated, since
  the loop looks at the number only: a store that overlaps the copy leaves a
  mix of both, one after it the older one, and nothing repairs that
  until the next number. It is the other side of finding 3;
- `AckMeansApplied` holds as long as no command has timed out, and excepts a Linux
  that could open neither `/dev/mem` nor the shm file, since it announces memory
  that it does not write (`MailboxTransport.cpp:393` leaves the address set);
- `CResyncs` counts frames with 0x20 at their start only. With a stick at rest on
  a value whose low byte is 0x20, `ibus_parse_byte` can start at that byte in
  every frame and miss all of them until the stick moves; `pushByte` can not
  (`CppResyncs`), because it tests the second byte at once.

Fairness. `BringupStop` assumes weak fairness of the poll as a whole: the queue
receive of the CMDQU task times out after 2 ms and the poll runs on both
branches (`comm_main.c:2798-2811`), and a poll drains at most a fixed number of
bytes. `NodeCommands` assumes it of the cycle: the loop waits with
`hal_rtos_delay_until` for one period and otherwise never blocks. Nothing is
assumed of Linux, of the mailbox or of the receiver in these two. `SensorProbe`
assumes it of the probe, which the poll repeats every 20 ms; its failures are
bounded in number, so that "when they end" means something. `LinuxConfig`
assumes that both processes are scheduled, interrupts are served and time
passes; fairness of the firmware and of the interrupts is strong only because
the local steps of Linux disable them in the model, never in the machine.

### Findings

1. `comm_main.c:2460`. A frame gets two stamps; if a tick falls between them,
   the failsafe test can fire one poll before the freshness test, the observed
   LOW survives the loss, and the next frame with the switch HIGH arms. The
   comment at lines 1893-1894 excludes this. `RearmNeedsLowHolds` proves that
   the stamps are the only cause: with equal stamps the property holds.
2. `rt_core/RtosCmdquIsrTransport.cpp:190`. After a restart of Linux its configs
   are ignored until their numbers exceed the old ones. `README.md:57` says a
   config is applied immediately when it arrives.
3. `linux_core/TelemetryNode.cpp:285`. A config whose answer comes too late has
   been stored, but its number is used again for the next one. The firmware
   takes that for the config it already has, ignores it and answers, and Linux
   holds a config to be in force that never was. `README.md:55` promises a hot
   reload, `README.md:57` that a config is applied when it arrives. The C++
   reader compares numbers in the same way.

Seen while modelling, without a run:

- an out-of-range `rate_p` is replaced by the roll divisor, which is then stored
  for yaw too (`comm_main.c:1704`, 16 becomes 12), although lines 1690-1691 say
  that such values are ignored. The gains stay in range, which `GainsInRange`
  shows;
- `motor_force_safe` (`comm_main.c:1535`) leaves the gate latched, so clearing an
  emergency stop re-enters the armed state with throttle above 1100, while the
  comment at line 1912 has it entered only when throttle is low. No program of the
  repository sends the clear;
- every announcement is taken (`comm_main.c:2854`), although the comment at line
  2851 has Linux send its address once. When a restarted Linux announces a zeroed
  region, its number 0 differs from the recorded one and its reason is 0, so the
  next poll releases the emergency latch (lines 1657-1661) without a clear, and
  with the arm gate still latched the motors come back. `StopOutlastsSlot` says
  that this and a clear are the only ways out;
- the reason of the emergency slot is looked at only when its number differs from
  the recorded one (`comm_main.c:1658`). A restarted Linux numbers its stops from 1
  again, so after a clear with number n it may publish a stop with number n, in
  memory that kept its magic or in a region announced before the next poll. The
  stop is ignored, although the comment at lines 1653-1654 says that a non-zero
  reason latches. TLC shows this when `masked` is dropped from `StopPending`.
  Without a clear it cannot happen: the slot recorded last is then a stop,
  which holds the latch, or a zeroed slot, whose number no stop has;
- the level trim (`comm_main.c:1484`) is the first attitude for which both sensors
  gave data, while the gyro is calibrated without the compass. If the compass is
  late, the craft may have been picked up by then, and the attitude it is held in
  becomes level; the comment at lines 1481-1482 has the vehicle placed level during
  boot and calibration.

## Proofs

A theorem holds for every value of the constants that satisfies the assumption of
its module (named `...Assumption` and evaluated by TLC on each run). No theorem
rests on a bound of an instance. Each strengthening named below was checked by TLC
as an invariant of a run before it was proved.

### Bring-up loop

Assumption: corrections inside the controller's clamp (`CorrectionSoundHolds`
proves that the controller's are), payloads with the fields the code reads,
periods positive, a poll that fits its period.

| Theorem | Statement |
|---|---|
| `TypeCorrect` | `Spec => []TypeOK` |
| `StopsInTimeHolds` | `Spec => []StopsInTime` |
| `SpinGuardHolds` | `Spec => []SpinGuard` |
| `EmergencyStopsInTimeHolds` | `Spec => []EmergencyStopsInTime` |
| `StopOutlastsSlotHolds` | `Spec => []StopOutlastsSlot` |
| `RearmNeedsLowHolds` | `RxJitter = 0 => (Spec => []RearmNeedsLow)` |
| `NoTopSaturationHolds` | `Spec => []NoTopSaturation` |
| `GainsInRangeHolds` | `Spec => []GainsInRange` |

`BringupLoopProofs` begins with the arithmetic: the mixer, the trim and the whole
output stay inside the pulse range, strictly below the ceiling when the throttle is
at most the kill threshold. It then proves the type invariant, one step per action,
and adds what each property needs to be inductive:

- `TimeInv`: how far the clock can be ahead of the poll's entry in each part of
  a poll, and how old frames and sensor data can be when the gate and the PWM
  write rely on them. The motors' pulses date from the previous poll, so the
  bound has to hold across a full poll, not only at its end;
- `GuardInv`: what the decision of `Gate` has established when `Apply` uses it,
  and what `ShmPoll` may have revoked in between;
- `RearmInv`: that with equal stamps the failsafe test implies the freshness
  test, so the observed LOW is forgotten in time. This is what fails when the
  stamps differ;
- `StopInv`: where a pending stop is on its way (published, read, latched,
  decided, written) and the time by which it must have reached the next stage.
  The latch is part of it: a pending stop whose number is the recorded one was read
  as a stop (`StopPending /\ ~NewEmergency => latched`), which is what a
  recorded clear with the same number would break;
- `HeldInv`: while a stop is held the latch is set and no slot that would release
  it is readable, and what the decision of `Gate` and the pulses make of the latch
  in each part of a poll. `LinuxRecords` collects what a step of Linux or an
  announcement can do to the visible slot.

### Sensor probe and flight arithmetic

Assumption: readings are any of 16 bits, gains any that pass the range check of a
config (`GainsInRangeHolds` proves that the firmware's do), the gyro is on one of
its two addresses.

| Theorem | Statement |
|---|---|
| `SensorTypeCorrect` | `Spec => []TypeOK` |
| `ReadyIsCurrentHolds` | `Spec => []ReadyIsCurrent` |
| `AttitudeFollowsTiltHolds` | `Spec => []AttitudeFollowsTilt` |
| `CorrectionSoundHolds` | `Spec => []CorrectionSound` |
| `ProbeHasOutcomeHolds` | `Spec => ProbeHasOutcome`: a probe is one step of `SensorOutcome`, or none |
| `IsqrtRoundsDown` | `amp_isqrt64(v)` is the root of `v`, rounded down, for every `v < 2^32` |

`ProbeInv` carries the first three and the refinement. `CompassFlow` and
`GyroFlow` say which registers the setup of a sensor has behind it at each
transaction, so that "set up" means something when a flag is read probes later;
`Calibrating` says that the sum of the samples so far has a mean between two
rates at rest, so that the bias has too; `Ready` what a probe that ends with data
has left behind. An action that fails half way leaves each part true, which is
what makes them the invariant.

The square root is a loop, and a loop over data would need an induction. It has
sixteen turns whatever its argument, one per bit of a concrete set, so the proof
composes a lemma on one turn (`TurnFindsBit`: before the turn for the bit
`(h \div 2)^2` the root is known as a multiple of `h`, after it as one of
`h \div 2`) from the last turn to the first. The arc tangent is monotone in both
halves of its quadrant (`BaseOrdered`, `AtanOrdered`), hence `AttitudeFollowsTilt`;
corrections have the sign of their stick and the opposite of their motion through
every truncating division (`QuotSign`), hence `CorrectionSound`.

### Bit-banged I2C

Assumption: a byte has two bits or more (any number, so that the few registers and
addresses of the model fit), the sensor has one of two addresses, the firmware may
start at any of the model's four registers, write any bytes and read any number of
them, one at least.

| Theorem | Statement |
|---|---|
| `TransferIsGenuine` | `Spec => []TransferGenuine` |
| `BusIsReleased` | `Spec => []BusReleased`, also after any number of restarts |
| `PinsFollowPlace` | `Spec => []PinInv`: the types, and the lines as the firmware's place wants them |

An invariant over sequences of operations would need an induction over what is
left of a transaction. The place (`call`, `nth`, `step`) makes it a case split:
`CallsAre` says which call stands at each place of a transaction of any length, and
the firmware is always in one of seven kinds of unit (`Unit`: idle, start, stop, and
a bit or an acknowledgement written or read) of at most five operations.

- `PlaceOk`, `LinesOk`, `ReadOk`: the place is one of the transaction, the lines
  are as the operations before it left them, and the byte being read has the bits
  sampled so far. These hold whatever state the sensor is in, so also after a
  restart;
- `SyncInv`: a transaction that found the sensor idle has it in step (`InStep`).
  For each kind of unit that is a formula of its own: waiting for a start
  (`AtStart`), having taken the bits sent so far (`Taking`), acknowledging
  (`AtAck`), driving the bit of its register that the firmware is about to sample
  (`AtReadBit`), or looking at the firmware's acknowledgement (`AtReadAck`).
  `Collected` relates the buffer to the registers. After a refused byte the sensor
  is idle (`Gone`) and all that is left is the stop.

There is one step lemma per kind of unit (`IdleStep`, `StartStep`, `WriteBitStep`,
`WriteAckStep`, `ReadBitStep`, `ReadAckStep`, `StopStep`), under it one step per
pin operation. The invariant was checked with bytes of three bits first.

`BusReleased` needs more: a transaction begun after a restart need not be in step
with the sensor, which may be in the middle of a byte. `PaceInv` says where it can
be then. It is idle, or it receives in step with the firmware (`Takes`, `Acks`), or
it sends and is some clocks of its byte further on than the firmware (`Behind`).
Every call clocks whole bytes and their acknowledgement, so that distance stays,
but for the start: a sensor that pulls SDA low does not see it and is clocked once
more by it. A sensor that is sending when the firmware comes to a start or a stop
either releases SDA, sees the signal and is in step or idle, or is a clock further
on at the next transaction (`UnseenBehind`). It cannot be more than `Bits - 1`
clocks further on, as in its acknowledgement slot it releases SDA: hence one
transaction per bit. `FallRisen`, `RiseFollows` and `FallAck` are one clock of a
byte and of its acknowledgement, and there is again a lemma per kind of unit.
`PaceInv` was checked with bytes of two and of three bits first.

### IBUS parsers

Assumption: payloads of fourteen 16-bit channels, any noise, any number of bytes
lost and changed. Two theorems have `Sticks` as a hypothesis: the channels are below
2^13. They are servo pulses of 1000 to 2000 us (`Receiver.cpp:15-16`), so 0x20
may be a low byte but not a high one, and 0x20, 0x40 stands at the start of a frame
only. With any 16 bits a frame could hold a second one, and no parser could tell.

| Theorem | Statement |
|---|---|
| `ChecksumTells` | changing one of thirty bytes changes the checksum |
| `WholeFrame` | an unchanged frame is accepted and decoded to what was encoded |
| `AlteredFails` | a frame with one changed byte is accepted by neither parser |
| `NoForgedFrameHolds` | `Sticks` implies `Spec => [](lost + changed <= 1 => NoForgedFrame)` |
| `CResyncsHolds` | `Spec => []CResyncs` |
| `CppResyncsHolds` | `Sticks` implies `Spec => []CppResyncs` |

The checksum is a recursive function over thirty bytes. `Reaches` is induction over
the numbers of a set, from the well-foundedness of `<`; with it the function exists
(`SumsExist`), never wraps (`SumsAre`), and differs by the difference of the byte
from that byte on (`ChecksumTells`). Since it never wraps its high byte is 0xe2 or
more (`ChecksumHigh`): a parser that lacks a byte takes the 0x20 of the next frame
for it, and rejects (`ShortFails`).

- `WireOk`: what is left to send is the rest of the frame of `payload`, and what
  `pushByte` has collected starts as a frame does;
- `SentInv`: after at most one fault each parser is in one of four places, given
  how many bytes of the frame have passed (`Place`). It has them all (`Along`), all
  with one of them changed (`Altered`), all but one (`Short`), or it has missed the
  start, and what it has collected since lacks the second byte of a header
  (`Astray`). `PlaceKept`, `PlaceChanged`, `PlaceLost` and `PlaceNext` are the
  four actions. The theorem is limited to one fault because it is false of two:
  two changed bytes can leave the sum as it was;
- `CInv`, `CppInv`: a parser that is out of step in an intact frame is full in it,
  or waits for a start (`LateC`, `LateCpp`), and is empty at its end, so that it is
  in step with the next one (`OnFrame`). That needs no bound on the faults before.

All three were checked on the instance of `MCIbusParser` first.

### Ring and slots

Assumption: a ring of at least two slots (one always stays empty), any bounds.

| Theorem | Statement |
|---|---|
| `NoStaleIndexHolds` | `Spec => []NoStaleIndex` |
| `RingIsFifoHolds` | `Spec => RingIsFifo`: `CmdRing` implements `BoundedFifo` |
| `TransportNoStaleIndex`, `TransportRingIsFifo` | the same inside the transport |
| `TransportTypeCorrect` | `TransportSpec => []TransportTypeOK` |
| `TornOnlyByOverlapHolds` | `TransportSpec => []TornOnlyByOverlap` |
| `StopEndsPollHolds` | `TransportSpec => []StopEndsPoll` |
| `SettledHolds` | `TransportSpec => []Settled` |

`RingInv`: the index that a side compares with its own is moved by the other side
only so as to make room, or to fill slots, and a test once passed stays true; and
every slot between the indices holds a command. The refinement maps the contents to the slots from tail to head, and
`PublishAppends` and `ReleaseTakes` are its two steps that are not a stutter. A
step of the transport is a step of the ring or leaves it alone
(`TransportStepIsRingStep`), so the theorems carry over.

- `TransportInv` (`LinuxInv`, `LoopInv`): which stores Linux has left and which
  slot the loop parses in each part of `poll`;
- `TornInv`: while no store has hit the slot, what has been read is what it
  holds, and a CRC was computed from two equal words;
- `StopInv`: once a stop has been published the slot's payload is whole for
  ever, because all stops store the same words, so a parse that sees a new number
  accepts it whatever Linux is doing in the slot;
- `SettledInv`: before the first crash the slot holds words of publications with
  its number, or is on its way to a publication with the same number or the next
  one, and what the loop recorded and copied follows it. The instance has two
  configs; the proof covers any number, and any number of reuses.

### FlightRtNode

Assumption: a cycle fits the loop period, any timeouts. The last three theorems
have `ArmRequests \subseteq {"Failsafe"}` as a hypothesis: `TelemetryNode.cpp`
calls `sendArm` with `Failsafe` only, and nothing else writes the arm slot. With
other requests the properties fail, and are meant to.

| Theorem | Statement |
|---|---|
| `NodeTypeCorrect` | `Spec => []TypeOK`, which includes that no stored clock reading lies in the future |
| `DriveStopsInTimeHolds` | `Spec => []DriveStopsInTime` |
| `StopRetriedHolds` | `Spec => []StopRetried` |
| `RcOwnsSetpointHolds` | `Spec => []RcOwnsSetpoint` |
| `ConsumedConfigAppliedHolds` | `Spec => []ConsumedConfigApplied` |
| `ArmChangesByPilotHolds` | `Spec => ArmChangesByPilot`: also that Failsafe is final |
| `AliveNeedsLinkHolds` | `Spec => []AliveNeedsLink` |
| `EmergencyStopsInTimeHolds` | `Spec => []EmergencyStopsInTime` |

- `CycleInv`: how late a cycle may be against its schedule, and the control step
  against its due time;
- `LinkSeen`, `DriveInv`: after the receiver poll a node outside Failsafe has a
  frame; a driven motor rests on what that poll and the timeout check found, at
  most one cycle ago. Every time bound of this part is one of these plus one
  `Reaction`;
- `RetryInv`: a failed write is repeated by the control step that was due after
  it;
- `ConfigInv`: a config that the transport has consumed is in the command, or in
  force, or the node has stopped;
- `RequestInv`, `AliveInv`, `StopInv`: what Linux can have asked for; that a node
  outside Failsafe had a link when it last looked; and that a stop not yet obeyed
  was published after this cycle looked for it, or has just been found.

### LinuxNode

Assumption: values in the range Linux clamps to, any timeouts and period.

| Theorem | Statement |
|---|---|
| `LinuxTypeCorrect` | `Spec => []TypeOK` |
| `StopNeverReadAsClearHolds` | `Spec => []StopNeverReadAsClear` |
| `StopPublishedInTimeHolds` | `Spec => []StopPublishedInTime` |
| `AckMeansAppliedHolds` | `Spec => []AckMeansApplied` |

- `SendInv`: what Linux is sending, from where in `run`, and how far it is;
- `EmergencyInv`: the reason is in the slot before its number, and the firmware
  looks at the reason only after it has seen a number;
- `OwedInv`: a cycle that found the link young ends before the next is due or
  after two blocking commands, so the first cycle that finds it old begins in
  time. The bound `StopDelay` is what this adds up to;
- `TokenInv`: while every command was answered in time, the one that Linux waits
  for is in exactly one place: mailbox, queue, the firmware's hands, or answered.
  An answer that nobody waits for cannot exist then (`NoDiscard`). This is
  what finding 3 loses when an answer is late;
- `NumberInv`, `RegionInv`: a config being sent has the next number, and the slot
  holds the last one sent or is being rewritten, word by word;
- `AckInv` (`AckWait`, `AckDone`): how far the firmware has read the slot for the
  command in its hands, and what it has done for those it has answered;
- `CleanInv`: the last two, as long as every command was answered in time.

### Only model-checked

- liveness under fairness: `EmergencyObeyed`, `LossObeyed`, `ConfigTakesEffect`,
  `ConfigReaches`, `SensorsRecover`. Fairness and `ENABLED` are out of the
  prover's reach. The time bounds that are proved say the same for a
  clock that goes on;
- `NoForgedFrame` with one byte lost and another one changed, for the frames and
  the noise of the instance.

## Plan

What is left, in order of importance:

1. The clearing of the region by both cores when they start at once.
2. The heartbeat of `TelemetryNode` against the 500 ms timeout of the flight loop:
   a composition of `LinuxNode` with `FlightRtNode` as reader.
3. A brown-out of the gyro alone, after which `g_mpu_cfg_done` keeps the firmware
   from waking it (`comm_main.c:1202`).

## Not modelled

Floating-point estimation and control (`Estimator.cpp`, the arithmetic of
`Controller.cpp`, deadzone and expo): outside TLC's arithmetic and without control
state that the properties need. Register access (HAL, board port, sensor and UART
backends): success or failure is an input of the models. The close of
`MailboxTransport`, which frees memory that the firmware goes on using; what
follows depends on the next owner of that memory. The rt_report in the other
direction, which no program of the repository reads. `FlightRtNodeStage3`, which counts steps and compares
constant tables. Entry points, diagnostic tools, vendor headers, scripts and
build outputs.
