# TLA+ models of the BLDC motor controller firmware

The repository is the firmware of a brushless motor controller: C on the
ChibiOS kernel, one STM32F4 processor. This directory holds TLA+ models of its
own code, the TLC configurations that check them and the TLAPS proofs. The
kernel (`ChibiOS_*`) and the ST peripheral library are vendored and appear only
through the way the firmware uses them. The firmware has no tests.

## 1. Inventory

Everything shares one address space. *Threads* of equal priority are
time-sliced by the kernel; *interrupts* (the PWM/ADC interrupt most of all)
preempt them anywhere. Very little of the shared state is protected by a lock.

| Component | State | Operations | Correct when |
|---|---|---|---|
| EEPROM emulation `eeprom.c` | two flash pages: a status header and a log of (data, address) slots | `EE_Init`, `EE_ReadVariable`, `EE_WriteVariable`, inner `EE_PageTransfer`, `EE_Format` | a map that only a write changes, across page swaps, power losses and flash errors |
| Configuration storage `conf_general.c` | `VirtAddVarTab`; struct images cut into half-words | init, read and store of the motor and the app configuration, detection procedures | a stored configuration reads back; an interrupted store leaves a prefix; a detection leaves lock and timeout as they were |
| Motor interface `mc_interface.c` | `m_ignore_iterations`, `m_fault_now`, `m_lock_enabled`, `m_lock_override_once`, sample buffers, limits, counters | setters behind `mc_interface_try_input`, lock/unlock/override, `mc_interface_fault_stop`, PWM interrupt hook, timer thread | after a fault the motor is off for the fault time; one command per override |
| Command timeout `timeout.c` | `last_update_time`, `timeout_msec`, `has_timeout` | `timeout_reset`, `timeout_configure`, thread | silence ends in a brake or a released motor |
| BLDC/DC control `mcpwm.c` | `state`, `control_mode`, duty cycle, commutation step, timer flags | setters, ADC interrupt, rpm thread, timer thread | a stopped motor stays stopped; PWM registers are updated as a whole |
| FOC control `mcpwm_foc.c` | `m_state`, `m_control_mode`, observers | setters, ADC interrupt, measurements | as above; a measurement restores what it changed |
| Packet framing `packet.c`, `crc.c` | per handler: `rx_state`, `rx_timeout`, buffer | send, `packet_process_byte`, 1 ms timer | what is sent is received; nothing else is; a broken packet costs at most a timeout |
| CAN `comm_can.c` | ring of 100 frames, `rx_buffer`, status messages | read and process threads, `comm_can_send_buffer` | long messages are reassembled or dropped |
| USB/UART `comm_usb.c`, `app_uartcomm.c` | receive rings | reader or interrupt, packet thread | bytes arrive once and in order |
| Commands `commands.c` | `send_func`, `send_buffer` | `commands_process_packet`, detect thread | a reply goes to the port that asked |
| Bootloader support `flash_helper.c` | flash sectors of the new application | erase, write | a failure leaves the firmware running |
| Applications `applications/` | safe-start counters, ramps | PPM, ADC, nunchuk threads | no power before a safe start, none after a lost input |
| Servo input `servo_dec.c` | pulse lengths, last update | edge interrupt | only accepted pulses count |
| NRF radio `nrf/` | restart timers, reassembly buffer | rx and tx threads | the radio restarts when it is silent |
| Encoder, terminal, LEDs, hardware configuration, start-up, utilities | | | see section 7 |

**Interactions.** Packet threads, CAN, the applications and the terminal call
the setters of `mc_interface.c`; those call `mcpwm.c` or `mcpwm_foc.c`. The
PWM/ADC interrupt runs the duty cycle control and then
`mc_interface_mc_timer_isr`, which may call `mc_interface_fault_stop`. The
timeout thread unlocks the control and brakes. A detection runs in its own
thread, locks the control and lets its commands in one by one. A store of a
configuration unlocks the control, releases the motor, locks the kernel, and
writes half-word after half-word through `eeprom.c`.

**What is hard here.** Read-modify-write of variables an interrupt also writes;
check-then-act of a command around a fault; power loss between any two flash
operations, also during the recovery from an earlier one; a flash error in the
middle of a multi-step update; a 1 ms timer beside the thread whose parser it
resets; static buffers shared by all threads. `PROJECT.json` lists each of
these under `hazards` at its line.

## 2. Modules

| Module | Models | Role |
|---|---|---|
| `EepromStore` | | abstract specification: an atomic map that survives power loss |
| `Eeprom` | `eeprom.c`, `eeprom.h` | one step per half-word program or sector erase |
| `EepromInv`, `EepromProofs` | | inductive invariant; theorems |
| `ConfGeneral` | `conf_general.c` 36-369 | extends `Eeprom`: the stores and reads of both configurations |
| `ConfInv`, `ConfProofs` | | inductive invariant; theorems, on top of those about `Eeprom` |
| `Mcpwm` | `mcpwm.c` setters, duty cycle control | operators: which state and mode each call leads to |
| `McInterface` | `mc_interface.c`, `timeout.c`, speed controller of `mcpwm.c` | the threads and the interrupt that share the gate and the motor |
| `McInterfaceProofs` | | inductive invariant; theorems |
| `Packet` | `packet.c`, `packet.h` | sender, line, parser and timer of one handler |
| `PacketInv`, `PacketProofs` | | inductive invariant; theorems |
| `LossyFifo` | | abstract specification: a FIFO that may lose what it holds when it is overrun |
| `RxRing` | rings of `comm_usb.c`, `app_uartcomm.c`, `comm_can.c` | writer and reader of one ring, store by store |
| `Commands` | `commands.c` with the `process_packet` callbacks | who replies to whom, in which buffer |
| `CommCan` | `comm_can.c` | extends `Commands`: frames, fragments, status table, relays |
| `LinksProofs` | | inductive invariants and theorems of `CommCan`, `Commands` and `RxRing` |
| `Detection` | `conf_general.c` 371-574, measurements of `mcpwm_foc.c`, `mc_interface_set_configuration`, their callers in `commands.c` and `terminal.c` | procedures as the sequences of their calls, in several threads |
| `DetectionProofs` | | inductive invariant; theorems |
| `AppBase` | `timeout.c`, configuration and faults as an application meets them | shared by the applications |
| `ServoDec`, `AppPpm`, `AppAdc`, `AppNunchuk` | `servo_dec.c`, `app_ppm.c`, `app_adc.c`, `app_nunchuk.c` | extend `AppBase`: a turn of each application's loop |
| `AppProofs` | | inductive invariants and theorems of the applications, each under a specification of its own |
| `NrfDriver` | `nrf/nrf_driver.c` | the restart timers between two threads |
| `FlashHelper` | `utils_sys_lock_cnt`, `flash_helper.c`, the sections of `conf_general.c` | critical sections and watchdog |
| `Sampling` | sample collection of `mc_interface.c` | request, interrupt and sender |
| `DriverProofs` | | inductive invariants and theorems of these three |
| `MCEeprom`, `MCConfGeneral`, `MCMcInterface`, `MCPacket`, `MCLinks`, `MCDetection`, `MCApps` | | instances for TLC |

Definitions whose name begins with `Mutant` are wrong variants of the
definition that follows them. No specification uses them; replacing the right
definition by one shows that a property notices.

### Eeprom

`hdr` is the status half-word of each page and `log` its programmed slots. `pc`,
`op`, `idx`, `req`, `half` and `tail` are the place in the running function: a
slot is two steps, data (`half` becomes true) and address; the page-level
operations at the end of a function are the sequence `tail`. Three facts about
flash matter and are kept. A slot is free iff both half-words are 0xFFFF, so a
value 0xFFFF (`Blank`) with no address leaves its slot free. Programming only
clears bits, so a valid header (0x0000) stays valid (`Program`). A sector erase
cut off by a power loss may leave an erased header above old slots
(`PowerLossInErase`), or a header that still has its old value, which is the
state before the erase (`PowerLoss`). A header with only some of its bits
erased, for which `EE_Init` has its `default` branch, is not modelled.
`FlashError` is any program or erase that reports an error; the code then
returns at once.

`degraded` is a history variable. It becomes true when the environment strikes
where the code has no recovery: power lost with both pages valid (finding 1), a
flash error outside a plain write, or a recovery that finds no room. After that
the model goes on but nothing is promised.

`Recovered(v)` is the value that a complete `EE_Init` would leave for `v`. It is
the refinement mapping to `EepromStore`: at every step, not only between
calls, the pages stand for one map.

Reads are operators and not actions: they change nothing and the caller holds
the kernel lock or is alone.

### ConfGeneral

A configuration is a sequence of half-words. `InitVirtAddVarTab` is the table
`conf_general_init` builds, with both loops running to the size of the app
configuration, as in the code. A store calls `EE_WriteVariable` word by word and
stops at the first failure. The default configuration is one value, `<<>>`.
What the store does to the motor is `StoreConfiguration` in `McInterface`.

### Mcpwm and McInterface

Speed, current and duty cycle are abstracted: `Mcpwm` gives for each setter, for
`set_duty_cycle_hl` and for one interrupt the set of states the code may choose.
`McInterface` has a `pc` per command thread: the gate (`try_input`), the
override being cleared (`TakeOverride`), the write of `control_mode` and the
write of `state` are separate steps. `m_ignore_iterations--` is a read
(`Count`) and a write (`Decrement`). `mc_interface_fault_stop` is three steps in
the timer thread and one in the interrupt, which no thread preempts. The reads
inside `mc_interface_try_input` are one step, as is its stopping of a
detection. Time is the loop of the mcif timer thread (1 ms); `cycled` says that
the PWM interrupt runs at least once in it (it runs tens of times). `silence`
counts those loops since `timeout_reset` and saturates.

History: `raced` says that a fault stop fell between some actor's check and its
action; `elapsed` counts decrements since the last fault stop; `passes` counts
the commands let in since the last override.

`Environment` changes the input voltage and the DRV8302 fault line;
over-current is found in `PwmInterrupt`, over-temperature in `UpdateLimits`.

### Packet

`wire` holds the bytes `packet_send_packet` has sent; `Noise` loses or changes
one. The packet thread takes a byte in `Dispatch`, which is the call and the
`switch` on `rx_state`; the case it chose (`StartByte` to `EndByte`) is a later
step, so that the timer thread can run in between. `rx_state++` is a read and a
write of a volatile: `Bump` lets it start from a state the timer has just reset,
or lose a reset that falls between the two. `packet_timerfunc` is the test with
the read of `rx_timeout--` (`TimerCheck`), its write (`TimerStore`), and the
reset (`TimerReset`). The two handlers share nothing, so one is modelled. The
`default` case has no action: `TypeOK` shows that `rx_state` never needs it. The
CRC is a constant operator, of which nothing but its range is used.

History: `fed` are the bytes parsed since the parser left its first state,
`last` and `lastframe` the payload last handed to `process_func` and the bytes
it came from, `expect` a payload that was sent to an idle parser and met neither
noise nor a timeout. `raced` says that the timer reset `rx_state` while the
parser was between `switch` and assignment; the parser can then read a CRC byte
as a length. The payload properties promise nothing from then until the parser
takes a byte in its first state again, and say so.

### LossyFifo and RxRing

`LossyFifo` is what a receive ring promises. `RxRing` is the ring: `Write` is one
step for the UART interrupt and for the CAN reader, whose priority is higher
than the processing thread's. The USB reader has the same priority, so its
store, its increment and its wrap are steps of their own (`StoreByte`,
`Advance`, `WrapAround`, `Signal`); the compiler may put the store before or
after the increment. `Queued` is the refinement mapping. An overrun ring looks
empty to the reader: `Enqueue` allows the loss of everything. The history
variable `odd` says that the processing thread has seen a half-done USB write
(the position at the buffer size, or the position without the byte); the
abstract queue calls that `Torn` and promises nothing after it, and does not
allow it where `tears` is false.

### Commands and CommCan

`Commands` keeps the three globals every reply depends on: `send_func`,
`send_buffer` and, for CAN, `rx_buffer_last_id`. A thread that handles a packet
sets `send_func` (`Request`), writes its answer to `send_buffer`, one half
after the other because the threads are time-sliced (`Fill`, `FillRest`), and
calls through `send_func` (`Send`). The answer is then copied half by half: into
the `tx_buffer` of the port's handler, on USB under `send_mutex`, or as fragments
to the other controller (`CopyFirst`, `CopyRest`). The CRC reads the source again
(`SendCrc`): a packet whose source has changed since is `Broken`. The detect thread does the
same long after the request; a relayed packet comes from the CAN thread's own
`rx_buffer`. What a half holds is the name of the thread that wrote it, so that a
mixture can be told from an answer. Two details are left out: an answer of at
most six bytes goes over CAN in one frame without a CRC, and `commands_printf`
has a buffer of its own.

History: `asker` and `intact` follow an exchange. `intact` ends when the packet
of another asker arrives, when another thread writes to `send_buffer` between
the first byte of the answer there and its CRC, and when two threads send to one
receiver without a mutex. In these three cases the code does send an answer to
the wrong place, or a mixture of two.

`CommCan` is the bus. `Frames` cuts a message as `comm_can_send_buffer` does
(short form, fragments with a one-byte offset, fragments with a two-byte offset,
final frame with length and CRC). Every controller's frames interleave with the
others', `TransmitTimesOut` loses one, the ring may be overrun. The receive ring
is used through `LossyFifo`, which `RxRing` is shown to implement.

### Detection

Each procedure is the sequence of its calls that change shared state; `todo` is
what a thread has still to call. A motor configuration is abstracted to its type
and two version numbers: all fields, and the ones the FOC detections change in
place. `m_conf`, `timeout`, `lock`, `override`, `driver` (whose command the
motor follows) and the threads of the motor implementations are shared. The
three static `mcconf_old` are kept apart: the terminal overwrites its own at
every command. `Setter` may always be refused, which stands for a fault time. A
change of motor type is `Deinit`, which waits until the old threads have cleared
their stop flags, `InitImpl`, which assigns `m_conf`, and `Calibrate`:
`do_dc_cal` waits without a bound until the gate driver lets go of its fault
line (`drv_fault`, set and cleared by `DrvFault`), then for samples, which come
from the ADC interrupt, and the new threads start. The terminal's detections,
`param_detect` too, run on the thread of the packet (`TerminalDetect`). History:
`wanted` and `wanted_timeout` are what the user configured last, `overlapped`
says that two procedures met, `spun_up` that a flux linkage measurement
succeeded: that one leaves its 60 s timeout behind (`conf_general.c:527`).

### Applications

`AppBase` has what every application meets: a fault at any time, the timeout
thread, silence as a choice, and `COMM_SET_APPCONF`, which stores the
configuration and resets the safe-start count in two steps. A turn of the PPM and
of the ADC loop is two steps, with the counter read in the first and written in
the second, so that a reset can fall between. A turn of the nunchuk's output
thread has one step for each read of the shared `chuck_d` (`app_nunchuk.c:189`,
`:194`, `:203`, `:207`, `:248`), because the remote's data may change between any
two of them: the direction can then change in a turn of cruise control.
Positions, throttle and speed are a few values each; the stick is back, centred
or forward. `ServoDec` has the pulse widths by the part of the range they fall in
and the median filter. In `AppAdc` times are fractions of a millisecond, since
the code compares a float with an int that was cut off from it
(`app_adc.c:306`). Ramps may lag behind the stick, so the current a turn sends is
a choice there. Counts saturate at what is enough (`Capped`); the code's `int`
overflows only after 2^31 turns.

History: `calm` is the time without power, `unsafe` that the motor was driven, or
held at a speed, before that was enough, `press_rpm` the speed at which the
cruise button was pressed. The safe start promises nothing between the
store of a configuration and its reset, after a reset in the middle of a turn (the
turn writes the old count back, and the code stays armed), and for ADC rates of no
whole milliseconds. The speed kept by the ADC cruise control promises nothing
when the button was released where the code does not look (`Missed`). A nunchuk
that is lost while cruising may come back to its old speed: no property is about
that.

### NrfDriver, FlashHelper, Sampling

`NrfDriver` counts in steps of 5 ms. `nrf_restart_tx_time -= 5` is a read and a
write, between which the other thread may set the timer (`race`).

`FlashHelper` separates the test of `sys_lock_cnt`, the lock and the increment.
`lost` counts sections that a failing erase or write of the new application has
left without unlocking: the counter then stays above zero, and later sections
do not lock the kernel any more. The properties are about the time before that.
The kernel's own lock is not counted, so the reply that follows unlocks it.
`flash_helper_jump_to_bootloader` stops the watchdog's clock and calls
`chSysDisable` in two steps, under no lock: other threads may run in between
without a watchdog, and one that ends a section there starts the clock again.
Nothing is promised for that time. The model is about the watchdog's clock; a
change of motor type resets the watchdog itself (`WWDG_DeInit`) until the new
implementation sets it up.

`Sampling` separates the stores of a request, of which several packet threads may
be inside at a time, the interrupt's index and the sender's loop, which both read
a length that may change under them. `outgrown`
says that a request has set the length to no more than the index.

## 3. Runs

| Run | Configuration | Shows |
|---|---|---|
| `eeprom` | `MCEeprom.cfg` | the pages implement `EepromStore`, every call returns, a page to be filled is empty, what is read is what a power loss would leave, a full page needs many interrupted recoveries |
| `eeprom_unstable_boot` | `MCEepromLoss.cfg` | finding 1 |
| `conf` | `MCConfGeneral.cfg` | a covered configuration reads back after page swaps and losses; a torn store is a prefix |
| `conf_page_swap` | `MCConfSwap.cfg` | finding 2 |
| `motor` | `MCMcInterface.cfg` | the motor is off during the fault time and the fault time is kept, unless a fault stop fell into a check-then-act |
| `motor_live` | `MCMcLive.cfg` | silence ends in a brake for good; a lasting wrong voltage ends in an off motor for good, with no exception for races |
| `packet` | `MCPacket.cfg` | only whole frames are processed and payload bytes stay in the buffer; an undisturbed packet always arrives, unless it is empty or its length is the one that a byte cannot hold; silence ends in the parser's first state |
| `links` | `MCLinks.cfg` | the rings implement `LossyFifo` and always drain; a long CAN message that met no loss, no overrun and no other message's fragment is processed as it was sent; `rx_buffer` is not written outside; one status slot per controller; a reply, relayed or late, reaches the asker whole unless another asker's packet, another writer of `send_buffer` or another sender to the same receiver came in between |
| `detection` | `MCDetection.cfg` | configuration and timeout come back after any detection, the lock is always released, the motor does not go on with a command of a procedure that is over, every procedure ends if the gate driver lets go of its fault line |
| `apps` | `MCApps.cfg` | safe start with faults, timeout, lost signal and reconfiguration; silence brakes; a good signal arms; cruise control keeps speed and direction, also when data change in the middle of a turn; the filter is a median; the radio restarts when and only when silent; critical sections exclude each other, and the watchdog's clock stands still in them and runs outside; sample indexes stay in the buffers |
| `fault_time_lost` | `MCFaultTime.cfg` | finding 3 |
| `override_twice` | `MCOverride.cfg` | finding 4 |

`RoomForRecovery` in real numbers: a page has 4095 slots and the table 160
entries, so that, unless the flash reports an error, 25 recoveries have to be
interrupted before a write or a recovery finds no room.

**Bounds and why they are enough.** *Eeprom*: two addresses, two values (one of
them `Blank`), three slots. The fourth write starts a page transfer; with the
leftovers of an interrupted recovery in the page, the fifth starts a second one
in the other direction. Three power losses are a loss in a
transfer, one in its recovery and one in the recovery of that; one flash error
falls on any operation. *ConfGeneral*: motor configurations of three and app
configurations of two half-words, in the proportion of the real sizes, in a page
of six slots; three stores are enough for a swap in the middle of either kind.
*McInterface*: one controller thread and the detection are two commanders, the
timeout thread a third; a fault time of two lets a second fault fall into it;
two commands and two fault events give every pair of them. The values of the
real counters (8 cycles, 500 ms) only lengthen the same paths. *Packet*: bytes
of two bits (`Base` 4), so that a payload of four bytes has the length 256 has
in the code and one of five uses the two-byte length and fills the buffer; one
is empty. The payloads hold start and end bytes, so that a parser out of step finds packets
in them. Two packets and one disturbed byte let a broken packet run into the
next; a timeout of one is the shortest that can be refreshed. *Links*: a ring
of three slots is overrun by the third byte; two other controllers with two
messages or frames between them, one of them in three fragments of both kinds,
one lost frame, two requests on a port; of packets, messages and lost frames
together three in a behaviour (`MaxTraffic`), enough for two askers and a relay,
for two writers of `send_buffer`, and for a loss in a message that another one
follows. *Detection*: one packet thread and the
detect thread, two commands: every pair of procedures one after the other and,
with the detect thread, in every interleaving. *Apps*: safe start after two
turns (PPM) or two milliseconds (ADC), one reconfiguration, speeds from -2 to 2,
a restart time of three steps, two packet threads and two failures, buffers of
three samples with requests for none to four from two threads. New data of the
remote differ from the last in one value (`Near`): several such data without a
step between them give every change. Its timeout is fixed and no fault occurs once
it has been reconfigured (`NunchukBound`), since its thread looks at neither but
through `has_timeout` and refused commands. `MCApps` and `MCLinks` hold
several parts that share nothing; a behaviour shows one of them.

**Deadlock** is checked in `packet`, whose timer never stops. Elsewhere it is
not: the bounds on writes, commands and faults end a behaviour where the program
goes on waiting. Where everyone could wait for everyone, in a change of motor
type, `ProcedureEnds` speaks of it.

**Fairness.** `Eeprom`: weak fairness of the function that is running; nobody
has to call a write. `McInterface`: weak fairness of each thread, because all of
them have the same priority and the kernel is configured with a time quantum
(`CH_CFG_TIME_QUANTUM`), and of the PWM interrupt, whose timer never stops.
Nobody has to send commands, and fault conditions need not come or go. A
detection ends (`mc_interface_unlock`). `Packet`: weak fairness of the packet
thread and of the timer thread, for the same reason; nobody has to send.
`RxRing`: the USB reader finishes a byte it has begun, and the processing thread
goes on; nobody has to send. `Detection`: each thread goes on with its procedure
(its waits have a bound, or are for a thread that is told to stop), the detect
thread answers its event, the stopped threads see their flag. The exception is the
wait of `do_dc_cal` for the gate driver's fault line: nothing in the code ends it,
so `Calibrate` is disabled while the line is held and `ProcedureEnds` has the
hypothesis that the line is let go for good.
Applications: the timeout thread and the loop of the application, both woken by
timers; pulses, data and packets need not come. The radio's receive thread: it
polls every 5 ms.

## 4. Proofs

Every theorem is of the form `Spec => []P` (two are refinements, one is an
action property) and holds for all values of the constants that satisfy the
assumption of its module: the bounds that TLC needs are parameters here. Each
rests on an inductive invariant, a conjunction of named parts, and on one lemma
that a step keeps it, with one case per action.

### Storage: EepromProofs, ConfProofs

For any number of slots, any table, any addresses and values (`EepromAssumption`)
and configurations of any size (`ConfAssumption`).

* `TypeCorrect` (`TypeOK`). The part that can go wrong is that no page is ever
  written past its last slot. `TypeOK` is not inductive. A slot with `Blank`
  data takes no room until its address is programmed, so room found at the first
  half-word has to be still there at the second (`HalfRoom`), and the page that
  is written must not be the page whose value is being copied (`Phase`).
  `TypeInv == TypeOK /\ Phase /\ HalfRoom` is inductive.
* `FreshPages` (`FreshReceivePage`) and `DurableReads` (`ReadsAreDurable`). The
  invariant is `PagesInv`, which lists for each point of the code the page states
  that go with it: one clean valid page between calls, one filling page in a
  transfer, the four states of the last flash operations, and what a power loss
  in any of them leaves for `EE_Init`.
* `PagesImplementStore` (`ImplementsStore`). The refinement needs, besides the
  pages, their values: `ValuesInv` says that the page being filled has, for each
  address, the value of the old page or none, none only for addresses the loop
  has still to come to, and the requested value in its first slot; `HalfInv` and
  `RequestInv` what a half-programmed slot and the request are. From these,
  `RequestApplies` shows that the address half-word of a request changes the
  value of that address and of no other, and `ValueKept` that no other step
  changes a value. Then every step of `Eeprom` is a step of `EepromStore` under
  the mapping `Recovered`, or none. The theorem has the hypothesis `TableCovers`:
  every address that is written is in the table. `MCEeprom` satisfies it;
  `conf_general_init`'s own table does not (finding 2), and so the next two
  theorems speak of each configuration that is covered.
* `RecoveryHasRoom` (`RoomForRecovery`). `RoomInv` bounds the slots in use by one
  for the request and the size of the table for each time the loop was entered,
  until the power losses alone account for a full page (`Crowded`).
* `ConfReadsBack` (`CoveredConfReadsBack`) and `TornStores`
  (`TornStoreIsPrefix`). A store's steps are steps of `Eeprom` (`ConfStep`), so
  that the invariants above hold. `WordsInv` adds that the words to be recovered
  are those of the new image up to the store's counter and those of before
  behind it, one less while the last write has not taken effect or has failed.

### Motor: McInterfaceProofs

`MotorTypes`, `FaultTimeKept` (`FaultTimeIsKeptUnlessRaced`) and `MotorStaysOff`
(`FaultHoldsMotorOff`), for any stop times and any number of threads, commands
and faults. The invariant `MotorInv` says that until a fault stop falls into
some check-then-act (`raced`): the timer thread's read of `m_ignore_iterations`
is not stale (`ReadIsFresh`), no command is past the gate while a fault stop of
the timer thread is about to switch the motor off (`StopIsUnderWay`), and
otherwise, while commands are refused, the motor is off and nobody has anything
left to do to it (`RefusedIsOff`).

### Detection: DetectionProofs

`DetectionTypes`, `LockIsReleased`, `DriveIsOwned`, `ConfigurationIsRestored`
and `TimeoutIsRestored`, for any set of ports and any number of calls. The
argument is about `todo`, what a thread has still to call: each call that
borrows something has the call that gives it back behind it (`Shape`), at every
exit of every procedure. `LockInv` and `DriveInv` need only that and hold also
when procedures meet (`DriveIsOwned` has no exception for it); `RestoreInv` ties
the configuration and the timeout of a thread that is alone to what the rest of
its calls will make of it.

### Packets: PacketProofs

For any byte width, buffer size, timeout, CRC and set of payloads
(`PacketAssumption`).

* `ParserTypes` (`TypeOK`): races included. The strengthening is `StateInv`:
  inside the parser `rx_state` is what the `switch` read, or zero.
* `PayloadStaysInBuffer` (`PayloadFits`) and `OnlyFramesProcessed`
  (`OnlyWholeFrames`): the invariant is `FedInv`, which says for each state of
  the parser what the bytes fed so far have to be (`Tracks`): the header, as many
  payload bytes as `rx_data_ptr` counts, each in its place of `rx_buffer`, then
  the CRC bytes. At the end byte this is a frame (`EndFrames`).
* `CleanPackets` (`CleanPacketArrives`): what `packet_send_packet` writes is a
  frame of its payload (`FrameFrames`), and `ExpectInv` says that the undisturbed
  frame is split between the bytes fed and the bytes on the line. Two frames with
  the same header have the same length (`HeaderFed`), so that the parser can
  neither refuse the length nor end early.

### Links: LinksProofs

`BufferStaysInBounds`, `StatusSlotsAreDistinct`, `RepliesReachAskers` and
`WholeMessagesArrive`, for any controllers, ports, messages and sizes. `CanInv`
has a part for each. The hard one is `WholeInv`: for each byte of a message under
way, `rx_buffer` already has it or a fragment with it is still ahead, and no
later fragment writes anything else there; that the two kinds of fragments tile
the message is arithmetic about `FillStep` and `LongStep`. `ReplyInv` follows an
answer step by step: `IntactIsCurrent` says that an undisturbed exchange is about
the asker that `send_func` and `rx_buffer_last_id` now stand for, `ReplyInHand`
that each half of `send_buffer`, and then of what is under way to the receiver, is
the answer's as soon as it has been written and until the CRC, and `OneSender`
that a mutex lets one thread send.
`RingImplementsFifo` is the safety part of `RingIsLossyFifo`: every store of the
writer and the reader is a step of `LossyFifo` or none.

### Applications and drivers: AppProofs, DriverProofs

* `GlitchesAreFiltered`, `PpmStartsSafely`, `AdcStartsSafely`, `CruiseSpeedIsKept`
  and `CruiseDirectionIsKept`, for any bounds of the safe start, rates and
  speeds. `CountsTurns` and `CountsTime` tie the safe-start counters, also between
  their read and their write, to the history of turns without power; in
  `app_adc.c` this holds for turns of whole milliseconds only, because a float is
  compared with the int cut from it, and promises nothing for other rates.
  Neither theorem speaks of a reconfiguration that falls into a turn, which the
  code does not withstand. `CruiseDirectionIsKept` needs `ChukInv`: the speed
  agrees with the direction except between a change of direction and the end of
  that turn (`Settled`), and `StickAgrees` shows that the command at the end makes
  them agree again.
* `FlashExclusive` and `FlashWatchdog`, for any number of packet threads: until
  a section is lost the counter is one exactly while the holder of the kernel is
  past its increment (`CountAgrees`), so that the test outside the lock finds
  zero. `FlashWatchdog` speaks of the clock while no thread is between the two
  steps of the jump into the bootloader. `NrfRestarts`, for any restart time and
  alive interval: `TimersAgree` ties each timer to the history of the last
  packet and acknowledge, also between the read and the write of the decrement.
  `SamplesInBuffers`, for any buffers and lengths: unless outgrown, the index is
  below the length (`IndexBelowLength`), and the sender's index was below one
  that never exceeds the buffers (`SenderBelowSize`).

### Only model-checked

Liveness: `CallsReturn`, `SilenceReleases`, `PersistentFaultStops`,
`SilenceResyncs`, `ProcedureEnds`, `SilenceBrakes`, `PpmArms`, `RadioComesBack`
and the fairness in `RingIsLossyFifo`. TLAPS has no backend here for fairness and
ENABLED. Every invariant of the passing runs is a theorem.

## 5. Findings

1. `eeprom_unstable_boot` (`eeprom.c:140`, `:231`). When `EE_Init` finishes an
   interrupted page transfer it marks the new page valid before it erases the
   old one. Power lost between the two leaves two valid pages; the next
   `EE_Init` takes that for an invalid state and formats both. The comment at
   `eeprom.c:615` says the code keeps the memory from getting erased "in case of
   unstable voltage at boot". `EE_PageTransfer` does the two in the other order
   and has no such state.
2. `conf_page_swap` (`conf_general.c:50`). The loop that enters the motor
   configuration's addresses into the table of variables to move runs to the
   size of the app configuration, the smaller struct. The first page swap drops
   the other words and the next read falls back to the defaults.
3. `fault_time_lost` (`mc_interface.c:1111`). `m_ignore_iterations--` races with
   the interrupt that sets it: a fault between read and write keeps only what
   was left of the earlier fault's time.
4. `override_twice` (`mc_interface.c:847`). `m_lock_override_once` is tested and
   cleared in two steps by any thread: two commands can pass on one override.

## 6. Plan

The modules planned at the start are there, in the order storage, motor
interface, packets, links, detection, applications, and so are the theorems
about their invariants. What is left:

1. Steps towards liveness that need no fairness: that each turn of the copy loop
   and of a detection's procedure makes a measure smaller.
2. The `timer_struct` that setters and the ADC interrupt of `mcpwm.c` read,
   modify and write (`mcpwm.c:1038` and after), if an abstraction of the register
   values is found that a property can be about.

## 7. Not modelled

* Observers, current and position controllers, commutation, filters, energy and
  average counters, temperature limits, traction control and ramps: floating
  point, and without control state that another part depends on.
* The commands that the ADC and nunchuk applications send to other controllers
  on the CAN bus (`multi_esc`): they have no reply, and the receiver is a
  controller that runs `comm_can.c` like this one.
* Pin, timer, ADC and USB set-up, LEDs, encoder, `hwconf/`, SPI of the radio:
  pure I/O.
* Terminal output, start-up order, default values of configurations, encoding of
  values in packets: text and tables.
* `app_sten.c`, an example for one vehicle.
* `ChibiOS_*`, the CMSIS headers and the ST peripheral library: vendored. They
  are by far the most of the repository's lines (the firmware's own C is about a
  tenth), which is why the mapped lines are a small share of all lines though
  every component with control state of its own is modelled.

`PROJECT.json` has the status of each component.
