# Verification of the Tempo-BT firmware

TLA+ models, TLC runs and TLAPS proofs for `zephyr/tempo-bt-v1`, the Zephyr firmware of
the Tempo-BT skydiving logger. Paths below are relative to `src/zephyr/tempo-bt-v1/`;
`services/x.c` stands for `src/services/x.c` there.

1. [The system](#1-the-system) - inventory: components, state, operations, hazards
2. [What is modelled](#2-what-is-modelled) - module by module, against the code
3. [The runs](#3-the-runs) - what each shows, bounds, fairness
4. [What is proved](#4-what-is-proved) - theorems, invariants, assumptions
5. [Where code and comments disagree](#5-where-code-and-comments-disagree)
6. [What is only model-checked, what is not modelled](#6-limits)
7. [Plan](#7-plan)

Running it: `tlc -config X.cfg M` with the pairs of section 3, `tlapm M.tla` for the
`*Proofs` modules. `PROJECT.json` lists every run, mutant, theorem and hazard, and maps each
definition to the lines it models.

## 1. The system

The device rides with a skydiver. It arms itself on the ground, starts a log when it
detects a climb (or on a button, BLE command or USB request), marks the exit, stops after
the landing, and offers the log for download over BLE (mcumgr). All concurrency is
preemptive threads on one core: main (priority 0), button work queue, mcumgr's work queue,
system work queue (cooperative), aggregator, barometer, IMU and GNSS threads, the test
alarm's work queue (5) and the file writer thread (10, the lowest of the application).

| Component (source) | State it keeps | Operations | Talks to | What makes it correct |
|---|---|---|---|---|
| File writer (`services/file_writer.c`) | `file_open`, byte ring, static `write_buffer`, `pending_drops`, statistics | open, write, close, writer thread, periodic flush, `do_flush` | called by the aggregator (lines), the logger (open, close); calls storage | the log is the accepted bytes in order; lines are whole; statistics are right; buffered data reaches the card |
| Session control (`services/logger.c`) | `state` IDLE/ARMED/LOGGING/JUMPED, `usb_mode`, session number, lock | arm, disarm, start, start_usb, jumped, stop, USB disconnect, ground work | aggregator, file writer, USB stream, BLE radio, GNSS rate, accelerometer filter, event bus | a session records somewhere as long as it lasts; nothing is left of it afterwards; it ends once |
| Executive (`services/logger.c`, `logger_executive`, `logger_baro_handler`) | four debounce counters, climb-rate filter, legacy take-off count | 250 ms tick of the main loop; barometer callback | session control | a decision rests on its full debounce time; a grounded logger ends its session; take-off is not missed |
| Aggregator (`services/aggregator.c`) | `running`, thread, output callback, two periodic work items, last samples | start, stop (join), register output, thread loop, outputs | sensors (callbacks), output to file writer or USB | stop returns; lines go to the current output; no sentence falls silent in a session |
| Storage (`services/storage*.c`, `app_init.c`) | backend, mount state, open file handle, lock | init with fall-back, open, write, sync, close, list, delete | FAT or LittleFS | the device comes up if any medium does; the log being written is not deleted |
| BLE radio (`ble_mcumgr.c`) | `ble_radio_active`, connection, advertising, advertising and deferred stop work | stop, restart, deferred stop, connection callbacks | session control, mcumgr | silent while logging, reachable otherwise |
| USB port (`services/usb_tty.c`, `usb_cmd.c`) | `tty_open`, DTR, disconnect callback and work, received line | open, close, write, DTR poll, disconnect, receive | session control, calibration | a disconnect ends what uses the port and nothing else; the last command is served |
| mcumgr group (`mcumgr_custom.c`) | test alarm, buffers | session list and delete, settings, calibration, LED, logger control, alarm, upload hook | session control, storage, settings | listings are complete; commands are refused in the states that cannot take them |
| Main loop and buttons (`main.c`, `app_init.c`) | press timers, calibration mode | boot, long and short presses, executive tick, LED | session control, USB, LED | |
| Time base and alarm (`services/timebase.c`, alarm in `mcumgr_custom.c`) | UTC correlation, alarm fields | first fix, PPS work, alarm command and handler | session control | an alarm ends; its jump is not early |
| GNSS (`services/gnss_m10q.c`) | receive ring, UBX and NMEA parsers, ACK state, rate | boot set-up, set rate, thread, UART interrupt | logger (rate), time base, aggregator | one line speed; a silent boot worked; an acknowledgement is for the command sent; the parser resynchronises |
| Event bus and LED (`events.c`, `services/led.c`) | bounded queue, subscriber, colour, override | publish, dispatch, set colour, override, blink | all services | the LED ends in the colour of the state |
| Barometer (`services/baro_bmp390.c`) | `data_ready`, `baro_sem`, last sample, ground altitude ring | init, interrupt or timer, sampling thread, record and read ground altitude | executive, aggregator, logger | no wake-up is lost; the ground altitude is of before the climb |
| IMU, orientation (`services/imu_icm42688.c`, `orientation.c`) | FIFO, acceleration filter, last stamp, attitude | poll, filter on and off, attitude | executive (filtered acceleration), aggregator | an average belongs to its session; stamps are true |
| Magnetometer (`services/mag_mmc5983ma.c`, driver) | calibration, mode | read, calibrate, load, save | orientation, USB and BLE commands | its calibration is kept |
| Settings, checksum (`config/settings.c`, `util/nmea_checksum.c`) | values in RAM and in flash | load, get, set with save | all | what was confirmed is there after a reset |

Interactions that matter most:

- **Calls under and outside a lock.** `logger_state.lock` covers the test and change of the
  state, and everything a start sets up; a stop releases it *before* tearing down. Callers
  (`logger_executive`, button handlers, the mcumgr handler) read the state, release the lock
  and then call, so every decision may be stale when it is carried out.
- **One ring, two consumers.** `do_flush()` runs on the writer thread and on the thread that
  closes the file, with a static buffer between ring and card.
- **Callbacks through work queues.** USB disconnect and the deferred BLE stop run on the
  system work queue, after the call that scheduled them has long returned.
- **Flags and semaphores in pairs.** Interrupts and work items hand over to threads with a flag and a
  semaphore, a ring and a sleep, or a queue that drops; no lock covers the pair.
- **Partners that are not reset with the processor.** The receiver keeps its line speed and messages, the flash
  its settings, the card its sessions.
- **Counters that outlive what they count.** The executive's debounce counters are globals
  cleared at a few places only.

The hazards this gives rise to are listed, at their lines, in `PROJECT.json`, each with the
properties that would catch it.

## 2. What is modelled

### FileWriter (`services/file_writer.c`, and storage as it uses it)

A byte is its *position* in the stream of accepted bytes: the k-th byte ever put into the
ring is the number k, over all files. The ring is then the interval `rd+1..wr`, exactly the
free-running put and get indices of Zephyr's `ring_buf`, and a faithful log is one whose i-th byte
is `base + i`, `base` being where the ring stood when the file was opened.

| Code | Model |
|---|---|
| `file_writer_write()`: unlocked test of `file_open`; locked test of space, drop or put; unlocked statistics | `WriteBegin`; `DropLine`, `PutLine`; `CountDrop`, `CountLine` |
| `do_flush()`: `ring_buf_get` into `write_buffer`; `storage_write`, which copies under the storage lock; `storage_sync`; statistics | `FlushNothing`, `FlushGet`; `WriteStart`, `WriteByte`, `WriteDone`, `WriteFails`; `FlushEnd` |
| `writer_thread_fn()`: semaphore with a 100 ms timeout, then `do_flush` if there is data | `WriterWake` |
| `file_writer_open()`: close what is open, `storage_open`, `file_open = true`, statistics, ring reset | `OpenCall`, `StorageOpen`, `StorageOpenFails`, `ResetStats`, `ResetRing` |
| `file_writer_close()`: cancel the periodic flush, one `do_flush`, `file_open = false`, `storage_close` | `CloseCall`, `MarkClosed`, `StorageClose` |

`WriteByte` copies one byte per step, so a second `ring_buf_get` into the same static buffer can change
what is being written; this is what makes `LogFaithful` depend on `solo`. `ring_buf_get` itself is one step: with two
consumers inside it at once its result is undefined, and such behaviours are outside
`solo` anyway. Tokens given to the writer's semaphore only bring a wake-up forward that
the timeout causes in any case, so the untimed model leaves them out.
There is one controller: the sessions of Logger call open and close one at a time
as long as calls do not overlap (`calm` there).

History variables, read by no action: `base`, `ends` (where lines end), `due` (`wr` at the call
of close), `solo` (the two callers of `do_flush` have not overlapped since the open), `quiet`
(no producer was in a call during the last open).

### Logger (`services/logger.c` and what it drives)

The threads `main`, `button`, `smp` (mcumgr), `baro` and `sysworkq` each run calls one after
another: `todo[t]` is the rest of the calls a handler has decided on, `at[t]` the step of the
current one. `Arrive`/`Look` model a handler that reads the state and decides (`Decides`); the calls
then happen later, when the state may be another.

| Code | Model |
|---|---|
| `logger_start()` | `LoggerStart`, `StartOpen`, `StartAggregate` (locked), `StartAnnounce`, `StartRadioOff` |
| `logger_start_usb()` | `LoggerStartUsb`, `UsbOpen`, `UsbAggregate` (locked), `SetRate` |
| `logger_stop()` | `LoggerStop` (locked), `StopAccel`, `StopHalt`, `StopJoin`, `StopClose`, `StopUnregister`, `StopPublish`, `StopRadioOn` |
| `logger_jumped()`, `logger_arm()`, `logger_disarm()` | `LoggerJumped`, `SetRate`; `LoggerArm`; `LoggerDisarm`, `DisarmSample` |
| landing in `logger_executive()`: stop, arm, rate 1 Hz | `Landing` as one plan |
| logger control command over BLE, with the radio back for the reply and its deferred stop | plans ending in `"reply"`, `Reply`, `BleStopWork` |
| USB disconnect: interrupt, work, callback | `HostGone`, `DisconnectWork` |
| aggregator thread's end; ground altitude work | `WorkerExit`, `GroundWork` |

Session names, directories and the text of the header lines are left out; published events are in Status, the test
alarm's thread in Executive and TestAlarm.

**Session** is the abstract specification: numbered sessions, at most one in progress, marked as
jumped at most once, ended for good (`Begin`, `MarkJump`, `End`, `Arm`, `Disarm`). Logger implements it:
`S == INSTANCE Session WITH ...` takes the session number for `begun`, the session of an active state for `current` and so on,
and `SessionsImplemented == S!SessionSpec` is a property of `logger_local` and a theorem. `Arm` of a session in progress is in the abstract
specification because the code does it. Status uses Session as the machine that drives the LED.

History: `ended` (sessions a stop has ended), `calm` (no two threads have been in calls at once).

### Executive (`logger_executive()`, `logger_baro_handler()`)

The climb rate is one of five classes that the thresholds of the code tell apart: above 2 m/s,
above the take-off threshold, level, slow descent, freefall. The filters that produce it
are floating point and left out, and so is their warm-up, during which a tick does nothing.
`takeoff`, `freefall` and `lowAccel` are `uint8_t` in the code and
count modulo `Width` (256); `low` is wide. A handler is one step: main has the highest
priority of the threads that touch the counters, and nothing inside a handler blocks before it calls the
session control.

| Code | Model |
|---|---|
| `usb_mode` test; state read under the lock | `TickBegin`; `TickRead` |
| `executive_handle_armed/logging/jumped/idle` | `HandleArmed`; `HandleFall`, `HandleLowG`, `HandleActivity` (the three exits of the LOGGING handler); `HandleJumped`; `HandleIdle` |
| the calls they decide on | `StartTakeoff`; `JumpState`, `JumpReset`; `StopState`, `ArmAgain`, `ArmReset` |
| legacy take-off detection on the barometer thread | `BaroSample`; `BaroStart`, `BaroReset` |
| the test alarm's `logger_jumped()` | `AlarmJump`, `AlarmReset` |
| all others, as changes of the state | `OtherStart`, `OtherReset`; `OtherStop`, `OtherStopped`; `OtherWish`, `OtherArm`; `OtherDisarm` |

`logger_start()` clears the counters like `logger_jumped()`, after it has given back the lock, so a tick can fall between the
state and the reset, whoever starts the session (`BaroReset`, `OtherReset`); `logger_start_usb()` clears none. For the executive's own start both are one
step, as main cannot tick inside it.

History: `run` counts, up to `Cap`, the latest consecutive ticks of each kind *in the present state*;
`rested` says a tick has seen the present IDLE; `paced` that other threads changed the state only
between ticks, left IDLE only once a tick had seen it, and armed only from IDLE; `clean` that
no tick was handled between the alarm's change of state and its reset.

### Gnss (`gnss_set_rate()` of `services/gnss_m10q.c`, the UART driver and the receiver as it uses them)

`gnss_set_rate()` configures the messages GSA and RMC through `ubx_send_with_retry()`, then the rate
without waiting for an answer. The executive, the buttons, BLE commands and the test alarm reach it on their own threads,
outside any lock, and they share `uart_tx_state` and `ubx_ack_state`. A caller's `pc` stands between
two accesses to these.

| Code | Model |
|---|---|
| `gnss_set_rate()` | `SetRate`, `NextMessage`, `SendRate`, `Settle` |
| `ubx_send_with_retry()` | `Failed`, `Resume` |
| `ubx_send_with_ack()` | `ResetAck`, `Arm`, then `uart_tx_wait()`, `TakeAck`, `AckTimeout`, `AckEnd` |
| `uart_tx_wait()` | `ResetDone`, `Send`, `TakeDone`, `TxTimeout`, `TxEnd` |
| `uart_cb()`, transmit events | `TxDone` |
| `ubx_handle_message()` on the GNSS thread | `HandleMessage`, `GiveAck` |

`ResetSem` and `GiveSem` are Zephyr's semaphores: a reset makes all waiting threads give up, a give hands the
token to a waiting thread if there is one. The receiver is external: at the end of a transmission it
applies the command and acknowledges it, refuses it, or has received it damaged; acknowledgements travel
in order, may be lost, and arrive after any delay. The driver refuses a transmission while another is under
way. The sleeps and the timeout of 50, 100 and 500 ms are taken to outlast a transmission of at most
16 bytes; the wait for an acknowledgement may give up at any time. `ack_received`, which nothing reads, is left out.

History: `wanted`, `applied`; `alone` (no two calls have overlapped), `prompt` (moreover no wait gave up
while its answer was still to come), `faults` (commands aborted, damaged or refused).

### Radio (`ble_mcumgr.c`)

`ble_mcumgr_stop()` and `ble_mcumgr_restart()` step by step on any of the threads that start and stop sessions, the
deferred stop, `advertising_work_handler()`, and the callbacks `connected()`, `disconnected()`, `recycled_cb()`. The
Bluetooth stack is external: it makes a link while the device advertises, which ends the advertising, and
reports the link's end later. `StopTest`, `AdvStop`, `CloseConn` and `RestartTest`, `AdvStart` are the accesses of the two functions.
Each of the stack's three calls succeeds or fails, at the boot too. The code logs a failure and goes on: after a failed `bt_le_adv_start()` `ble_radio_active` is set
without any advertising, and `RestartTest` then returns early; after a failed `bt_le_adv_stop()` or `bt_conn_disconnect()` the flag is clear and the
device still advertises, or keeps its link.
History: `raced`, an overlap of calls, or a link just being made or advertising being restarted at a stop; `failed`, which of the three functions
failed when it was last called.

### UsbPort (`services/usb_tty.c`, `usb_cmd.c`, buttons of `main.c`)

The port has two users, a USB session and the calibration stream. `at[t]` is where a thread is on its way through a start or a stop of either.

| Code | Model |
|---|---|
| host, `usb_status_callback()`, DTR poll | `Attach`, `Terminal`, `HostGone`; `DtrPoll` |
| `button1_action_handler()` | `LongPress`: `StartUsb`, or `CallStop` |
| `logger_start_usb()`, all of it under the logger's lock | `StartUsb`, `OpenForLog`, `RegisterLog`, `StartAggregator` (may fail, which closes the port and leaves the callback) |
| `logger_stop()`: the state under the lock; then, unlocked, `usb_mode`, port, callback and `usb_mode` again | `StopTestState`; `StopTestMode`, `StopClose`, `StopUnregister`, `StopClear` |
| `button1_isr()` looks at the state; `button1_short_press_handler()` acts on `mag_cal_streaming` only | `ShortPress`; `ShortPressWork` |
| calibration: opening (`-ENOTCONN` ends it, `-ENODEV` does not), streaming, commands, callback; and its end | `OpenForCal`, `CalStart`, `CalCommands`, `CalRegister`; `CalStop`, `CalQuiet`, `CalClose` |
| `disconnect_work_handler()`, with whichever callback is registered | `DisconnectWork`, then `StopLogging` or `CalStop` |
| `uart_irq_callback()`, `rx_line_work_handler()` | `LineIn`, `RxLineWork` |
| main, mcumgr: `logger_stop()` at any time; sessions on the card, `logger_arm()` from any state, `logger_disarm()` | `CallStop(t)` for `UsbOthers`; `OtherCalls` |

Only `StartUsb` to `StartAggregator` hold the lock across steps (`LockFree`); nothing keeps a start away from the teardown of the session before it.
History: `overlap`, that one of the things has happened which the comment on `PortOwned` lists, each of which leaves the port, the callback or
`usb_mode` to the wrong user.

### Status (`events.c`, `services/led.c`, LED functions of `main.c`)

| Code | Model |
|---|---|
| changes of state and what each thread publishes afterwards | `BeginBy`, `EndBy`, `AnnouncedBy`, `Publish`, `BleEvent`; `owed` |
| `event_bus_publish()` with `K_NO_WAIT` | `Put` |
| `event_thread_func()`, `led_event_handler()` | `TakeEvent`; `ReadState`, `HandleEvent` |
| `set_color_led_state()`, override, timer and its work | `SetColor`, `SetLed`, `MagCalLed`, `MagCalLedBack`, `SetOverride`; `BlinkTimer`, `LedOffWork` |

`MagCalLedBack`, the colour set back at a calibration's end on either thread, may come at any time, whether a calibration is on or not.

History: `due`, a STATE_CHANGE of the latest change is in the queue or past it.

### TestAlarm (`services/timebase.c`, alarm of `mcumgr_custom.c`)

`SetAlarm` is the command on the mcumgr thread; `TakeItem` to `Jump` are the handler on its own work queue, one step per access
to the alarm or the logger, so that a command can fall between any two. `Pulse` queues the work item (once), time passes in seconds, `target`
is kept as the seconds left. Times and delays are clipped to `Hour` and `MaxDelay`. The time computed from the correlation lags behind
the pulse by up to a second (`CompareTarget`). History: `since`, `calm`.

### Baro and Ground (`services/baro_bmp390.c`, ground altitude of `logger.c`)

Baro has the boot (`StartBaro`, `StartMeasuring`, either may fail), the interrupt or timer (`Measure`, `Wake`) and the thread's five
accesses (`TakeSem`, `CheckReady`, `ClearReady`, `ReadData`, `Tell`). `unread` is a measurement the sensor holds.

Ground has the four-entry ring, `next_index` and `initialized`, written by the work item every five minutes and by starts,
stops, arms and disarms on several threads, without a lock: `Record` is the write and `next_index++`, `Wrap` the test of its end; filling the ring is the loop over
its entries, in `BeginArm` or `Record`, and then the index, `Filled`; so a second writer can come
between (`Writing`). A record that falls into the loop counts as one right after it. `Disarm` samples whatever the state has become meanwhile, `EndStop` only in IDLE. The work queue is cooperative: it preempts a caller anywhere and gives way only where it waits for the newest sample. History:
`recent` (altitudes in order), `crossed` (two records overlapped), `idle` (sampling has not been started, or a start has failed).

### Imu (`services/imu_icm42688.c`, `services/orientation.c`)

A packet in the FIFO is the time it was sampled at. One poll is `CountPackets`, `ReadPackets` (invalid ones skipped, stamps
counted back from now), then per sample `TestEnabled` (unlocked), `UpdateFilter` (locked), and `ProcessSample`; the logger's `EnableFilter` and
`DisableFilter` come anywhere. `FifoStart` may fail, which ends the thread. History: `mixed` (what the average is made of), `exact`, `countedAt`.

### Aggregator (`services/aggregator.c`)

The two periodic outputs on the system work queue (`ImuOutput`, `ImuLine`, `EnvOutput`), which give way only where they wait for a mutex or
the magnetometer, against `AggregatorStart`/`Schedule` and `AggregatorStop`/`CancelWork`/`JoinWorker`. History: `mingled`.

### GnssBoot (`gnss_early_quiet()`, `gnss_init()`, `gnss_init_skydiving()`, `main()`)

`Sniff` listens at 115200 baud (`Listen`; `SniffFails`, when the UART refuses 9600 baud and `main()` goes on), `ChangeSpeed` sends the speed command at 9600, `Quiet` turns all messages off, and then `Order` lists the
commands of a boot; each is `Acknowledged`, `AnsweredLate`, `Refused`, or `Mistaken` (a late answer to an earlier command of the same class
and id is taken for its own). `ProcessorReset` starts again at any step, with the receiver as it is. The chatter of a receiver at another speed may pass for data, and a
speed that the UART refuses leaves the one before. Taken for granted: the receiver powers up at 9600; `gnss_init()` itself can configure the UART; late answers do not outlast a reset of the processor. History:
`warned`, `models`; `deaf`, that in this boot the speed command was lost, the UART refused a speed, or chatter passed for data.

### Receive (UART callback, `process_uart_data()`, both parsers)

Bytes are numbers and both checksums are computed; sentences are five or four characters long. `RxReady` puts a byte into the ring or
drops it, `RxStopped` loses a stretch, `UbxSync`, `UbxBody`, `UbxCheck` and `NmeaStart`, `NmeaByte`, `NmeaEnd` take them one by one.
`MaxPayload` and `MaxLine` stand for the arrays' 64 and 1021. History: `since` (bytes since a loss), `holes`, `got`, `missed`.

### Storage (`services/storage.c`, both backends, `app_storage_init()`, list and delete of `mcumgr_custom.c`)

| Code | Model |
|---|---|
| `storage_auto_init()`, `app_storage_init()` | `TryFat`, `TryLfs`, `BootLogs` |
| path translation, which differs per call and backend | `Translate`, `FatPath`, `LfsPath`, `Physical` |
| a session's directory and log; JUMPED; stop | `StartSession`, `MarkJumped`, `StopSession` |
| `tempo_mgmt_session_list()`, anew for each page | `AskPage`, `ListDates`, `ListSessions`, `ListReply` |
| `tempo_mgmt_session_delete()` | `AskDelete`, `CheckState`, `CheckInfo`, `DeleteFiles`, `DeleteDir` |

A storage call is one step, since it holds the lock throughout. History: `bad`, `steady`, `received`, `cut`, `blind`.

### Settings (`config/settings.c`, calibration of `services/mag_mmc5983ma.c`, their commands)

`InitSettings`, `InitMag`, `UseMode` are the boot, any of whose loads can fail; `SettingsSet`, `CalSet`, `ModeSet` begin a command, `SetRam` and
`Save` carry it out key by key, for the mcumgr thread and the USB work queue at once; `Reset` comes anywhere. A value is the built-in one, another,
or the empty string. History: `watched`, any one of the keys, and `promised`, what was last confirmed of it.

### MCServices and MCInterfaces

Baro, Ground, Imu, Aggregator, GnssBoot, Receive, Storage and Settings share no variable, and neither do TestAlarm, Status, UsbPort and Radio. Their instances are
checked together: the first state chooses a part, only that part moves, and the rest stay as they begin. The states are the sum of the parts', not
their product, and a property of one part is checked in all of its behaviours. What connects these parts to the session control is in the environment each module has:
starts and stops on any of its threads.

## 3. The runs

| Run (module, cfg) | Instance | Checks | Shows |
|---|---|---|---|
| `file_writer_log` (MCFileWriter, MCFileWriterLog) | 1 producer, ring and chunk of 2 bytes, lines of 1 and 2, 3 bytes, 2 files, 1 failed write, 1 drop | `TypeOK`, `LogFaithful`, `LogEndsWithLine`, `Drains` | the ring fills and drops; the log is the accepted bytes in order while the consumers do not overlap, ends with a line, and buffered data always leaves the ring |
| `file_writer_stats` (MCFileWriterStats) | 2 producers (symmetric), ring of 2, chunk 1, 3 bytes, 2 drops, 2 files | `StatsExact` | statistics updated after the unlock are exact when nobody is in a call; each dropped line belongs to a reported episode |
| `logger_local` (MCLogger, MCLoggerLocal) | main, button, baro, sysworkq; 2 sessions | `ActiveRecords`, `InactiveReleases`, `EndedForGood`, `SessionsImplemented` | every moment of a session has the aggregator running into the right, open output; nothing is left of it afterwards; no two teardowns for one session, whatever overlaps; the control implements Session |
| `logger_ble` (MCLoggerBle) | main, smp, sysworkq; 2 sessions | `RadioSilent`, `Unlocks`, `CallsReturn` | the radio is off in a session once the deferred stop has run; every error path gives the lock back; calls return |
| `executive` (MCExecutive, MCExecutive) | debounce of 2 ticks, abort 3, counters modulo 3 | `Confirmed`, `LandsEventually`, `TakeoffTried` | decisions rest on full debounce counts; a grounded logger does not log for ever; a wrapping counter does not stop the take-off retries |
| `gnss` (MCGnss, MCGnss) | 2 callers (symmetric), 1 and 10 Hz, 2 calls, 1 retry, 1 fault, 2 answers under way | `BufferLive`, `AckedApplied`, `Configured` | calls that do not overlap keep the array they transmit from, take an acknowledgement for the command it is for, and leave the receiver as the last wanted it, whatever times out, fails or comes late |
| `services` (MCServices, MCServices) | per part, below | 15 properties, below | what sensors, receiver, storage and settings promise |
| `interfaces` (MCInterfaces, MCInterfaces) | per part, below | 7 properties, below | what alarm, LED, USB port and radio promise |
| `file_writer_close`, `logger_radio`, `executive_landing`, `storage_delete` | as above | one property each, violated | section 5 |

The parts of `services` and `interfaces`:

| Part | Instance | Property | Shows |
|---|---|---|---|
| all | | `ServicesTypeOK`, `InterfacesTypeOK` | arrays, rings and queues hold what is put into them: a poll fits `fifo_buf`, a payload its array, the ground index its ring; the unsigned countdown does not pass zero |
| Baro | one sensor | `NoLostWake` | a measurement not yet read has its wake-up under way, however flag and semaphore interleave |
| Ground | 2 callers and the work queue, 2 altitudes | `ThirdNewest` | the surface altitude is the third newest recorded, over every wrap, unless two records overlapped |
| | | `SamplingGoesOn` | whenever the logger waits, sampling is scheduled or running |
| Imu | samples every 2 ticks, polls every 2, at most 3 packets, 11 ticks | `FilterFresh` | the average the executive reads is of this session's samples only |
| | | `StampsTrue` | a poll in time stamps each sample to within one period |
| Aggregator | 2 callers | `OutputFollowsRunning` | an output neither dies in a session nor outlives it |
| GnssBoot | 2 processor resets, 3 commands lost | `SpeedAgreed` | both ends agree on the speed wherever earlier boots were cut off, unless this one lost the speed command, was refused a speed, or took chatter for data |
| | | `SilentBootWorks` | a boot without a warning has configured everything; the receiver is without an airborne model only if all three failed |
| Receive | 3 frames of 2 sentences and one UBX message, ring of 2 bytes, 1 loss, payload 6 | `HandledWasSent` | nothing that was not sent passes a checksum |
| | | `Resynchronises` | a loss costs no more than a message of the greatest length |
| Storage | 2 days of 3 sessions, pages of 2, at most 2 days and 2 sessions per day listed, 3 sessions | `BootFallsBack` | the boot gives up only when neither medium can be used |
| | | `ListingExact` | the pages together list every session once, in order, or say they are truncated |
| | | `DeleteExact` | the log being written survives; a successful delete on the card leaves no file |
| Settings | mode and calibration, or name and flag; all values | `Kept` | what was confirmed is in flash and in force after any reset |
| TestAlarm | hour of 4 s, delays to 2 s, 3 alarms | `JumpNotEarly`, `AlarmEnds` | the jump is not before its delay; every alarm ends |
| Status | 2 threads, queue of 2, 1 session | `LedCatchesUp` | the LED comes to show the state, unless it changes or an override is on |
| UsbPort, in the part "usb" | the two work queues and one other thread, no lines | `PortOwned`, `PortServed` | the port is open exactly for its user; an unplugged host ends the use; both until one of the overlaps |
| UsbPort, in the part "lines" | the two work queues, 2 received lines | `PortServed` | the last line is served |
| Radio | 2 callers and the work queue, any call of the stack failing | `RadioFollows` | stopped and settled, no advertising and no link; restarted, one of the two; except for what a failed call leaves |

**Bounds.** `MaxBytes`, `MaxDrops`, `MaxErrors`, `MaxOpens`, `MaxSessions`, `MaxBegun`, `MaxSets`, `MaxLines`, `MaxTime`, `MaxResets`, `MaxLost`, `MaxFrames` and
`MaxGaps` cap what would grow for ever; two files and two sessions are
the fewest with something left over from an earlier one, which is what the properties are about. A
ring of two bytes with lines of one and two has an empty, half full and full state, a line that does
not fit although there is room, and a chunk that ends inside a line. In Gnss one retry is what the code asks for (`max_retries` is 1), two calls leave tokens and answers of one to the next, and one fault can hit any command. In Executive, `Width = 3` with debounce times of 2 makes a
counter wrap right after its limit, as 256 does after far more ticks; `Cap = 3` is the largest
debounce time, all that properties compare with. GnssBoot's three losses suffice to fail all models, or a command and its repetition besides one more; a second reset interrupts the
boot after an interrupted one. Three frames put a loss before, inside and after a sentence. In Storage, three sessions in pages of two make two pages, and a limit of two per day is reached and passed. In
TestAlarm an hour of four seconds has targets ahead, now and past, and three alarms can fall into one another. In Executive one of the other threads
at a time is in `logger_start()` after the unlock and one in `logger_stop()`, besides the barometer, the alarm and main. The USB port is run twice, because lines and a third
thread multiply the states without meeting: once without lines, once without the others. `UsbOthers` has one thread, which with the two queues makes
three that stop at once; no behaviour is continued after an `overlap`, of which neither property says anything. `services` uses
the symmetry of the logger's callers in Ground, and has no liveness property.
Each passing run has for each property a *mutant*, a
plausible bug in one definition with which TLC finds the property violated on the same instance, so no bound hides
the case a property is about.

**Deadlock** is checked except where the system really may stop: in `gnss`, a driver that rests when nobody calls it; in `logger_ble`, where a `logger_stop()`
that joins the aggregator's thread while another thread's start has re-created it waits for ever (`CallsReturn` therefore
speaks of behaviours in which calls have not overlapped); and in `services`, whose clock, receiver and failed boots come to their end.

**Fairness.** FileWriter: weak fairness of the writer thread's wake-up and of `do_flush()` on both callers. The
writer has the lowest priority, but every other thread sleeps between periods, its wait has a timeout, and a storage
operation returns. Producers and the controller's decisions have none. Logger: weak
fairness of each thread's next step inside a call and of the aggregator thread's exit; nothing forces a thread to begin a call, the host to go, or work
to be scheduled. Executive: weak fairness of the main loop, which has no exit and the highest priority of the application threads. `LandsEventually` and
`TakeoffTried` state their own premise (the climb rate settles, USB mode is off). TestAlarm: weak fairness of the work queue's handler and of the receiver's
pulses, which go on as long as it has a fix. Status: weak fairness of the event thread, of publishing by a thread that owes an event, of the button's LED call and the blink timer with its work; nobody
need change the state. UsbPort: weak fairness of every thread's steps inside a start or a stop and of the DTR poll, strong fairness of the items of the system
work queue that wait while it is busy with a
`logger_stop()`, and of the lock this waits for: the queue takes its items in order, and the lock is given back. The other modules have safety properties only and assume no fairness.

## 4. What is proved

TLAPS checks these for every value of the constants that satisfies the named assumptions
(`SizeAssumption`, `ProducerAssumption`, `ThreadAssumption`, `TickAssumption`, `CommandAssumption`,
`GnssBootAssumption`, `SettingsAssumption`, `GroundAssumption`, `ImuAssumption`, `AlarmAssumption`,
`StatusAssumption`, `LinesAssumption`, `OthersAssumption`, `RadioAssumption`, `ReceiveAssumption`, `StorageAssumption`); TLC evaluates the assumptions in every run that reaches them. They say that bounds and sizes
are numbers, positive where nothing could happen otherwise, and that threads with a part of their own have names of their own; days and
sessions are finitely many, and a sentence is between 4 characters and what a line of the parser holds.

| Theorem | Statement | Argument |
|---|---|---|
| `FileWriterProofs!TypeCorrect` | `Spec => []TypeOK` | `TypeOK` is inductive; one lemma per part. Contains the ring bound `wr - rd <= RingSize`. |
| `FileWriterProofs!LogIsFaithful` | `Spec => []LogFaithful` | `IInv == TypeOK /\ FlushInv /\ LogInv`. The property alone is not inductive: it says nothing of bytes in flight. `FlushInv` fixes where `flen` and `done` stand at each step of `do_flush`. `LogInv` says that under `solo`, file, bytes in flight of one consumer and ring follow one another from `base` on, and that the bytes in flight are still in `write_buffer`; during an open the file is empty. |
| `LoggerProofs!TypeCorrect` | `Spec => []TypeOK` | inductive with `LockOK`: exactly the thread in the locked part of a start holds the lock. |
| `LoggerProofs!EndsOnce` | `Spec => []EndedForGood` | inductive with `TypeOK`: only the two locked changes to LOGGING make a state active and both take a new number; `logger_jumped` tests under the lock. No assumption on overlap. |
| `LoggerProofs!Implements` | `Spec => SessionsImplemented` | the refinement of Session: every action maps to one of its operations or to none. It needs `EndedForGood`'s companions and `StartsReady`: a thread in the locked part of a start has found, and still has, a state without a session, since it holds the lock. No assumption on overlap. |
| `ExecutiveProofs!TypeCorrect` | `Spec => []TypeOK` | inductive; a decision is tied to the state it was made in. |
| `ExecutiveProofs!DecisionsConfirmed` | `Spec => []Confirmed` | `IInv == TypeOK /\ InStep /\ Counted /\ Confirmed`. `InStep`: while `paced`, main acts in the state it has read. `Counted`: each counter that matters in a state has no more than that state's consecutive ticks, and those that will matter later are zero. |
| `GnssProofs!TypeCorrect` | `Spec => []TypeOK` | inductive; one lemma per part. Contains the bound on attempts. |
| `GnssProofs!BufferOutlives` | `Spec => []BufferLive` | `BufferInv == TypeOK /\ Sole /\ Staged`. `Sole`: while `alone`, at most one caller is in a call. `Staged`: who transmits is at the step that waits for the end, no token is there when a transmission starts, and a token while it is awaited means that the transmission is over. The property alone says nothing of the token, which is what could end the wait too soon. |
| `FileWriterProofs!WholeLinesLogged` | `Spec => []LogEndsWithLine` | from `LogInv` and `WholeLines`: the last byte put into the ring ends a line, unless none was put since the file was opened. With an empty ring and nothing in flight the file ends at that byte. |
| `FileWriterProofs!StatsAreExact` | `Spec => []StatsExact` | `StatsInv == IInv /\ LinesInv /\ CountInv /\ BytesInv`. The property speaks of rest only; the invariant says what is owed in between: lines counted and producers with a line yet to count are together the line ends of this file, drops counted and producers with a drop yet to count cover `pending_drops`, and bytes counted and those a consumer has written and not yet counted are the length of the file. |
| `LoggerProofs!Recorded` | `Spec => []ActiveRecords` | `IInv == TypeOK /\ StartsReady /\ FollowsPlan /\ CalmInv`. `FollowsPlan`: what is left of a thread's calls is one of the rests of its plan. `CalmInv`: while `calm`, at most one thread is in a call, and aggregator, output, file, stream, filter and radio *fit* the step it is at (`Fits`), all the way through a start and a stop; a thread that is about to arm is in no session. The three properties are what `Fits` says at the steps they speak of. |
| `LoggerProofs!ReleasedAfterwards` | `Spec => []InactiveReleases` | the same invariant. |
| `LoggerProofs!Silent` | `Spec => []RadioSilent` | the same invariant, with `RadioOff`: who has still to turn the radio off, or has the deferred stop scheduled. |
| `GnssProofs!AckTruthful` | `Spec => []AckedApplied` | `AckInv`: while `alone` and `prompt`, of command under way, answer under way, answer being handled and token at most one is there (`OneAnswer`), whichever step the caller is at, and outside the wait none (`NoneComing`). So the token that ends the wait is of this attempt. |
| `GnssProofs!CallsConfigure` | `Spec => []Configured` | `ConfigInv`: without faults a message that has been transmitted is in the receiver, at each step of the caller (`ConfigStage`), with the rate the call asks for. |
| `SensorProofs!NoWakeIsLost` | `BaroSpec => []NoLostWake` | `BaroInv == Driven /\ Unborn /\ NoLostWake`. `Driven`: once it measures, the sensor has a live pin or the timer, which no failure of the boot takes away; `Unborn`: before the boot the thread does not exist. |
| `SensorProofs!RingKeepsThird` | `GroundSpec => []ThirdNewest` | `RingInv`: the three newest records are the three entries behind `next`, counted round the ring, also between the write and the wrap, when `next` is one past the end and a writer stands before `Wrap`; between the loop that fills the ring and its index all entries are equal. |
| `SensorProofs!SamplingContinues` | `GroundSpec => []SamplingGoesOn` | `Locked` says which callers can be inside the lock, `Driving` that while the logger waits the work is scheduled, under way, or yet to be scheduled by a caller; the handler that leaves without scheduling itself has found the logger busy. |
| `SensorProofs!FilterStaysFresh` | `ImuSpec => []FilterFresh` | inductive: an enable always clears `initialized` and stores zero, and the first sample after that replaces the zero. |
| `SensorProofs!StampsAreTrue` | `ImuSpec => []StampsTrue` | `StampInv == Spaced /\ ...`: packets in the FIFO lie exactly a period apart and the newest is less than a period old; so counting back from now gives each its own period. Remainders by `Period` are dealt with in lemmas. |
| `SensorProofs!OutputsFollow` | `AggSpec => []OutputFollowsRunning` | `OutputInv == Starting /\ (mingled \/ Orderly)`. `Orderly` says at each step of a lone start or stop what is scheduled, in particular that a handler cut off by a stop cannot schedule itself again. |
| `SensorProofs!BaroTypes`, `GroundTypes`, `ImuTypes`, `AggTypes` | `BaroSpec => []BaroTypeOK`, and so on | the types, conjuncts of `ServicesTypeOK`: a poll's packets fit `fifo_buf` (`HandInv`), the ground index the array's end. |
| `StorageProofs!ConfirmedIsKept` | `SettingsSpec => []Kept` | `IInv == Domains /\ MagLater /\ InFlash /\ InRam /\ CalInRam`: the promise is first in flash; what the boot, or a save, then has in RAM follows from the stage of the boot and, for the calibration, from the magnetometer's state and mode. |
| `StorageProofs!SettingsTypes` | `SettingsSpec => []SettingsTypeOK` | `TypeInv`: what a command has still to set is a sequence of keys with values they may have, which is what the range checks of `tempo_mgmt_settings_set()` are for; a calibration that is saved is not zero. |
| `InterfacesProofs!JumpKeepsDelay` | `AlarmSpec => []JumpNotEarly` | `AlarmInv`: pulses left to count and the pulse in the queue are together no more than the pulses since the start. The pulse that started the session and one merged into the queue are what could make it one too few. |
| `InterfacesProofs!PortHasOneOwner` | `UsbSpec => []PortOwned` | `PortInv`: `UsbRoles` says which steps a thread can be at, and that without USB nothing opens, whatever overlaps. Until an `overlap`, the start of a session and of a calibration (`SessionStarts`, `CalStarts`) exclude each other and any teardown, each user that is on is registered (`SessionOn`, `CalOn`, `CommandsOn`), and `OpenFor`, `Closed` say for which user, or whose teardown, the port is open. |
| `InterfacesProofs!RadioObeys` | `RadioSpec => []RadioFollows` | `RadioInv`: the flag of the connection follows the stack's reports (`LinkTold`), and without a race there is one call at most, whose step says how far advertising and link have followed, or which call of the stack has failed (`CallStage`, `Findable`, `Gone`). |
| `InterfacesProofs!InterfacesTypes` | `InterfacesSpec => []InterfacesTypeOK` | the composition: from `AlarmTypes`, `UsbTypes`, `RadioTypes` and `StatusTypes`, whose invariants each survive the steps of the other parts. |
| `ServicesProofs!LineAgrees` | `GnssBootSpec => []SpeedAgreed` | `SpeedInv`: past the quiet commands the processor is at 115200 baud, whatever the UART refused before; the property itself says of the receiver what is needed. |
| `ServicesProofs!SilenceMeansSuccess` | `GnssBootSpec => []SilentBootWorks` | `SetupInv`, with `InEffect` (while nothing was reported, each command before the boot's place is in the receiver) and `ModelsTried` (which models have been reported by then). The order of the commands is a table proved once (`AfterTable`). |
| `ServicesProofs!GnssBootTypes` | `GnssBootSpec => []GnssBootTypeOK` | a conjunct of `ServicesTypeOK`. |
| `StorageProofs!StorageComesUp` | `StorageSpec => []BootFallsBack` | `BootStage`: what has failed when the boot stands where it does, and on which mount point it has come up. |
| `StorageProofs!DeleteKeepsSession` | `StorageSpec => []DeleteExact` | `BootStage /\ CommandsTyped /\ DeleteInv`. `DeleteInv`: once the command has decided to delete, its target is not being recorded, unless it looked at JUMPED; a session that starts meanwhile has another name. The rest are lemmas about paths: logs of different sessions differ, a delete finds its target's log on a mounted card (`DeleteOfTarget`) and that of another session nowhere (`DeleteOfOther`). |
| `StorageProofs!StorageTypes` | `StorageSpec => []StorageTypeOK` | `StorageInv == BootStage /\ CommandsTyped /\ BootTyped /\ TreeInv /\ ListTyped`. The types are not inductive: that a page holds at most `PageSize` sessions and that a listing counts no more than there are rests on the days it has already gone through (`ListTyped`) and on the shape of the tree of directories (`TreeInv`). |
| `StorageProofs!WalkListsAll` | `StorageSpec => []ListingExact` | `StorageInv /\ ListingInv`. A session's *rank* is the number of sessions that are listed before it; `Ranked` says of a sequence that it holds just the sessions of the ranks from `first` on. `PageMade`: after each day the page under way is ranked from where the earlier pages end; `PagesBefore`, `PagesAll`: so is what the phone has received. Each request lists the card anew and counts what it skips, so the pages fit because nothing on a `steady` card changes a rank. |
| `ServicesProofs!ReceiveTypes` | `ReceiveSpec => []ReceiveTypeOK` | `ReceiveInv == ReceiveTypeOK /\ Collected`: how much of a message has been collected follows from the state of the parser, and in its payload the length is one that fits. So no bytes, lost or not, overrun `payload` or `line`. |
| `ServicesProofs!LossesEnd` | `ReceiveSpec => []Resynchronises` | `ResyncInv`: each byte of the ring has a *place*, a frame and a position in it (`Stream`), and up to the first of them things are `InOrder`: the message parser searches, or is at the place of an acknowledgement where it should be (`Settled`), or is `Astray` in a message that never was, which holds no more than `MaxPayload` and the bytes since the loss; the line holds what came of the sentence whose `$` it saw (`LineKept`). When a whole sentence has come far enough after the last loss, it is in the line, and its checksum agrees. |
| `ServicesProofs!LateHandledWasSent` | `ReceiveSpec => [][HandledSent]_receiveVars` | the converse, from the same invariant: what a parser hands out that far after a loss was sent, whole, be it a sentence or an acknowledgement (`LineEnded`, `MessageKept`). |
| `ServicesProofs!LossShows` | of a sentence with a stretch cut out, what is left is valid if and only if the exclusive or of the stretch is 0 | `XorOf` is taken bit by bit (`Bits`, `Odd`): of two parts a bit is set if it is set in one (`OddJoined`), so a stretch left out changes the whole in just the bits it has (`XorCut`); and the `*` that the parser finds is the one of the checksum (`StarredLine`). |
| `ServicesProofs!ServicesImplement` | `ServicesSpec` implies the specifications of its eight parts | each step of the composition is a step of one part, or none, of each (`ServicesMove`). |
| `ServicesProofs!ServicesTypes`, `ServicesKeepPromises` | `ServicesSpec => []ServicesTypeOK`; and the properties of the parts proved above, of the composition | from `ServicesImplement` and the theorems of the parts. |

Each proof has a lemma per action or per part of the invariant; a step lemma puts them together and the
temporal step is left to PTL.

Where an argument calls for induction over data, which the prover cannot do, another takes its place. That a sorted sequence of days is where
its ranks say rests on the least element of a set of numbers (`LeastNumber`, from the well-foundedness of `<`); that two equal sequences
have equal checksums, and what a checksum says of two sequences joined, on the number of elements with a bit set, which needs lemmas on cardinalities
only. `XorOf` and the sorting of the listing are therefore defined by sets and choice in the modules, not by recursion.

## 5. Where code and comments disagree

Four runs check what a comment or header says and find it violated by what the code does; the
counterexamples are short and each step is a line of the code.

- `CloseFlushesAll`: the header promises that close flushes all buffered data; the code takes one chunk (half of the ring).
- `RadioBack`: the radio stays off after a session that was started over BLE and stopped within 500 ms.
- `LandingMeasured`: a tick between the test alarm's unlock and its reset of the counters takes the quiet flight before the exit for a landing.
- `DeletedIsGone`: on LittleFS the paths of a delete or a listing are not translated, so the files the command says are deleted are still there.

Also seen while modelling, and explained here because the properties of section 3 exclude them or say nothing of them:

- The comment on the ring (`services/file_writer.c:49-50`) takes the writer thread for its only consumer; the closing thread is another (283). `LogFaithful` is for `solo`.
- `logger_arm()` makes any state ARMED (`services/logger.c:560-577`), also that of a session another thread has begun during a landing, against the comment at 1049; the aggregator runs on and later starts fail. Session allows `Arm` of a session in progress.
- `uart_tx_wait()` is said to prevent overlapping transmissions (`services/gnss_m10q.c:1706-1707`); a second caller resets the semaphore the first waits on and is refused by the driver. `BufferLive` is for `alone`.
- An alarm is set relative to the one correlation of the boot (`mcumgr_custom.c:1073-1091`), so when that is old its target may be past and it fires at the next pulse. `JumpNotEarly` speaks of the delay after the start only.
- A start publishes SESSION_START, which is not in the LED's mask (`services/logger.c:308`): unless the button started the session the LED keeps its old colour, against the README's table. `due` asks for a STATE_CHANGE.
- `logger_stop()` sets IDLE and unlocks (`services/logger.c:499-502`), then closes the port, and clears the callback and `usb_mode` (515-519). A USB session that the button starts in between, which nothing prevents, loses all three and goes on logging to a closed port. `overlap` records it.
- `logger_arm()` makes a USB session ARMED (`services/logger.c:577`), so the `logger_stop()` of its disconnect returns `-EINVAL` (488-494) and the port stays open with the host gone. `overlap`.
- A failed `aggregator_start()` in `logger_start_usb()` closes the port but leaves its disconnect callback registered (`services/logger.c:406-413`); it does no harm as long as no other session is on.
- `button1_short_press_handler()` ends at `-ENOTCONN` only (`main.c:164-170`): on a device whose USB did not come up (`-ENODEV`) calibration streams, and takes commands, with the port closed. `PortOwned` asks for the port of a stream only where USB is `enabled`.
- A disconnect while a calibration starts, with the callback of the one before still registered, stops it halfway, after which the start turns the rest on. `overlap`.
- `button1_isr()` takes the logger's mutex in an interrupt, through `logger_get_state()` (`main.c:321-326`); the model takes it for a plain read.
- After a failed `bt_le_adv_start()` `ble_radio_active` says that the radio is on, so every `ble_mcumgr_restart()` returns early until a stop has cleared it (`ble_mcumgr.c:319-333`), and nothing but that or the end of a link tries again. `RadioFollows` excepts it with `failed`.
- Any ten non-zero bytes at 115200 baud pass for a configured receiver (`services/gnss_m10q.c:1043-1053`), also what one at 9600 baud looks like. `SpeedAgreed` excepts it with `deaf`.
- Without DTR a configured host counts as a terminal (`services/usb_tty.c:237-239`), which the poll then takes for a closed one (143).
- Saving an empty string deletes its key, so the built-in value comes back at the next boot; two writers of one key may leave the one's value in RAM and the other's in flash (`docs/mmc5983ma-calibration-report.md:273` promises persistence). `Kept` excludes the first, and forgets a promise in the second.
- With more than 16 packets in the FIFO the stamps of the next poll go back (`services/imu_icm42688.c:535`) and the attitude filter's step is clamped (`services/orientation.c:67-90`). `StampsTrue` is for `exact`.
- `$PTH` does not always follow its `$GNGGA` at once (`docs/LOG-FORMAT.md:192`): the periodic outputs run on another thread. The lines are not modelled.
- A FIFO that cannot be started ends the orientation thread with `running` still set (`services/orientation.c:144`); nothing starts it again.
- What follows the checksum in an NMEA line is not looked at, and `*` with characters that are no digits counts as zero; an exclusive or cannot tell two losses in one line from none (`holes` in Receive), and never sees a lost stretch whose characters cancel out, like `00` in a position; `LossShows` says that of one loss inside the characters it covers it misses nothing else.
- Deletion of a session is refused in LOGGING, not in JUMPED, although the log is open in both (`mcumgr_custom.c:388`; likewise the upload, `app_init.c:39`). `DeleteExact` excludes it with `blind`.

## 6. Limits

**Only model-checked**, on the instances of section 3:

- the liveness properties (`Drains`, `Unlocks`, `CallsReturn`, `LandsEventually`, `TakeoffTried`, `AlarmEnds`, `LedCatchesUp`,
  `PortServed`): temporal proofs under fairness are beyond the prover;
- `HandledWasSent` of Receive, the one invariant that is no theorem. It is not true of all sentences: TLC finds the loss of `GG` in a body that
  contains it unnoticed. The instance's sentences contain no stretch that cancels out, and no two pieces that make a valid third. What is true of
  all is in `LateHandledWasSent` (away from losses), `LossShows` (one loss inside a sentence) and `ReceiveTypes`.

**Conditional.** `LogFaithful` and `LogEndsWithLine` are about files during which the two consumers did not overlap
and no write failed; the code promises nothing else. `ActiveRecords`, `InactiveReleases` and `RadioSilent` hold while calls of
different threads do not overlap; with overlap the code does not keep them (a start during a teardown loses its
aggregator). `EndedForGood`, `SessionsImplemented` and `Unlocks` hold
without condition. The properties of Gnss are about calls of `gnss_set_rate()` that do not overlap.
`AckedApplied` moreover excludes answers later than their wait: an acknowledgement carries class and id only, so such an answer is taken for that of the next command.
`OutputFollowsRunning`, `ThirdNewest`, `PortOwned`, `PortServed` and `RadioFollows` exclude overlaps of the kind their comments name, by a history variable that records the overlap; `RadioFollows` moreover
what a failed call of the stack leaves, and `SpeedAgreed` what `deaf` records.

**Timing and grain.** Not all that cannot happen in the models is excluded by a history variable. Some guards stand for time: the five minutes of the ground altitude outlast the rest of a `logger_arm()` (`Fires`), the 250 ms of
the DTR poll what a start does after the open (`DtrPoll`), the sleeps of `gnss_set_rate()` a transmission. Some steps are one in the model and several in the code: a tick's handler of the executive, a storage call under its lock, the
loop that fills the ground ring, the two tests of the state by a long press and the function it calls. Each is named in its module, with the reason.
`NoLostWake`, `FilterFresh`, `Kept`, `SamplingGoesOn` (for starts that did not fail), `SilentBootWorks`, `Resynchronises`, `ListingExact` on a `steady` card and the types hold across all interleavings, losses and resets of their models.

**Not modelled.** `file_writer_flush()`, `file_writer_deinit()`, `storage_deinit()`, `storage_read_file()`, `storage_write_file()`, `baro_stop()`, `baro_set_ground_reference()`, `orientation_stop()` and the receiver's power modes (no caller); the text of lines and answers; free-space queries; filters, compensation
formulas and sensor registers (floating point, I/O); parsing of a sentence's fields; the firmware upload; the vendored fusion library, board files, host tools and the attic. `PROJECT.json` gives
the reason for each part left out of a component.

## 7. Plan

Done, in this order, because losing the log of a jump is the worst this program can do: the path of the bytes (FileWriter), who starts and
stops sessions (Logger, Session), what decides it (Executive), how the receiver is told (Gnss), then the services around them (GnssBoot, Receive, Baro, Ground, Imu, Aggregator, Storage,
Settings) and the interfaces (TestAlarm, Status, UsbPort, Radio).

Then the proofs, module by module in the same order: of the 31 invariants that the passing runs check, all but `HandledWasSent` are theorems, among them the
types of both compositions, and so is the refinement of Session.

What could follow:

1. More action properties beside the invariants, like `LateHandledWasSent`: what a step of one thread may never undo of another's.
2. A listing during which sessions come and go. `ListingExact` is for a `steady` card; what a phone may miss or see twice otherwise has no property yet.
3. A module for the firmware upload, if it gets more logic than the refusal while logging.
