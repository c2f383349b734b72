--------------------------------- MODULE Baro ---------------------------------
(***************************************************************************)
(* The barometer (services/baro_bmp390.c): its initialisation, and the     *)
(* interrupt, work queue and thread that bring in each measurement.  The   *)
(* flag data_ready and the semaphore baro_sem are set by the work queue    *)
(* and consumed by the thread in separate steps, with no lock.             *)
(***************************************************************************)
EXTENDS Naturals

VARIABLES
  baroBoot,     \* baro_init(), baro_start(): how far main() is
  irq,      \* the INT pin is usable and configured
  regInt,   \* the sensor's INT_CTRL register enables the interrupt
  timer,    \* sample_work is scheduled
  unread,   \* the sensor has a measurement that was not read
  intWork,  \* int_work is pending
  data_ready,    \* data_ready
  sem,      \* baro_sem
  reader,   \* baro_thread(): where it is
  have      \* have_baro_sample

baroVars == <<baroBoot, irq, regInt, timer, unread, intWork, data_ready, sem, reader, have>>

BaroTypeOK ==
  /\ baroBoot \in {"off", "sampling", "on", "failed"}
  /\ irq \in BOOLEAN /\ regInt \in BOOLEAN /\ timer \in BOOLEAN /\ unread \in BOOLEAN
  /\ intWork \in BOOLEAN /\ data_ready \in BOOLEAN /\ have \in BOOLEAN
  /\ sem \in 0..1 /\ reader \in {"none", "wait", "check", "clear", "read", "tell"}

BaroInit ==
  /\ baroBoot = "off" /\ irq = FALSE /\ regInt = FALSE /\ timer = FALSE /\ unread = FALSE
  /\ intWork = FALSE /\ data_ready = FALSE /\ sem = 0 /\ reader = "none" /\ have = FALSE

-----------------------------------------------------------------------------
(* The boot, in main() *)

\* baro_init(): the pin, the soft reset, the identity, the calibration, then
\* baro_configure(), all of which may fail; then the sampling thread.
StartBaro ==
  /\ baroBoot = "off"
  /\ \/ /\ baroBoot' = "sampling" /\ irq' \in BOOLEAN /\ regInt' = TRUE /\ reader' = "wait"
     \/ /\ baroBoot' = "failed" /\ irq' \in BOOLEAN /\ regInt' \in BOOLEAN /\ UNCHANGED reader
  /\ UNCHANGED <<timer, unread, intWork, data_ready, sem, have>>

\* baro_configure() again, which leaves the interrupt on however far it comes,
\* and baro_start(): without a pin, samples are taken by a timer.
StartMeasuring ==
  /\ baroBoot = "sampling"
  /\ \/ baroBoot' = "on" /\ timer' = (timer \/ ~regInt \/ ~irq)
     \/ baroBoot' = "failed" /\ UNCHANGED timer
  /\ UNCHANGED <<irq, regInt, unread, intWork, data_ready, sem, reader, have>>

-----------------------------------------------------------------------------
(* Measurements *)

\* The sensor has measured: it raises the pin, or waits for the timer.
Measure ==
  /\ baroBoot = "on" /\ unread' = TRUE
  /\ intWork' = (intWork \/ (irq /\ regInt))
  /\ UNCHANGED <<baroBoot, irq, regInt, timer, data_ready, sem, reader, have>>

\* bmp390_int_handler()'s int_work_handler(), sample_work_handler()
Wake ==
  /\ intWork \/ timer
  /\ intWork' = FALSE /\ data_ready' = TRUE /\ sem' = 1
  /\ UNCHANGED <<baroBoot, irq, regInt, timer, unread, reader, have>>

TakeSem ==
  /\ reader = "wait" /\ sem = 1 /\ sem' = 0 /\ reader' = "check"
  /\ UNCHANGED <<baroBoot, irq, regInt, timer, unread, intWork, data_ready, have>>

CheckReady ==
  /\ reader = "check" /\ reader' = IF data_ready THEN "clear" ELSE "wait"
  /\ UNCHANGED <<baroBoot, irq, regInt, timer, unread, intWork, data_ready, sem, have>>

ClearReady ==
  /\ reader = "clear" /\ data_ready' = FALSE /\ reader' = "read"
  /\ UNCHANGED <<baroBoot, irq, regInt, timer, unread, intWork, sem, have>>

\* read_sensor_data(): a reading that fails is given up.
ReadData ==
  /\ reader = "read" /\ unread' = FALSE
  /\ (reader' = "tell" /\ have' = TRUE) \/ (reader' = "wait" /\ UNCHANGED have)
  /\ UNCHANGED <<baroBoot, irq, regInt, timer, intWork, data_ready, sem>>

\* Mutant: the flag is lowered at the end of the loop.
TellThenClear ==
  /\ reader = "tell" /\ reader' = "wait" /\ data_ready' = FALSE
  /\ UNCHANGED <<baroBoot, irq, regInt, timer, unread, intWork, sem, have>>

\* The callbacks.
Tell ==
  /\ reader = "tell" /\ reader' = "wait"
  /\ UNCHANGED <<baroBoot, irq, regInt, timer, unread, intWork, data_ready, sem, have>>

BaroNext ==
  \/ StartBaro \/ StartMeasuring
  \/ Measure \/ Wake \/ TakeSem \/ CheckReady \/ ClearReady \/ ReadData \/ Tell

BaroSpec == BaroInit /\ [][BaroNext]_baroVars

-----------------------------------------------------------------------------
(* Properties *)

\* No wake-up is lost between the flag and the semaphore (baro_bmp390.c:420):
\* a measurement that was not read is about to be, or its interrupt or timer is
\* still to come.
NoLostWake ==
  unread => timer \/ intWork \/ (data_ready /\ (sem = 1 \/ reader \in {"check", "clear"})) \/ reader = "read"
===============================================================================
