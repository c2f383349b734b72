------------------------------- MODULE Settings -------------------------------
(***************************************************************************)
(* The settings kept in flash (config/settings.c) and the calibration of   *)
(* the magnetometer beside them (services/mag_mmc5983ma.c), from the boot  *)
(* that loads them to the two threads that change them: the mcumgr thread  *)
(* (mcumgr_custom.c) and the work queue that serves the lines of the USB   *)
(* port (usb_cmd.c).  Either may be cut short by a reset.                  *)
(*                                                                         *)
(* A value is 0, what the firmware is built with (or no calibration), one  *)
(* of Values, or Empty, the empty string.  The settings subsystem (Zephyr) *)
(* is external: it saves a key whole or fails, and a save of no bytes      *)
(* deletes the key.                                                        *)
(***************************************************************************)
EXTENDS Integers, Sequences

CONSTANTS
  Values,    \* identities and calibrations
  AskedSets  \* bound: the keys that the commands of one behaviour set

Empty == -1
Absent == -2
Texts == {"ble_name", "log_backend"}
Keys == {"ble_name", "pps_enabled", "pcb_variant", "log_backend", "mag_mode", "device_uuid", "cal"}
Users == {"smp", "usb"}

ASSUME SettingsAssumption ==
  /\ Values \subseteq Nat \ {0}
  /\ AskedSets \subseteq SUBSET (Keys \ {"device_uuid"})

VARIABLES
  stage,    \* main(): "start", "loaded" (BLE is up), "mag" (mag_init() done), "up"
  nvm,      \* what is in flash
  ram,      \* app_settings, and state.cal under "cal"
  magOn,    \* state.initialized of the magnetometer service
  factory,  \* history: this boot found mag_mode 1
  todo,     \* user: the <<key, value>> its command still has to set
  saving,   \* user: the head of todo is set, and is being saved
  asked,    \* a member of AskedSets
  watched,  \* history: one of the keys, and
  promised  \* the value of it that was last confirmed to a user, Absent: none

settingsVars == <<stage, nvm, ram, magOn, factory, todo, saving, asked, watched, promised>>

ValueOf(k) ==
  CASE k \in Texts -> {0, 1, Empty}
    [] k = "mag_mode" -> 0..2
    [] k \in {"device_uuid", "cal"} -> Values
    [] OTHER -> {0, 1}

SettingsTypeOK ==
  /\ stage \in {"start", "loaded", "mag", "up"}
  /\ \A k \in Keys : /\ nvm[k] \in (ValueOf(k) \ {Empty}) \cup {Absent}
                     /\ ram[k] \in ValueOf(k) \cup {0}
  /\ asked \in AskedSets /\ watched \in Keys /\ promised \in ValueOf(watched) \cup {Absent}
  /\ {magOn, factory} \subseteq BOOLEAN
  /\ \A u \in Users : saving[u] => todo[u] # <<>>

Built == [k \in Keys |-> 0]

SettingsInit ==
  /\ stage = "start" /\ ram = Built /\ magOn = FALSE /\ factory = FALSE
  /\ nvm = [k \in Keys |-> Absent]
  /\ todo = [u \in Users |-> <<>>] /\ saving = [u \in Users |-> FALSE]
  /\ asked \in AskedSets /\ watched \in asked \cup {"device_uuid"}
  /\ promised = Absent

-----------------------------------------------------------------------------
(* Boot *)

\* settings_set_handler(), mag_settings_set(): what is in flash replaces the
\* default, unless it cannot be read.
Loaded(lost) ==
  [k \in Keys |-> IF nvm[k] = Absent \/ k \in lost THEN ram[k] ELSE nvm[k]]

\* The key is confirmed to be v, or can no longer be relied on.
Confirm(k, v) == promised' = IF k = watched THEN v ELSE promised
Forget(ks) == promised' = IF watched \in ks THEN Absent ELSE promised

\* app_settings_generate_uuid(), and settings_save_one() of what it made.
MakeUuid(now, lost) ==
  \/ /\ now["device_uuid"] # 0
     /\ ram' = now /\ Forget(lost) /\ UNCHANGED nvm
  \/ \E id \in Values :
     /\ now["device_uuid"] = 0 /\ ram' = [now EXCEPT !["device_uuid"] = id]
     /\ \/ /\ nvm' = [nvm EXCEPT !["device_uuid"] = id]
           /\ IF watched = "device_uuid" THEN promised' = id ELSE Forget(lost)
        \/ Forget(lost \cup {"device_uuid"}) /\ UNCHANGED nvm

\* app_settings_init(); when it fails, BLE comes up with the defaults.
InitSettings ==
  /\ stage = "start" /\ stage' = "loaded" /\ ~saving["usb"]
  /\ \/ \E lost \in {{}} \cup {{k} : k \in {x \in Keys : nvm[x] # Absent}} :
          MakeUuid(Loaded(lost), lost)
     \/ Forget(Keys) /\ UNCHANGED <<nvm, ram>>
  /\ UNCHANGED <<magOn, factory, todo, saving, asked, watched>>

\* mag_init(): the service's state is cleared, then mag_cal_load().
InitMag ==
  /\ stage = "loaded" /\ stage' = "mag"
  /\ \/ /\ magOn' = TRUE
        /\ \E ok \in BOOLEAN :
             /\ ram' = [ram EXCEPT !["cal"] = IF ok /\ nvm["cal"] # Absent THEN nvm["cal"] ELSE 0]
             /\ Forget(IF ok THEN {} ELSE {"cal"})
     \/ UNCHANGED <<magOn, ram, promised>>
  /\ UNCHANGED <<nvm, factory, todo, saving, asked, watched>>

\* main(): in mode 1 only the factory's calibration is used, mag_cal_clear().
UseMode ==
  /\ stage = "mag" /\ stage' = "up"
  /\ factory' = (magOn /\ ram["mag_mode"] = 1)
  /\ ram' = IF factory' THEN [ram EXCEPT !["cal"] = 0] ELSE ram
  /\ UNCHANGED <<nvm, magOn, todo, saving, asked, watched, promised>>

\* The device is reset or its battery is taken out, at any time.
Reset ==
  /\ stage' = "start" /\ ram' = Built /\ magOn' = FALSE /\ factory' = FALSE
  /\ todo' = [u \in Users |-> <<>>] /\ saving' = [u \in Users |-> FALSE]
  /\ UNCHANGED <<nvm, asked, watched, promised>>

-----------------------------------------------------------------------------
(* Commands *)

Begins(u, todos) ==
  /\ todo[u] = <<>> /\ todo' = [todo EXCEPT ![u] = todos]
  /\ UNCHANGED <<stage, nvm, ram, magOn, factory, saving, asked, watched, promised>>

\* tempo_mgmt_settings_set(): what is set, in this order, of what is wanted.  A
\* value that is too long or out of range (no member of ValueOf) is passed over,
\* and the answer is still a success.
Applied(named, want) ==
  LET Taken(k) ==
        IF k \in named /\ want[k] \in ValueOf(k) THEN << <<k, want[k]>> >> ELSE <<>>
  IN Taken("ble_name") \o Taken("pps_enabled") \o Taken("pcb_variant")
       \o Taken("log_backend") \o Taken("mag_mode")

SettingsSet ==
  /\ stage # "start"
  /\ \E named \in SUBSET (asked \ {"cal"}) : \E want \in [named -> {0, 1, 2, Empty}] :
       Begins("smp", Applied(named, want))

\* tempo_mgmt_mag_cal_set(): all six fields; cmd_cal_set(), cmd_mode_set()
CalSet(u) ==
  /\ "cal" \in asked /\ (u = "usb" \/ stage # "start")
  /\ \E c \in ValueOf("cal") : Begins(u, << <<"cal", c>> >>)

ModeSet == "mag_mode" \in asked /\ \E m \in ValueOf("mag_mode") : Begins("usb", << <<"mag_mode", m>> >>)

\* Mutant: a value that is in RAM already is taken for saved.
SetRamIfNew(u) ==
  /\ todo[u] # <<>> /\ ~saving[u]
  /\ LET k == todo[u][1][1]  v == todo[u][1][2] IN
     \/ /\ ram[k] # v /\ (k # "cal" \/ magOn)
        /\ ram' = [ram EXCEPT ![k] = v]
        /\ Forget({k})
        /\ saving' = [saving EXCEPT ![u] = TRUE] /\ UNCHANGED todo
     \/ /\ ram[k] = v /\ Confirm(k, v)
        /\ todo' = [todo EXCEPT ![u] = Tail(@)] /\ UNCHANGED <<ram, saving>>
  /\ UNCHANGED <<stage, nvm, magOn, factory, asked, watched>>

\* app_settings_set_...(), mag_cal_set(): the value in RAM, which readers use
\* from now on; no calibration before the service is up.
SetRam(u) ==
  /\ todo[u] # <<>> /\ ~saving[u]
  /\ LET k == todo[u][1][1]  v == todo[u][1][2] IN
     \/ /\ k # "cal" \/ magOn
        /\ ram' = [ram EXCEPT ![k] = v]
        /\ Forget({k})
        /\ saving' = [saving EXCEPT ![u] = TRUE] /\ UNCHANGED todo
     \/ /\ k = "cal" /\ ~magOn
        /\ todo' = [todo EXCEPT ![u] = <<>>] /\ UNCHANGED <<ram, saving, promised>>
  /\ UNCHANGED <<stage, nvm, magOn, factory, asked, watched>>

\* What settings_save_one() is given: the setter's own argument, but the
\* calibration as it is in RAM, which must be valid (mag_cal_save()).
Saved(k, v) == IF k = "cal" THEN ram[k] ELSE v
CanSave(k) == stage # "start" /\ (k = "cal" => ram[k] # 0)

\* settings_save_one().  The first that fails ends the command with an error;
\* what it has set before stays.
Save(u) ==
  /\ saving[u] /\ saving' = [saving EXCEPT ![u] = FALSE]
  /\ LET k == todo[u][1][1]  v == Saved(k, todo[u][1][2]) IN
     \/ /\ CanSave(k)
        /\ nvm' = [nvm EXCEPT ![k] = IF v = Empty THEN Absent ELSE v]
        /\ todo' = [todo EXCEPT ![u] = Tail(@)]
        /\ Confirm(k, IF ram[k] = v /\ v # Empty THEN v ELSE Absent)
     \/ /\ todo' = [todo EXCEPT ![u] = <<>>] /\ Forget({k})
        /\ UNCHANGED nvm
  /\ UNCHANGED <<stage, ram, magOn, factory, asked, watched>>

SettingsNext ==
  \/ InitSettings \/ InitMag \/ UseMode \/ Reset
  \/ SettingsSet \/ ModeSet
  \/ \E u \in Users : CalSet(u) \/ SetRam(u) \/ Save(u)

SettingsSpec == SettingsInit /\ [][SettingsNext]_settingsVars

-----------------------------------------------------------------------------
(* Properties *)

\* What a user was told is set is set, through every later reset, until it is
\* set again or cannot be saved or read (config/settings.c:251): it is in
\* flash, and once its part of the boot is done it is in RAM; a calibration
\* waits in flash while mode 1 uses the factory's (main.c:798).  The empty
\* string is left out: saving it deletes the key (see the README).
InForce(k) ==
  CASE k = "cal" -> stage = "up" /\ magOn /\ ~factory
    [] OTHER -> stage # "start"
Kept ==
  promised # Absent =>
    /\ nvm[watched] = promised
    /\ InForce(watched) => ram[watched] = promised
===============================================================================
