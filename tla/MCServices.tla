----------------------------- MODULE MCServices -----------------------------
(***************************************************************************)
(* Instances for TLC of the sensor, GNSS and storage services, which share *)
(* no state in these models: a behaviour is one of one of them, and the    *)
(* others stay in their initial states.                                    *)
(***************************************************************************)
EXTENDS Baro, Ground, Imu, Aggregator, GnssBoot, Receive, Storage, Settings

VARIABLE part

\* Two sentences, "GA1,2" and "GT58".
MCBodies == {<<71, 65, 49, 44, 50>>, <<71, 84, 53, 56>>}

MCAskedSets == {{"mag_mode", "cal"}, {"ble_name", "pps_enabled"}}

sensors == <<baroVars, groundVars, imuVars, aggVars>>
gnss == <<gnssBootVars, receiveVars>>
kept == <<storageVars, settingsVars>>
allVars == <<part, sensors, gnss, kept>>

\* The logger's callers are alike, and no property is about one of them.
CallersAlike == Permutations(BaroCallers)

ServicesInit ==
  /\ part \in {"baro", "ground", "imu", "output", "boot", "receive", "storage", "settings"}
  /\ BaroInit /\ GroundInit /\ ImuInit /\ AggInit
  /\ GnssBootInit /\ ReceiveInit /\ StorageInit /\ SettingsInit
  /\ part # "ground" => recent[1] = CHOOSE a \in Alts : TRUE
  /\ part # "settings" =>
       asked = (CHOOSE s \in AskedSets : TRUE) /\ watched = "device_uuid"

ServicesNext ==
  /\ UNCHANGED part
  /\ \/ part = "baro" /\ BaroNext /\ UNCHANGED <<groundVars, imuVars, aggVars, gnss, kept>>
     \/ part = "ground" /\ GroundNext /\ UNCHANGED <<baroVars, imuVars, aggVars, gnss, kept>>
     \/ part = "imu" /\ ImuNext /\ UNCHANGED <<baroVars, groundVars, aggVars, gnss, kept>>
     \/ part = "output" /\ AggNext /\ UNCHANGED <<baroVars, groundVars, imuVars, gnss, kept>>
     \/ part = "boot" /\ GnssBootNext /\ UNCHANGED <<sensors, receiveVars, kept>>
     \/ part = "receive" /\ ReceiveNext /\ UNCHANGED <<sensors, gnssBootVars, kept>>
     \/ part = "storage" /\ StorageNext /\ UNCHANGED <<sensors, gnss, settingsVars>>
     \/ part = "settings" /\ SettingsNext /\ UNCHANGED <<sensors, gnss, storageVars>>

ServicesSpec == ServicesInit /\ [][ServicesNext]_allVars

-----------------------------------------------------------------------------
\* The types of all parts: in particular what fifo_buf of the motion sensor
\* (imu_icm42688.c:447), the parsers' arrays (gnss_m10q.c:766, 894), the rings of
\* the UART and the ground altitude and the page of a listing can hold.
ServicesTypeOK ==
  /\ BaroTypeOK /\ GroundTypeOK /\ ImuTypeOK /\ AggTypeOK /\ GnssBootTypeOK
  /\ ReceiveTypeOK /\ StorageTypeOK /\ SettingsTypeOK
=============================================================================
