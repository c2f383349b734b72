------------------------------- MODULE GnssBoot -------------------------------
(***************************************************************************)
(* How a boot sets up the GNSS receiver (services/gnss_m10q.c, main.c):    *)
(* gnss_early_quiet() agrees on the speed of the line and silences the     *)
(* receiver, gnss_init() turns on the messages and the time pulse, and     *)
(* gnss_init_skydiving() and main() choose the dynamic model and the rate. *)
(*                                                                         *)
(* The processor may be reset at any step and the receiver goes on as it   *)
(* was set up so far.  A command may be lost or refused, and its           *)
(* acknowledgement may come when nobody waits for it any more, or when the *)
(* next command of the same class and id is waited for.                    *)
(***************************************************************************)
EXTENDS Integers, Sequences, SequencesExt

CONSTANTS
  MaxResets,    \* bound: resets of the processor
  MaxLost       \* bound: commands lost or refused

ASSUME GnssBootAssumption == MaxResets \in Nat /\ MaxLost \in Nat

Messages == {"gga", "gll", "gsa", "gsv", "rmc", "vtg"}
Needed   == {"gga", "rmc", "vtg", "gsa"}
Airborne == {"2g", "1g", "4g"}

\* The commands of a boot in their order; those of gnss_set_rate(1), which
\* main() calls once more at the end, are repeated once when they fail.
Order == <<"gga", "rmc", "vtg", "gsa", "pulse", "2g", "1g",
           "gsa_again", "rmc_again", "hz", "4g",
           "gsa_last", "rmc_last", "hz_last", "done">>
Repeated == {"gsa_again", "rmc_again", "gsa_last", "rmc_last"}
Unacknowledged == {"hz", "hz_last"}

After(step) == Order[1 + CHOOSE i \in 1..Len(Order) - 1 : Order[i] = step]

\* The message a command turns on; the class and id its acknowledgement repeats.
MessageOf(step) ==
  CASE step \in {"gsa", "gsa_again", "gsa_last"} -> "gsa"
    [] step \in {"rmc", "rmc_again", "rmc_last"} -> "rmc"
    [] step \in {"gga", "vtg"} -> step
    [] OTHER -> "none"
AckId(step) ==
  IF MessageOf(step) # "none" THEN "CFG-MSG" ELSE IF step = "pulse" THEN "VALSET" ELSE "CFG-NAV5"

VARIABLES
  bootAt,     \* main(): "sniff", "baud", "quiet", or the command it sends next
  tried,    \* the command has been sent and failed once
  host,     \* speed of the processor's UART
  speed, on, model, pulse, navHz,  \* the receiver: line speed, messages, settings
  late,     \* id of an acknowledgement that nobody waited for yet, or "none"
  warned,   \* history: a command of this boot was reported as failed
  models,   \* history: models that were reported as failed in this boot
  deaf,     \* history: see SpeedAgreed
  resets, lost  \* history

receiver == <<speed, on, model, pulse, navHz>>
bootHistory == <<warned, models>>
gnssBootVars == <<bootAt, tried, host, receiver, late, bootHistory, deaf, resets, lost>>

GnssBootTypeOK ==
  /\ bootAt \in {"sniff", "baud", "quiet", "jumped"} \cup ToSet(Order)
  /\ {tried, pulse, warned, deaf} \subseteq BOOLEAN
  /\ {host, speed} \subseteq {"9600", "115200"}
  /\ on \subseteq Messages /\ model \in Airborne \cup {"portable"} /\ navHz \in {1, 10}
  /\ late \in {"none", "CFG-MSG", "VALSET", "CFG-NAV5"}
  /\ models \subseteq Airborne /\ resets \in 0..MaxResets /\ lost \in 0..MaxLost

\* Power on: 9600 baud, all messages, no model chosen, no pulse.
GnssBootInit ==
  /\ bootAt = "sniff" /\ tried = FALSE /\ host = "115200"
  /\ speed = "9600" /\ on = Messages /\ model = "portable" /\ pulse = FALSE /\ navHz = 1
  /\ late = "none" /\ warned = FALSE /\ models = {} /\ deaf = FALSE
  /\ resets = 0 /\ lost = 0

-----------------------------------------------------------------------------
(* gnss_early_quiet() *)

\* Mutant: silence will do.
SniffNothing ==
  /\ bootAt = "sniff" /\ bootAt' = "quiet" /\ host' = "115200"
  /\ UNCHANGED <<tried, receiver, late, bootHistory, deaf, resets, lost>>

\* Half a second of listening at 115200 baud, or at the 9600 of the device tree if
\* that cannot be configured.  Ten bytes that are not zero pass for data: those of
\* a receiver at this speed, or what the chatter of one at another looks like.
Listen ==
  /\ bootAt = "sniff"
  /\ \E heard \in {FALSE, on # {}} :
       /\ bootAt' = IF heard THEN "quiet" ELSE "baud"
       /\ host' \in IF heard THEN {"115200", "9600"} ELSE {"9600"}
       /\ deaf' = (heard /\ ~(host' = "115200" /\ speed = "115200"))
  /\ UNCHANGED <<tried, receiver, late, bootHistory, resets, lost>>

\* main() goes on when the UART cannot be switched to 9600 baud, and gnss_init()
\* configures it again.
SniffFails ==
  /\ bootAt = "sniff" /\ bootAt' = Order[1] /\ host' = "115200" /\ deaf' = TRUE
  /\ UNCHANGED <<tried, receiver, late, bootHistory, resets, lost>>

Sniff == Listen \/ SniffFails

\* send_ubx_baudrate_config(), heard by a receiver at 9600 baud; the switch back
\* to 115200 may fail, and is then left to gnss_init() too.
ChangeSpeed ==
  /\ bootAt = "baud" /\ bootAt' \in {"quiet", Order[1]} /\ host' = "115200"
  /\ \/ /\ speed' = IF speed = host THEN "115200" ELSE speed
        /\ UNCHANGED <<deaf, lost>>
     \/ /\ lost < MaxLost /\ lost' = lost + 1 /\ deaf' = TRUE /\ UNCHANGED speed
  /\ UNCHANGED <<tried, on, model, pulse, navHz, late, bootHistory, resets>>

\* Six commands that nobody acknowledges, of which some may be lost; gnss_init()
\* begins by configuring the UART again.
Quiet ==
  /\ bootAt = "quiet" /\ bootAt' = Order[1] /\ host' = "115200"
  /\ \E missed \in SUBSET on :
       /\ missed # {} /\ speed = host => lost < MaxLost
       /\ lost' = IF missed # {} /\ speed = host THEN lost + 1 ELSE lost
       /\ on' = IF speed = host THEN missed ELSE on
  /\ UNCHANGED <<tried, speed, model, pulse, navHz, late, bootHistory, deaf, resets>>

-----------------------------------------------------------------------------
(* gnss_init(), gnss_init_skydiving(), main() *)

\* What the receiver does with the command.
Apply(step) ==
  /\ on' = on \cup ({MessageOf(step)} \ {"none"})
  /\ pulse' = (pulse \/ step = "pulse")
  /\ model' = IF step \in Airborne THEN step ELSE model
  /\ navHz' = IF step \in Unacknowledged THEN 1 ELSE navHz
  /\ UNCHANGED speed

\* Which command follows one that succeeded: the other models are for when the
\* one before fails.
AfterSuccess ==
  /\ bootAt' = IF bootAt = "2g" THEN "gsa_again" ELSE IF bootAt = "hz" THEN "gsa_last" ELSE After(bootAt)
  /\ tried' = FALSE

\* Which one follows one that failed: itself, once, if it is repeated; without
\* the first two models gnss_init_skydiving() returns, and main() sets the third.
AfterFailure ==
  IF bootAt \in Repeated /\ ~tried THEN tried' = TRUE /\ UNCHANGED bootAt
  ELSE bootAt' = (IF bootAt = "1g" THEN "4g" ELSE After(bootAt)) /\ tried' = FALSE

Report ==
  /\ warned' = TRUE
  /\ models' = models \cup ({bootAt} \cap Airborne)

Heard == speed = host
Loses == lost < MaxLost /\ lost' = lost + 1

Sends(step) == bootAt \in ToSet(Order) \ {"done"} /\ bootAt = step

\* ubx_send_with_ack(): the answer comes in time.
Acknowledged(step) ==
  /\ Sends(step) /\ step \notin Unacknowledged /\ Heard
  /\ Apply(step) /\ AfterSuccess
  /\ UNCHANGED <<host, late, bootHistory, deaf, resets, lost>>

\* ... it comes after the wait
AnsweredLate(step) ==
  /\ Sends(step) /\ step \notin Unacknowledged /\ Heard /\ late = "none" /\ Loses
  /\ Apply(step) /\ AfterFailure /\ late' = AckId(step) /\ Report
  /\ UNCHANGED <<host, deaf, resets>>

\* Mutant: a wait that times out is not reported.
RefusedSilently(step) ==
  /\ Sends(step) /\ step \notin Unacknowledged
  /\ IF Heard THEN Loses ELSE UNCHANGED lost
  /\ AfterFailure /\ UNCHANGED <<host, receiver, late, bootHistory, deaf, resets>>

\* ... the command is lost or refused
Refused(step) ==
  /\ Sends(step) /\ step \notin Unacknowledged
  /\ IF Heard THEN Loses ELSE UNCHANGED lost
  /\ AfterFailure /\ Report /\ UNCHANGED <<host, receiver, late, deaf, resets>>

\* ... the late answer to an earlier command is taken for that of this one,
\* which is applied, and answered later, or lost
Mistaken(step) ==
  /\ Sends(step) /\ late = AckId(step) /\ step \notin Unacknowledged
  /\ AfterSuccess
  /\ \/ Heard /\ Apply(step) /\ UNCHANGED <<late, lost>>
     \/ Loses /\ late' = "none" /\ UNCHANGED receiver
  /\ UNCHANGED <<host, bootHistory, deaf, resets>>

\* A late answer finds nobody waiting, or somebody waiting for another.
TooLate ==
  /\ late # "none" /\ late' = "none"
  /\ UNCHANGED <<bootAt, tried, host, receiver, bootHistory, deaf, resets, lost>>

\* UBX-CFG-RATE, for which nobody waits
SetHz(step) ==
  /\ Sends(step) /\ step \in Unacknowledged /\ AfterSuccess
  /\ \/ Heard /\ Apply(step) /\ UNCHANGED lost
     \/ (Heard => lost < MaxLost) /\ lost' = lost + (IF Heard THEN 1 ELSE 0) /\ UNCHANGED receiver
  /\ UNCHANGED <<host, late, bootHistory, deaf, resets>>

\* A jump: gnss_set_rate(10), see module Gnss.
Jumps ==
  /\ bootAt = "done" /\ Heard /\ bootAt' = "jumped"
  /\ on' = on \ {"gsa", "rmc"} /\ navHz' = 10
  /\ UNCHANGED <<tried, host, speed, model, pulse, late, bootHistory, deaf, resets, lost>>

\* The processor starts again, the receiver goes on.
ProcessorReset ==
  /\ resets < MaxResets /\ resets' = resets + 1
  /\ bootAt' = "sniff" /\ tried' = FALSE /\ late' = "none" /\ warned' = FALSE /\ models' = {}
  /\ deaf' = FALSE /\ UNCHANGED <<host, receiver, lost>>

GnssBootNext ==
  \/ Sniff \/ ChangeSpeed \/ Quiet \/ TooLate \/ Jumps \/ ProcessorReset
  \/ \E step \in ToSet(Order) :
       \/ Acknowledged(step) \/ AnsweredLate(step) \/ Refused(step)
       \/ Mistaken(step) \/ SetHz(step)

GnssBootSpec == GnssBootInit /\ [][GnssBootNext]_gnssBootVars

-----------------------------------------------------------------------------
(* Properties *)

\* Wherever earlier boots were interrupted, and whether or not the receiver is
\* heard at first (gnss_m10q.c:1046), both ends agree on the speed of the line
\* before the first command: unless, in this boot, the command to change it was
\* lost, the UART refused a speed, or the chatter of a receiver at another speed
\* passed for data (gnss_m10q.c:1043), which the code cannot tell.
SpeedAgreed == bootAt \notin {"sniff", "baud"} /\ ~deaf => host = "115200" /\ speed = "115200"

\* A boot that reports no failure (gnss_m10q.c:1301-1330) has turned on every
\* message, the pulse and an airborne model, late answers and all; and the
\* receiver is left without such a model (gnss_m10q.c:1952, main.c:721) only when
\* all three were tried and failed.
SilentBootWorks ==
  bootAt = "done" =>
    /\ ~warned => Needed \subseteq on /\ pulse /\ model \in Airborne
    /\ model = "portable" => models = Airborne
===============================================================================
