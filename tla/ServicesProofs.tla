----------------------------- MODULE ServicesProofs -----------------------------
(***************************************************************************)
(* Theorems about the rest of the services and about all of them together. *)
(* GnssBoot, for any number of resets and of lost commands: the types,     *)
(* that both ends of the line agree on its speed, and that a boot that     *)
(* reports no failure has set up the receiver.  Receive, for any           *)
(* sentences, sizes of the rings and losses: the types, and that a loss    *)
(* costs only the frames it touches.  MCServices: each service does in it  *)
(* what its own specification lets it do, so what is proved of each holds  *)
(* of their composition.                                                   *)
(***************************************************************************)
EXTENDS MCServices, SensorProofs, StorageProofs

-----------------------------------------------------------------------------
(* The commands to the receiver and their order *)

Commands == {"gga", "rmc", "vtg", "gsa", "pulse", "2g", "1g", "gsa_again", "rmc_again",
             "hz", "4g", "gsa_last", "rmc_last", "hz_last", "done"}

LEMMA OrderIs ==
  /\ Order[1] = "gga" /\ Order[2] = "rmc" /\ Order[3] = "vtg" /\ Order[4] = "gsa"
  /\ Order[5] = "pulse" /\ Order[6] = "2g" /\ Order[7] = "1g" /\ Order[8] = "gsa_again"
  /\ Order[9] = "rmc_again" /\ Order[10] = "hz" /\ Order[11] = "4g"
  /\ Order[12] = "gsa_last" /\ Order[13] = "rmc_last" /\ Order[14] = "hz_last"
  /\ Order[15] = "done"
BY DEF Order

LEMMA OrderHolds == ToSet(Order) = Commands /\ Len(Order) = 15
<1>1. Len(Order) = 15 /\ DOMAIN Order = 1..15
  BY DEF Order
<1>2. ToSet(Order) = {Order[i] : i \in 1..15}
  BY <1>1 DEF ToSet
<1>3. ASSUME NEW i \in 1..15 PROVE Order[i] \in Commands
  BY OrderIs DEF Commands
<1>4. ASSUME NEW c \in Commands PROVE \E i \in 1..15 : Order[i] = c
  BY OrderIs DEF Commands
<1>5. QED
  BY <1>1, <1>2, <1>3, <1>4

\* No command occurs twice.
LEMMA OrderInjective == \A i, j \in 1..15 : Order[i] = Order[j] => i = j
<1> SUFFICES ASSUME NEW i \in 1..15, NEW j \in 1..15, Order[i] = Order[j] PROVE i = j
  OBVIOUS
<1>1. i \in {1, 2, 3, 4, 5, 6, 7, 8, 9, 10, 11, 12, 13, 14, 15}
  OBVIOUS
<1>2. j \in {1, 2, 3, 4, 5, 6, 7, 8, 9, 10, 11, 12, 13, 14, 15}
  OBVIOUS
<1>3. QED
  BY <1>1, <1>2, OrderIs

LEMMA AfterNext == \A n \in 1..14 : After(Order[n]) = Order[n + 1]
<1> SUFFICES ASSUME NEW n \in 1..14 PROVE After(Order[n]) = Order[n + 1]
  OBVIOUS
<1> DEFINE k == CHOOSE i \in 1..Len(Order) - 1 : Order[i] = Order[n]
<1>1. After(Order[n]) = Order[1 + k]
  BY Zenon DEF After
<1>2. Len(Order) - 1 = 14
  BY OrderHolds
<1>3. k \in 1..14 /\ Order[k] = Order[n]
  BY <1>2
<1> HIDE DEF k
<1>4. k = n
  BY <1>3, OrderInjective
<1>5. QED
  BY <1>1, <1>4

LEMMA AfterTable ==
  /\ After("gga") = "rmc" /\ After("rmc") = "vtg" /\ After("vtg") = "gsa"
  /\ After("gsa") = "pulse" /\ After("pulse") = "2g" /\ After("2g") = "1g"
  /\ After("1g") = "gsa_again" /\ After("gsa_again") = "rmc_again"
  /\ After("rmc_again") = "hz" /\ After("hz") = "4g" /\ After("4g") = "gsa_last"
  /\ After("gsa_last") = "rmc_last" /\ After("rmc_last") = "hz_last"
  /\ After("hz_last") = "done"
<1>2. /\ After(Order[1]) = Order[2] /\ After(Order[2]) = Order[3] /\ After(Order[3]) = Order[4]
      /\ After(Order[4]) = Order[5] /\ After(Order[5]) = Order[6] /\ After(Order[6]) = Order[7]
      /\ After(Order[7]) = Order[8] /\ After(Order[8]) = Order[9] /\ After(Order[9]) = Order[10]
      /\ After(Order[10]) = Order[11] /\ After(Order[11]) = Order[12]
      /\ After(Order[12]) = Order[13] /\ After(Order[13]) = Order[14]
      /\ After(Order[14]) = Order[15]
  BY AfterNext
<1>3. QED
  BY OrderIs, <1>2

\* A command that has been dealt with is followed by another one, or itself.
LEMMA AfterIsCommand == \A c \in Commands \ {"done"} : After(c) \in Commands
BY AfterTable DEF Commands

-----------------------------------------------------------------------------
(* The speed of the line *)

SpeedInv ==
  /\ bootAt = "baud" => host = "9600"
  /\ bootAt \notin {"sniff", "baud", "quiet"} => host = "115200"
  /\ SpeedAgreed

-----------------------------------------------------------------------------
(* What a silent boot has done *)

\* The commands that come after the first ones.
PastGga   == Commands \ {"gga"}
PastRmc   == PastGga \ {"rmc"}
PastVtg   == PastRmc \ {"vtg"}
PastGsa   == PastVtg \ {"gsa"}
PastPulse == PastGsa \ {"pulse"}
PastModel == PastPulse \ {"2g"}

\* As long as no failure was reported, all that was sent is in effect.
InEffect ==
  /\ bootAt \in PastGga => "gga" \in on
  /\ bootAt \in PastRmc => "rmc" \in on
  /\ bootAt \in PastVtg => "vtg" \in on
  /\ bootAt \in PastGsa => "gsa" \in on
  /\ bootAt \in PastPulse => pulse
  /\ bootAt \in PastModel => model \in Airborne

\* A receiver without an airborne model has had each of them that was tried
\* reported, and all of them once the last was.
ModelsTried ==
  /\ bootAt = "1g" => "2g" \in models
  /\ bootAt = "4g" => {"2g", "1g"} \subseteq models
  /\ bootAt \in {"gsa_last", "rmc_last", "hz_last", "done"} => Airborne \subseteq models
  /\ bootAt \notin {"gsa_again", "rmc_again", "hz"}

\* A late answer is to a command that was reported, and applied: one for a model
\* means that some airborne model is set.
SetupInv ==
  /\ late # "none" => warned
  /\ late = "CFG-NAV5" => model # "portable"
  /\ ~warned => InEffect
  /\ model = "portable" => ModelsTried

-----------------------------------------------------------------------------
(* The steps of a boot *)

\* The command that a success or a failure leads to.
LEMMA SuccessTo ==
  ASSUME AfterSuccess, bootAt \in Commands \ {"done"}
  PROVE  /\ bootAt' \in Commands
         /\ bootAt' = IF bootAt = "2g" THEN "gsa_again"
                      ELSE IF bootAt = "hz" THEN "gsa_last" ELSE After(bootAt)
<1>1. bootAt' = IF bootAt = "2g" THEN "gsa_again"
                ELSE IF bootAt = "hz" THEN "gsa_last" ELSE After(bootAt)
  BY DEF AfterSuccess
<1>2. {"gsa_again", "gsa_last"} \subseteq Commands
  BY DEF Commands
<1>3. QED
  BY <1>1, <1>2, AfterIsCommand

LEMMA FailureTo ==
  ASSUME AfterFailure, bootAt \in Commands \ {"done"}
  PROVE  /\ bootAt' \in Commands
         /\ \/ bootAt' = bootAt /\ bootAt \in Repeated
            \/ bootAt' = IF bootAt = "1g" THEN "4g" ELSE After(bootAt)
         /\ tried' \in BOOLEAN
<1>1. \/ bootAt' = bootAt /\ bootAt \in Repeated
      \/ bootAt' = IF bootAt = "1g" THEN "4g" ELSE After(bootAt)
  BY DEF AfterFailure
<1>2. "4g" \in Commands
  BY DEF Commands
<1>3. tried' \in BOOLEAN
  BY Zenon DEF AfterFailure
<1>4. QED
  BY <1>1, <1>2, <1>3, AfterIsCommand

\* What is said of a step that leaves the line's speed alone.
CommandStep ==
  \E step \in ToSet(Order) :
    \/ Acknowledged(step) \/ AnsweredLate(step) \/ Refused(step)
    \/ Mistaken(step) \/ SetHz(step)

LEMMA CommandSteps ==
  ASSUME CommandStep
  PROVE  /\ bootAt \in Commands \ {"done"} /\ bootAt' \in Commands
         /\ host' = host /\ speed' = speed /\ deaf' = deaf /\ resets' = resets
         /\ tried' \in BOOLEAN
<1>1. PICK step \in ToSet(Order) :
        \/ Acknowledged(step) \/ AnsweredLate(step) \/ Refused(step)
        \/ Mistaken(step) \/ SetHz(step)
  BY DEF CommandStep
<1>2. bootAt \in Commands \ {"done"}
  BY <1>1, OrderHolds DEF Acknowledged, AnsweredLate, Refused, Mistaken, SetHz, Sends
<1>3. AfterSuccess \/ AfterFailure
  BY <1>1, Zenon DEF Acknowledged, AnsweredLate, Refused, Mistaken, SetHz
<1>4. bootAt' \in Commands
  BY <1>2, <1>3, SuccessTo, FailureTo
<1>5. tried' \in BOOLEAN
  BY <1>2, <1>3, FailureTo, Zenon DEF AfterSuccess
<1>6. host' = host /\ speed' = speed /\ deaf' = deaf /\ resets' = resets
  BY <1>1 DEF Acknowledged, AnsweredLate, Refused, Mistaken, SetHz, Apply, receiver
<1>7. QED
  BY <1>2, <1>4, <1>5, <1>6

LEMMA SpeedInvInit == GnssBootInit => SpeedInv
BY DEF GnssBootInit, SpeedInv, SpeedAgreed

LEMMA SpeedInvStep == GnssBootTypeOK /\ SpeedInv /\ [GnssBootNext]_gnssBootVars => SpeedInv'
<1> SUFFICES ASSUME GnssBootTypeOK, SpeedInv, [GnssBootNext]_gnssBootVars PROVE SpeedInv'
  OBVIOUS
<1> USE DEF SpeedInv, SpeedAgreed
<1>1. {host, speed} \subseteq {"9600", "115200"}
  BY DEF GnssBootTypeOK
<1>2. CASE Sniff
  <2>1. CASE Listen
    <3>1. PICK heard \in {FALSE, on # {}} :
            /\ bootAt' = IF heard THEN "quiet" ELSE "baud"
            /\ host' \in IF heard THEN {"115200", "9600"} ELSE {"9600"}
            /\ deaf' = (heard /\ ~(host' = "115200" /\ speed = "115200"))
      BY <2>1, Zenon DEF Listen
    <3>2. speed' = speed
      BY <2>1 DEF Listen, receiver
    <3>3. QED
      BY <3>1, <3>2
  <2>2. CASE SniffFails
    <3>1. bootAt' = "gga" /\ host' = "115200" /\ deaf'
      BY <2>2, OrderIs DEF SniffFails
    <3>2. QED
      BY <3>1
  <2>3. QED
    BY <1>2, <2>1, <2>2 DEF Sniff
<1>3. CASE ChangeSpeed
  <2>1. bootAt = "baud" /\ bootAt' \in {"quiet", "gga"} /\ host' = "115200"
    BY <1>3, OrderIs DEF ChangeSpeed
  <2>2. speed' = (IF speed = host THEN "115200" ELSE speed) \/ deaf'
    BY <1>3, Zenon DEF ChangeSpeed
  <2>3. QED
    BY <1>1, <2>1, <2>2
<1>4. CASE Quiet
  <2>1. bootAt' = "gga"
    BY <1>4, OrderIs DEF Quiet
  <2>2. QED
    BY <1>4, <2>1 DEF Quiet
<1>5. CASE CommandStep
  <2>1. {"sniff", "baud", "quiet"} \cap Commands = {}
    BY DEF Commands
  <2>2. QED
    BY <1>5, <2>1, CommandSteps
<1>6. CASE Jumps
  BY <1>6 DEF Jumps
<1>7. CASE TooLate \/ ProcessorReset \/ UNCHANGED gnssBootVars
  BY <1>7 DEF TooLate, ProcessorReset, gnssBootVars, receiver
<1>8. QED
  BY <1>2, <1>3, <1>4, <1>5, <1>6, <1>7 DEF GnssBootNext, CommandStep

-----------------------------------------------------------------------------
(* Types *)

LEMMA GnssBootTypeInit == GnssBootInit => GnssBootTypeOK
<1> SUFFICES ASSUME GnssBootInit PROVE GnssBootTypeOK
  OBVIOUS
<1>1. tried = FALSE /\ pulse = FALSE /\ warned = FALSE /\ deaf = FALSE
  BY DEF GnssBootInit
<1>2. {tried, pulse, warned, deaf} \subseteq BOOLEAN
  BY <1>1
<1>3. QED
  BY <1>2, GnssBootAssumption DEF GnssBootInit, GnssBootTypeOK, Messages

LEMMA MessageKnown == \A step : MessageOf(step) \in Messages \cup {"none"}
BY DEF MessageOf, Messages

LEMMA AckIdKnown == \A step : AckId(step) \in {"CFG-MSG", "VALSET", "CFG-NAV5"}
BY DEF AckId

\* The receiver's settings keep their types whatever command it applies.
LEMMA ReceiverTyped ==
  ASSUME GnssBootTypeOK, NEW step, Apply(step) \/ UNCHANGED receiver
  PROVE  /\ pulse' \in BOOLEAN /\ on' \subseteq Messages /\ speed' = speed
         /\ model' \in Airborne \cup {"portable"} /\ navHz' \in {1, 10}
<1>1. pulse \in BOOLEAN /\ on \subseteq Messages
      /\ model \in Airborne \cup {"portable"} /\ navHz \in {1, 10}
  BY DEF GnssBootTypeOK
<1>2. CASE UNCHANGED receiver
  BY <1>1, <1>2 DEF receiver
<1>3. CASE Apply(step)
  <2>1. pulse' = (pulse \/ step = "pulse")
    BY <1>3, Zenon DEF Apply
  <2>2. pulse' \in BOOLEAN
    BY <2>1, Zenon
  <2>3. on' \subseteq Messages
    BY <1>1, <1>3, MessageKnown DEF Apply
  <2>4. model' \in Airborne \cup {"portable"} /\ navHz' \in {1, 10} /\ speed' = speed
    BY <1>1, <1>3 DEF Apply
  <2>5. QED
    BY <2>2, <2>3, <2>4
<1>4. QED
  BY <1>2, <1>3

\* What a command does to the history, the late answer and the failures so far.
LEMMA AcknowledgedEffects ==
  ASSUME NEW step, Acknowledged(step)
  PROVE  UNCHANGED bootHistory /\ late' = late /\ lost' = lost
BY Zenon DEF Acknowledged

LEMMA AnsweredLateEffects ==
  ASSUME NEW step, AnsweredLate(step)
  PROVE  Report /\ late' = AckId(step) /\ Loses
BY Zenon DEF AnsweredLate

LEMMA RefusedEffects ==
  ASSUME NEW step, Refused(step)
  PROVE  Report /\ late' = late /\ (Loses \/ lost' = lost)
BY Zenon DEF Refused

LEMMA MistakenEffects ==
  ASSUME NEW step, Mistaken(step)
  PROVE  UNCHANGED bootHistory /\ (late' = late \/ late' = "none") /\ (Loses \/ lost' = lost)
BY Zenon DEF Mistaken

LEMMA SetHzEffects ==
  ASSUME NEW step, SetHz(step), lost \in 0..MaxLost
  PROVE  UNCHANGED bootHistory /\ late' = late /\ lost' \in 0..MaxLost
<1>1. UNCHANGED bootHistory /\ late' = late
  BY Zenon DEF SetHz
<1>2. lost' \in 0..MaxLost
  BY GnssBootAssumption DEF SetHz
<1>3. QED
  BY <1>1, <1>2

LEMMA CommandEffects ==
  ASSUME GnssBootTypeOK, NEW step,
         \/ Acknowledged(step) \/ AnsweredLate(step) \/ Refused(step)
         \/ Mistaken(step) \/ SetHz(step)
  PROVE  /\ Report \/ UNCHANGED bootHistory
         /\ late' = late \/ late' = "none" \/ late' = AckId(step)
         /\ lost' \in 0..MaxLost
<1>1. lost \in 0..MaxLost
  BY DEF GnssBootTypeOK
<1>2. Loses \/ lost' = lost => lost' \in 0..MaxLost
  BY <1>1, GnssBootAssumption DEF Loses
<1>3. QED
  BY <1>1, <1>2, AcknowledgedEffects, AnsweredLateEffects, RefusedEffects, MistakenEffects,
     SetHzEffects

LEMMA CommandTyped ==
  ASSUME GnssBootTypeOK, NEW step \in ToSet(Order),
         \/ Acknowledged(step) \/ AnsweredLate(step) \/ Refused(step)
         \/ Mistaken(step) \/ SetHz(step)
  PROVE  GnssBootTypeOK'
<1>1. CommandStep
  BY DEF CommandStep
<1>2. warned \in BOOLEAN /\ deaf \in BOOLEAN /\ models \subseteq Airborne /\ lost \in 0..MaxLost
      /\ late \in {"none", "CFG-MSG", "VALSET", "CFG-NAV5"} /\ resets \in 0..MaxResets
  BY DEF GnssBootTypeOK
<1>3. /\ Report \/ UNCHANGED bootHistory
      /\ late' = late \/ late' = "none" \/ late' = AckId(step)
      /\ lost' \in 0..MaxLost
  BY CommandEffects
<1>4. Apply(step) \/ UNCHANGED receiver
  BY Zenon DEF Acknowledged, AnsweredLate, Refused, Mistaken, SetHz
<1>5. /\ pulse' \in BOOLEAN /\ on' \subseteq Messages /\ speed' = speed
      /\ model' \in Airborne \cup {"portable"} /\ navHz' \in {1, 10}
  BY <1>4, ReceiverTyped
<1>6. warned' \in BOOLEAN
  BY <1>2, <1>3, Zenon DEF Report, bootHistory
<1>7. models' \subseteq Airborne
  <2>1. CASE Report
    BY <1>2, <2>1, Zenon DEF Report
  <2>2. CASE UNCHANGED bootHistory
    BY <1>2, <2>2, Zenon DEF bootHistory
  <2>3. QED
    BY <1>3, <2>1, <2>2
<1>8. late' \in {"none", "CFG-MSG", "VALSET", "CFG-NAV5"}
  BY <1>2, <1>3, AckIdKnown
<1>9. /\ bootAt' \in ToSet(Order) /\ tried' \in BOOLEAN
      /\ host' = host /\ deaf' = deaf /\ resets' = resets
  BY <1>1, CommandSteps, OrderHolds
<1>10. {tried', pulse', warned', deaf'} \subseteq BOOLEAN
  BY <1>2, <1>5, <1>6, <1>9
<1>11. QED
  BY <1>2, <1>3, <1>5, <1>7, <1>8, <1>9, <1>10 DEF GnssBootTypeOK

LEMMA GnssBootTypeStep == GnssBootTypeOK /\ [GnssBootNext]_gnssBootVars => GnssBootTypeOK'
<1> SUFFICES ASSUME GnssBootTypeOK, [GnssBootNext]_gnssBootVars PROVE GnssBootTypeOK'
  OBVIOUS
<1> USE DEF GnssBootTypeOK
<1> Order[1] \in ToSet(Order)
  BY OrderIs, OrderHolds DEF Commands
<1>1. CASE Sniff
  <2>1. deaf' \in BOOLEAN
    BY <1>1, Zenon DEF Sniff, Listen, SniffFails
  <2>2. bootAt' \in {"quiet", "baud", Order[1]} /\ host' \in {"115200", "9600"}
    BY <1>1 DEF Sniff, Listen, SniffFails
  <2>3. UNCHANGED <<tried, receiver, late, bootHistory, resets, lost>>
    BY <1>1 DEF Sniff, Listen, SniffFails
  <2>4. {tried', pulse', warned', deaf'} \subseteq BOOLEAN
    BY <2>1, <2>3 DEF receiver, bootHistory
  <2>5. QED
    BY <2>2, <2>3, <2>4 DEF receiver, bootHistory
<1>2. CASE ChangeSpeed
  <2>1. deaf' = deaf \/ deaf' = TRUE
    BY <1>2, Zenon DEF ChangeSpeed
  <2>2. {tried', pulse', warned', deaf'} \subseteq BOOLEAN
    BY <1>2, <2>1 DEF ChangeSpeed, bootHistory
  <2>3. lost' \in 0..MaxLost
    BY <1>2, GnssBootAssumption DEF ChangeSpeed
  <2>4. QED
    BY <1>2, <2>2, <2>3 DEF ChangeSpeed, bootHistory
<1>3. CASE Quiet
  <2>1. bootAt' \in ToSet(Order)
    BY <1>3 DEF Quiet
  <2>2. on' \subseteq Messages /\ lost' \in 0..MaxLost
    BY <1>3, GnssBootAssumption DEF Quiet
  <2>3. QED
    BY <1>3, <2>1, <2>2 DEF Quiet, bootHistory
<1>4. CASE CommandStep
  BY <1>4, CommandTyped DEF CommandStep
<1>5. CASE TooLate \/ Jumps
  BY <1>5 DEF TooLate, Jumps, receiver, bootHistory
<1>6. CASE ProcessorReset
  <2>1. {tried', warned', deaf'} \subseteq BOOLEAN
    BY <1>6, Zenon DEF ProcessorReset
  <2>2. QED
    BY <1>6, <2>1, GnssBootAssumption DEF ProcessorReset, receiver
<1>7. CASE UNCHANGED gnssBootVars
  BY <1>7 DEF gnssBootVars, receiver, bootHistory
<1>8. QED
  BY <1>1, <1>2, <1>3, <1>4, <1>5, <1>6, <1>7 DEF GnssBootNext, CommandStep

\* The types of the boot and of the receiver: its set of messages, its speed and
\* its model, and the bounds on what is lost and reset.
THEOREM GnssBootTypes == GnssBootSpec => []GnssBootTypeOK
BY GnssBootTypeInit, GnssBootTypeStep, PTL DEF GnssBootSpec

\* Wherever earlier boots were interrupted, both ends agree on the speed of the
\* line before the first command, unless in this boot the command to change it
\* was lost, the UART refused a speed, or chatter at another speed passed for data
\* (gnss_m10q.c, gnss_early_quiet()).
THEOREM LineAgrees == GnssBootSpec => []SpeedAgreed
<1>1. SpeedInv => SpeedAgreed
  BY DEF SpeedInv
<1>2. QED
  BY GnssBootTypeInit, GnssBootTypeStep, SpeedInvInit, SpeedInvStep, <1>1, PTL DEF GnssBootSpec

-----------------------------------------------------------------------------
(* A boot that reports no failure *)

LEMMA SetupInvInit == GnssBootInit => SetupInv
BY DEF GnssBootInit, SetupInv, InEffect, PastGga, PastRmc, PastVtg, PastGsa, PastPulse, PastModel,
   Commands, ModelsTried

\* The messages that a command turns on.
LEMMA TurnsOn ==
  /\ MessageOf("gga") = "gga" /\ MessageOf("rmc") = "rmc"
  /\ MessageOf("vtg") = "vtg" /\ MessageOf("gsa") = "gsa"
BY DEF MessageOf

\* A command that is applied, and followed by the next one, keeps all in effect.
LEMMA InEffectStep ==
  ASSUME NEW step \in Commands \ {"done"}, bootAt = step, InEffect, Apply(step), AfterSuccess
  PROVE  InEffect'
<1>1. bootAt' \in Commands /\ bootAt' = IF step = "2g" THEN "gsa_again"
                                        ELSE IF step = "hz" THEN "gsa_last" ELSE After(step)
  BY SuccessTo
<1>2. on \subseteq on' /\ (MessageOf(step) # "none" => MessageOf(step) \in on')
  BY DEF Apply
<1>3. pulse \/ step = "pulse" => pulse'
  BY Zenon DEF Apply
<1>4. model' = IF step \in Airborne THEN step ELSE model
  BY Zenon DEF Apply
<1> USE DEF InEffect, PastGga, PastRmc, PastVtg, PastGsa, PastPulse, PastModel, Commands
<1>5. bootAt' \in PastGga => "gga" \in on'
  BY <1>1, <1>2, AfterTable, TurnsOn
<1>6. bootAt' \in PastRmc => "rmc" \in on'
  BY <1>1, <1>2, AfterTable, TurnsOn
<1>7. bootAt' \in PastVtg => "vtg" \in on'
  BY <1>1, <1>2, AfterTable, TurnsOn
<1>8. bootAt' \in PastGsa => "gsa" \in on'
  BY <1>1, <1>2, AfterTable, TurnsOn
<1>9. bootAt' \in PastPulse => pulse'
  BY <1>1, <1>3, AfterTable
<1>10. bootAt' \in PastModel => model' \in Airborne
  BY <1>1, <1>4, AfterTable DEF Airborne
<1>11. QED
  BY <1>5, <1>6, <1>7, <1>8, <1>9, <1>10

\* One that is not applied to the receiver, and need not be, does so too.
LEMMA InEffectSkip ==
  ASSUME NEW step \in Unacknowledged, bootAt = step, InEffect, UNCHANGED receiver, AfterSuccess
  PROVE  InEffect'
<1>1. step \in Commands \ {"done"}
  BY DEF Unacknowledged, Commands
<1>2. bootAt' \in Commands /\ bootAt' = IF step = "2g" THEN "gsa_again"
                                        ELSE IF step = "hz" THEN "gsa_last" ELSE After(step)
  BY <1>1, SuccessTo
<1>3. bootAt \in PastModel
  BY DEF Unacknowledged, PastGga, PastRmc, PastVtg, PastGsa, PastPulse, PastModel, Commands
<1>4. {"gga", "rmc", "vtg", "gsa"} \subseteq on /\ pulse /\ model \in Airborne
  BY <1>3 DEF InEffect, PastGga, PastRmc, PastVtg, PastGsa, PastPulse, PastModel, Commands
<1>5. QED
  BY <1>4 DEF receiver, InEffect

\* While the receiver has no airborne model, the commands for one fail.
LEMMA ModelsTriedFailure ==
  ASSUME bootAt \in Commands \ {"done"}, ModelsTried, Report, AfterFailure
  PROVE  ModelsTried'
<1>1. \/ bootAt' = bootAt /\ bootAt \in Repeated
      \/ bootAt' = IF bootAt = "1g" THEN "4g" ELSE After(bootAt)
  BY FailureTo
<1>2. models \subseteq models' /\ (bootAt \in Airborne => bootAt \in models')
  BY DEF Report
<1>3. QED
  BY <1>1, <1>2, AfterTable DEF ModelsTried, Commands, Airborne, Repeated

LEMMA ModelsTriedSuccess ==
  ASSUME bootAt \in Commands \ {"done"}, bootAt \notin Airborne, ModelsTried, AfterSuccess,
         UNCHANGED models
  PROVE  ModelsTried'
<1>1. bootAt' = IF bootAt = "2g" THEN "gsa_again"
                ELSE IF bootAt = "hz" THEN "gsa_last" ELSE After(bootAt)
  BY SuccessTo
<1>2. QED
  BY <1>1, AfterTable DEF ModelsTried, Commands, Airborne

\* Commands for a model are those whose acknowledgement is of UBX-CFG-NAV5.
LEMMA ModelCommands ==
  \A step \in Commands \ {"done"} :
    step \notin Unacknowledged => (step \in Airborne <=> AckId(step) = "CFG-NAV5")
BY DEF AckId, MessageOf, Commands, Unacknowledged, Airborne

LEMMA CommandIsAt ==
  ASSUME NEW step, Sends(step) PROVE bootAt = step /\ step \in Commands \ {"done"}
BY OrderHolds DEF Sends

\* A model, once set, is never unset.
LEMMA ModelStays ==
  ASSUME NEW step, Apply(step)
  PROVE  /\ model' = "portable" => model = "portable"
         /\ step \in Airborne => model' # "portable"
BY DEF Apply, Airborne

LEMMA SetupAcknowledged ==
  ASSUME SetupInv, NEW step, Acknowledged(step) PROVE SetupInv'
<1>1. bootAt = step /\ step \in Commands \ {"done"}
  BY CommandIsAt DEF Acknowledged
<1>2. Apply(step) /\ AfterSuccess /\ late' = late /\ warned' = warned /\ models' = models
  BY Zenon DEF Acknowledged, bootHistory
<1>3. late' # "none" => warned'
  BY <1>2 DEF SetupInv
<1>4. late' = "CFG-NAV5" => model' # "portable"
  BY <1>2, ModelStays DEF SetupInv
<1>5. ~warned' => InEffect'
  BY <1>1, <1>2, InEffectStep DEF SetupInv
<1>6. model' = "portable" => ModelsTried'
  BY <1>1, <1>2, ModelStays, ModelsTriedSuccess DEF SetupInv
<1>7. QED
  BY <1>3, <1>4, <1>5, <1>6 DEF SetupInv

LEMMA SetupFailed ==
  ASSUME SetupInv, NEW step, AnsweredLate(step) \/ Refused(step) PROVE SetupInv'
<1>1. bootAt = step /\ step \in Commands \ {"done"} /\ step \notin Unacknowledged
  BY CommandIsAt DEF AnsweredLate, Refused
<1>2. AfterFailure /\ Report /\ warned'
  BY Zenon DEF AnsweredLate, Refused, Report
<1>3. (late' = late /\ UNCHANGED receiver) \/ (late' = AckId(step) /\ Apply(step))
  <2>1. AnsweredLate(step) => late' = AckId(step) /\ Apply(step)
    BY Zenon DEF AnsweredLate
  <2>2. Refused(step) => late' = late /\ UNCHANGED receiver
    BY Zenon DEF Refused
  <2>3. QED
    BY <2>1, <2>2, Zenon
<1>4. model' = "portable" => model = "portable"
  BY <1>3, ModelStays DEF receiver
<1>5. late' = "CFG-NAV5" => model' # "portable"
  BY <1>1, <1>3, ModelStays, ModelCommands DEF SetupInv, receiver
<1>6. model' = "portable" => ModelsTried'
  BY <1>1, <1>2, <1>4, ModelsTriedFailure DEF SetupInv
<1>7. QED
  BY <1>2, <1>5, <1>6 DEF SetupInv

LEMMA SetupMistaken ==
  ASSUME SetupInv, NEW step, Mistaken(step) PROVE SetupInv'
<1>1. bootAt = step /\ step \in Commands \ {"done"}
  BY CommandIsAt DEF Mistaken
<1>2. late = AckId(step) /\ step \notin Unacknowledged /\ AfterSuccess
      /\ warned' = warned /\ models' = models
  BY Zenon DEF Mistaken, bootHistory
<1>3. (late' = late /\ Apply(step)) \/ (late' = "none" /\ UNCHANGED receiver)
  <2>1. \/ Heard /\ Apply(step) /\ UNCHANGED <<late, lost>>
        \/ Loses /\ late' = "none" /\ UNCHANGED receiver
    BY Zenon DEF Mistaken
  <2>2. QED
    BY <2>1, Zenon
<1>4. warned'
  BY <1>2, AckIdKnown DEF SetupInv
<1>5. model' = "portable" => model = "portable"
  BY <1>3, ModelStays DEF receiver
<1>6. late' = "CFG-NAV5" => model' # "portable"
  BY <1>3, <1>5 DEF SetupInv
<1>7. model' = "portable" => ModelsTried'
  <2>1. SUFFICES ASSUME model' = "portable" PROVE ModelsTried'
    OBVIOUS
  <2>2. step \notin Airborne
    BY <1>1, <1>2, <1>5, <2>1, ModelCommands DEF SetupInv
  <2>3. QED
    BY <1>1, <1>2, <1>5, <2>1, <2>2, ModelsTriedSuccess DEF SetupInv
<1>8. QED
  BY <1>4, <1>6, <1>7 DEF SetupInv

LEMMA SetupRate ==
  ASSUME SetupInv, NEW step, SetHz(step) PROVE SetupInv'
<1>1. bootAt = step /\ step \in Commands \ {"done"} /\ step \in Unacknowledged
  BY CommandIsAt DEF SetHz
<1>2. AfterSuccess /\ late' = late /\ warned' = warned /\ models' = models
  BY Zenon DEF SetHz, bootHistory
<1>3. Apply(step) \/ UNCHANGED receiver
  BY Zenon DEF SetHz
<1>4. model' = "portable" => model = "portable"
  BY <1>3, ModelStays DEF receiver
<1>5. ~warned' => InEffect'
  BY <1>1, <1>2, <1>3, InEffectStep, InEffectSkip DEF SetupInv
<1>6. step \notin Airborne
  BY <1>1 DEF Unacknowledged, Airborne
<1>7. model' = "portable" => ModelsTried'
  BY <1>1, <1>2, <1>4, <1>6, ModelsTriedSuccess DEF SetupInv
<1>8. late' # "none" => warned'
  BY <1>2 DEF SetupInv
<1>9. late' = "CFG-NAV5" => model' # "portable"
  BY <1>2, <1>4 DEF SetupInv
<1>10. QED
  BY <1>5, <1>7, <1>8, <1>9 DEF SetupInv

\* Outside the commands nothing is said of what has been done.
LEMMA SetupElsewhere ==
  ASSUME SetupInv, model' = model,
         bootAt' \in {"sniff", "baud", "quiet", "jumped", "gga"},
         late' = "none" \/ (late' = late /\ warned' = warned)
  PROVE  SetupInv'
<1>1. InEffect'
  BY DEF InEffect, PastGga, PastRmc, PastVtg, PastGsa, PastPulse, PastModel, Commands
<1>2. ModelsTried'
  BY DEF ModelsTried
<1>3. QED
  BY <1>1, <1>2 DEF SetupInv

LEMMA SetupInvStep == SetupInv /\ [GnssBootNext]_gnssBootVars => SetupInv'
<1> SUFFICES ASSUME SetupInv, [GnssBootNext]_gnssBootVars PROVE SetupInv'
  OBVIOUS
<1>1. CASE Sniff \/ ChangeSpeed \/ Jumps
  <2>1. bootAt' \in {"quiet", "baud", "gga", "jumped"}
    BY <1>1, OrderIs DEF Sniff, Listen, SniffFails, ChangeSpeed, Jumps
  <2>2. model' = model /\ late' = late /\ warned' = warned
    BY <1>1 DEF Sniff, Listen, SniffFails, ChangeSpeed, Jumps, receiver, bootHistory
  <2>3. QED
    BY <2>1, <2>2, SetupElsewhere
<1>2. CASE Quiet
  BY <1>2, OrderIs, SetupElsewhere DEF Quiet, bootHistory
<1>3. CASE ProcessorReset
  BY <1>3, SetupElsewhere DEF ProcessorReset, receiver
<1>4. CASE TooLate
  BY <1>4 DEF TooLate, receiver, bootHistory, SetupInv, InEffect, ModelsTried
<1>5. ASSUME NEW step,
             \/ Acknowledged(step) \/ AnsweredLate(step) \/ Refused(step)
             \/ Mistaken(step) \/ SetHz(step)
      PROVE  SetupInv'
  BY <1>5, SetupAcknowledged, SetupFailed, SetupMistaken, SetupRate
<1>6. CASE UNCHANGED gnssBootVars
  BY <1>6 DEF gnssBootVars, receiver, bootHistory, SetupInv, InEffect, ModelsTried
<1>7. QED
  BY <1>1, <1>2, <1>3, <1>4, <1>5, <1>6 DEF GnssBootNext

\* A boot that reports no failure has turned on every message, the pulse and an
\* airborne model, late answers and all; the receiver is left without such a model
\* only when all three were tried and failed (gnss_m10q.c, gnss_init_skydiving();
\* main.c).
THEOREM SilenceMeansSuccess == GnssBootSpec => []SilentBootWorks
<1>1. GnssBootTypeOK /\ SetupInv => SilentBootWorks
  <2> SUFFICES ASSUME GnssBootTypeOK, SetupInv, bootAt = "done"
               PROVE  /\ ~warned => Needed \subseteq on /\ pulse /\ model \in Airborne
                      /\ model = "portable" => models = Airborne
    BY DEF SilentBootWorks
  <2>1. InEffect => Needed \subseteq on /\ pulse /\ model \in Airborne
    BY DEF InEffect, PastGga, PastRmc, PastVtg, PastGsa, PastPulse, PastModel, Commands, Needed
  <2>2. ModelsTried => models = Airborne
    BY DEF ModelsTried, GnssBootTypeOK
  <2>3. QED
    BY <2>1, <2>2 DEF SetupInv
<1>2. QED
  BY GnssBootTypeInit, GnssBootTypeStep, SetupInvInit, SetupInvStep, <1>1, PTL DEF GnssBootSpec

-----------------------------------------------------------------------------
(* Checksums *)

Bits(s, w) == {i \in 1..Len(s) : (s[i] \div w) % 2 = 1}
Odd(s, w) == Cardinality(Bits(s, w)) % 2

LEMMA OddTyped == ASSUME NEW s, Len(s) \in Nat, NEW w PROVE Odd(s, w) \in 0..1
<1>1. IsFiniteSet(1..Len(s)) /\ Bits(s, w) \subseteq 1..Len(s)
  BY FS_Interval DEF Bits
<1>2. Cardinality(Bits(s, w)) \in Nat
  BY <1>1, FS_Subset, FS_CardinalityType
<1> HIDE DEF Bits
<1>3. QED
  BY <1>2 DEF Odd

Share(s, w) == w * Odd(s, w)

LEMMA XorIs ==
  ASSUME NEW s
  PROVE XorOf(s) = Share(s, 1) + Share(s, 2) + Share(s, 4) + Share(s, 8)
                     + Share(s, 16) + Share(s, 32) + Share(s, 64) + Share(s, 128)
BY Zenon DEF XorOf, Share, Odd, Bits

LEMMA XorTyped == ASSUME NEW s, Len(s) \in Nat PROVE XorOf(s) \in 0..255
<1>1. ASSUME NEW w \in Nat PROVE Share(s, w) \in 0..w
  <2>1. Odd(s, w) = 0 \/ Odd(s, w) = 1
    BY OddTyped
  <2>2. Share(s, w) = w * Odd(s, w)
    BY DEF Share
  <2>3. QED
    BY <2>1, <2>2
<1>2. PICK b0 \in 0..1, b1 \in 0..2, b2 \in 0..4, b3 \in 0..8 :
        b0 = Share(s, 1) /\ b1 = Share(s, 2) /\ b2 = Share(s, 4) /\ b3 = Share(s, 8)
  BY <1>1
<1>3. PICK b4 \in 0..16, b5 \in 0..32, b6 \in 0..64, b7 \in 0..128 :
        b4 = Share(s, 16) /\ b5 = Share(s, 32) /\ b6 = Share(s, 64) /\ b7 = Share(s, 128)
  BY <1>1
<1>4. XorOf(s) = b0 + b1 + b2 + b3 + b4 + b5 + b6 + b7
  BY <1>2, <1>3, XorIs
<1>5. QED
  BY <1>4

\* Only the characters matter.
LEMMA XorSame ==
  ASSUME NEW s, NEW t, Len(s) = Len(t), \A i \in 1..Len(s) : s[i] = t[i]
  PROVE XorOf(s) = XorOf(t)
<1>1. \A w : Bits(s, w) = Bits(t, w)
  BY DEF Bits
<1>2. QED
  BY <1>1, XorIs DEF Share, Odd

LEMMA FletcherOfAck == Fletcher(AckBody) = <<15, 56>>
<1> DEFINE F(g) == [n \in 0..Len(AckBody) |->
                      IF n = 0 THEN <<0, 0>> ELSE Check(g[n - 1], AckBody[n])]
<1> DEFINE ck == CHOOSE g : g = F(g)
<1>1. Fletcher(AckBody) = ck[Len(AckBody)]
  BY DEF Fletcher
<1> DEFINE W == [n \in 0..6 |-> CASE n = 0 -> <<0, 0>> [] n = 1 -> <<5, 5>> [] n = 2 -> <<6, 11>>
                                  [] n = 3 -> <<8, 19>> [] n = 4 -> <<8, 27>> [] n = 5 -> <<14, 41>>
                                  [] OTHER -> <<15, 56>>]
<1>2. Len(AckBody) = 6 /\ AckBody[1] = 5 /\ AckBody[2] = 1 /\ AckBody[3] = 2 /\ AckBody[4] = 0
        /\ AckBody[5] = 6 /\ AckBody[6] = 1
  BY DEF AckBody
<1>3. /\ W[0] = <<0, 0>> /\ W[1] = <<5, 5>> /\ W[2] = <<6, 11>> /\ W[3] = <<8, 19>>
      /\ W[4] = <<8, 27>> /\ W[5] = <<14, 41>> /\ W[6] = <<15, 56>>
  OBVIOUS
<1>4. /\ Check(<<0, 0>>, 5) = <<5, 5>> /\ Check(<<5, 5>>, 1) = <<6, 11>>
      /\ Check(<<6, 11>>, 2) = <<8, 19>> /\ Check(<<8, 19>>, 0) = <<8, 27>>
      /\ Check(<<8, 27>>, 6) = <<14, 41>> /\ Check(<<14, 41>>, 1) = <<15, 56>>
  BY DEF Check
<1>5. \A n \in 0..6 : n \in {0, 1, 2, 3, 4, 5, 6}
  OBVIOUS
<1>6. \A n \in 0..6 : W[n] = IF n = 0 THEN <<0, 0>> ELSE Check(W[n - 1], AckBody[n])
  <2> HIDE DEF W
  <2>1. QED
    BY <1>2, <1>3, <1>4, <1>5
<1>7. W = F(W)
  <2>1. W = [n \in 0..6 |-> W[n]]
    OBVIOUS
  <2>2. F(W) = [n \in 0..6 |-> IF n = 0 THEN <<0, 0>> ELSE Check(W[n - 1], AckBody[n])]
    BY <1>2
  <2> HIDE DEF W, F
  <2>3. QED
    BY <1>6, <2>1, <2>2
<1>8. ck = F(ck)
  <2> HIDE DEF W, F
  <2>1. \E g : g = F(g)
    BY <1>7
  <2>2. QED
    BY <2>1, Zenon
<1>9. /\ ck[0] = <<0, 0>>
      /\ \A n \in 1..6 : ck[n] = Check(ck[n - 1], AckBody[n])
  <2>1. \A n \in 0..6 : F(ck)[n] = IF n = 0 THEN <<0, 0>> ELSE Check(ck[n - 1], AckBody[n])
    <3> HIDE DEF ck
    <3>1. QED
      BY <1>2
  <2> HIDE DEF F, ck
  <2>2. QED
    BY <1>8, <2>1
<1> HIDE DEF ck, F, W
<1>10. ck[1] = <<5, 5>> /\ ck[2] = <<6, 11>> /\ ck[3] = <<8, 19>>
  BY <1>2, <1>4, <1>9
<1>11. ck[4] = <<8, 27>> /\ ck[5] = <<14, 41>> /\ ck[6] = <<15, 56>>
  BY <1>2, <1>4, <1>9, <1>10
<1>12. QED
  BY <1>1, <1>2, <1>11

LEMMA GreatestNumber ==
  ASSUME NEW T, T \subseteq Nat, T # {}, NEW B \in Nat, \A n \in T : n <= B
  PROVE  \E n \in T : \A m \in T : m <= n
<1> DEFINE D == {B - n : n \in T}
<1>0. \A n \in T : B - n \in Nat
  OBVIOUS
<1>2. \A n \in T : B - n \in D
  BY Zenon
<1>3. \A d \in D : \E n \in T : d = B - n
  OBVIOUS
<1> HIDE DEF D
<1>1. D \subseteq Nat /\ D # {}
  BY <1>0, <1>2, <1>3
<1>4. PICK d \in D : \A e \in D : d <= e
  BY <1>1, LeastNumber
<1>5. PICK n \in T : d = B - n
  BY <1>3
<1>6. ASSUME NEW m \in T PROVE m <= n
  BY <1>2, <1>4, <1>5
<1>7. QED
  BY <1>6

-----------------------------------------------------------------------------
(* What the receiver sends *)

Byte == 0..255
AckFrame == <<Sync1, Sync2>> \o AckBody \o Fletcher(AckBody)
Line(b) == Sentence(b) \o <<Cr, Lf>>

LEMMA FramesAre == \A f \in Frames : f = AckFrame \/ \E b \in Bodies : f = Line(b)
BY DEF Frames, AckFrame, Line

\* The elements of a concatenation, in the lengths at hand.
LEMMA Joined ==
  ASSUME NEW s \in Seq(Byte), NEW t \in Seq(Byte)
  PROVE  /\ s \o t \in Seq(Byte) /\ Len(s \o t) = Len(s) + Len(t)
         /\ \A i \in 1..Len(s) : (s \o t)[i] = s[i]
         /\ \A i \in 1..Len(t) : (s \o t)[Len(s) + i] = t[i]
<1> DEFINE st == s \o t
<1>1. /\ st \in Seq(Byte) /\ Len(st) = Len(s) + Len(t)
      /\ \A i \in 1..Len(s) + Len(t) : st[i] = IF i <= Len(s) THEN s[i] ELSE t[i - Len(s)]
  BY ConcatProperties
<1>2. Len(s) \in Nat /\ Len(t) \in Nat
  BY LenProperties
<1> HIDE DEF st
<1>5. \A i \in 1..Len(s) : st[i] = s[i]
  BY <1>1, <1>2
<1>6. \A i \in 1..Len(t) : st[Len(s) + i] = t[i]
  BY <1>1, <1>2
<1>7. QED
  BY <1>1, <1>5, <1>6 DEF st

LEMMA AckFrameIs ==
  /\ AckFrame \in Seq(Byte) /\ Len(AckFrame) = 10
  /\ AckFrame[1] = 181 /\ AckFrame[2] = 98 /\ AckFrame[3] = 5 /\ AckFrame[4] = 1
  /\ AckFrame[5] = 2 /\ AckFrame[6] = 0 /\ AckFrame[7] = 6 /\ AckFrame[8] = 1
  /\ AckFrame[9] = 15 /\ AckFrame[10] = 56
<1> DEFINE start == <<Sync1, Sync2>>
<1> DEFINE body == AckBody
<1> DEFINE end == Fletcher(AckBody)
<1>1. start \in Seq(Byte) /\ Len(start) = 2 /\ start[1] = 181 /\ start[2] = 98
  BY DEF Byte, Sync1, Sync2
<1>2. /\ body \in Seq(Byte) /\ Len(body) = 6 /\ body[1] = 5 /\ body[2] = 1
      /\ body[3] = 2 /\ body[4] = 0 /\ body[5] = 6 /\ body[6] = 1
  BY DEF Byte, AckBody
<1>3. end \in Seq(Byte) /\ Len(end) = 2 /\ end[1] = 15 /\ end[2] = 56
  BY FletcherOfAck DEF Byte
<1>4. AckFrame = (start \o body) \o end
  BY DEF AckFrame
<1> HIDE DEF start, body, end
<1> DEFINE head == start \o body
<1>5. /\ head \in Seq(Byte) /\ Len(head) = 2 + 6
      /\ \A i \in 1..2 : head[i] = start[i]
      /\ \A i \in 1..6 : head[2 + i] = body[i]
  <2>1. /\ head \in Seq(Byte) /\ Len(head) = Len(start) + Len(body)
        /\ \A i \in 1..Len(start) : head[i] = start[i]
        /\ \A i \in 1..Len(body) : head[Len(start) + i] = body[i]
    <3>1. start \in Seq(Byte) /\ body \in Seq(Byte)
      BY <1>1, <1>2
    <3>2. QED
      BY ONLY <3>1, Joined
  <2> HIDE DEF head
  <2>2. QED
    BY <1>1, <1>2, <2>1
<1> HIDE DEF head
<1> DEFINE ack == head \o end
<1>6. /\ ack \in Seq(Byte) /\ Len(ack) = 8 + 2
      /\ \A i \in 1..8 : ack[i] = head[i]
      /\ \A i \in 1..2 : ack[8 + i] = end[i]
  <2>1. /\ ack \in Seq(Byte) /\ Len(ack) = Len(head) + Len(end)
        /\ \A i \in 1..Len(head) : ack[i] = head[i]
        /\ \A i \in 1..Len(end) : ack[Len(head) + i] = end[i]
    BY <1>3, <1>5, Joined
  <2> HIDE DEF ack
  <2>2. QED
    BY <1>3, <1>5, <2>1
<1>7. AckFrame = ack
  BY <1>4 DEF head
<1> HIDE DEF ack
<1>8. /\ head[1] = 181 /\ head[2] = 98 /\ head[2 + 1] = 5 /\ head[2 + 2] = 1
      /\ head[2 + 3] = 2 /\ head[2 + 4] = 0 /\ head[2 + 5] = 6 /\ head[2 + 6] = 1
  BY <1>1, <1>2, <1>5
<1>9. QED
  BY <1>3, <1>6, <1>7, <1>8

LEMMA HexIs ==
  ASSUME NEW d \in 0..15 PROVE Hex(d) \in (48..57) \cup (65..70) /\ Digit(Hex(d)) = d
<1>1. Hex(d) = IF d < 10 THEN 48 + d ELSE 55 + d
  BY DEF Hex
<1>2. CASE d < 10
  <2>1. Hex(d) \in 48..57 /\ Hex(d) - 48 = d
    BY <1>1, <1>2
  <2>2. QED
    BY <2>1 DEF Digit
<1>3. CASE d >= 10
  <2>1. Hex(d) \in 65..70 /\ Hex(d) - 55 = d /\ Hex(d) \notin 48..57
    BY <1>1, <1>3
  <2>2. QED
    BY <2>1 DEF Digit
<1>4. QED
  BY <1>2, <1>3

LEMMA BodyIs ==
  ASSUME NEW b \in Bodies
  PROVE  /\ b \in Seq(Byte) /\ Len(b) \in Nat /\ Len(b) >= 4 /\ Len(b) + 4 <= MaxLine
         /\ \A i \in 1..Len(b) : b[i] \in 32..126 /\ b[i] # Dollar /\ b[i] # Star
<1>1. b \in Seq(Characters) /\ Len(b) \in 4..MaxLine - 4 /\ MaxLine \in Nat
  BY ReceiveAssumption
<1>2. \A i \in 1..Len(b) : b[i] \in Characters
  BY <1>1, ElementOfSeq
<1>3. Characters \subseteq Byte
  BY DEF Characters, Byte
<1>4. b \in Seq(Byte)
  BY <1>1, <1>3, SeqMonotonic
<1>5. QED
  BY <1>1, <1>2, <1>4 DEF Characters

\* A sentence, character by character.
LEMMA LineIs ==
  ASSUME NEW b \in Bodies
  PROVE  /\ Line(b) \in Seq(Byte) /\ Len(Line(b)) = Len(b) + 6
         /\ Line(b)[1] = Dollar
         /\ \A i \in 2..Len(b) + 1 : Line(b)[i] = b[i - 1]
         /\ Line(b)[Len(b) + 2] = Star
         /\ Line(b)[Len(b) + 3] = Hex(XorOf(b) \div 16) /\ Line(b)[Len(b) + 4] = Hex(XorOf(b) % 16)
         /\ Line(b)[Len(b) + 5] = Cr /\ Line(b)[Len(b) + 6] = Lf
<1> DEFINE one == <<Dollar>>
<1> DEFINE end == <<Star, Hex(XorOf(b) \div 16), Hex(XorOf(b) % 16)>>
<1> DEFINE last == <<Cr, Lf>>
<1>1. one \in Seq(Byte) /\ Len(one) = 1 /\ one[1] = Dollar
  BY DEF Byte, Dollar
<1>2. b \in Seq(Byte) /\ Len(b) \in Nat
  BY BodyIs
<1>3. XorOf(b) \in 0..255
  BY <1>2, XorTyped
<1>4. XorOf(b) \div 16 \in 0..15 /\ XorOf(b) % 16 \in 0..15
  BY <1>3
<1>5. Hex(XorOf(b) \div 16) \in Byte /\ Hex(XorOf(b) % 16) \in Byte
  BY <1>4, HexIs DEF Byte
<1>6. /\ end \in Seq(Byte) /\ Len(end) = 3 /\ end[1] = Star
      /\ end[2] = Hex(XorOf(b) \div 16) /\ end[3] = Hex(XorOf(b) % 16)
  BY <1>5 DEF Byte, Star
<1>7. last \in Seq(Byte) /\ Len(last) = 2 /\ last[1] = Cr /\ last[2] = Lf
  BY DEF Byte, Cr, Lf
<1>8. Line(b) = ((one \o b) \o end) \o last
  BY DEF Line, Sentence
<1> HIDE DEF one, end, last
<1> DEFINE s1 == one \o b
<1>9. /\ s1 \in Seq(Byte) /\ Len(s1) = 1 + Len(b)
      /\ \A i \in 1..1 : s1[i] = one[i]
      /\ \A i \in 1..Len(b) : s1[1 + i] = b[i]
  <2>1. /\ s1 \in Seq(Byte) /\ Len(s1) = Len(one) + Len(b)
        /\ \A i \in 1..Len(one) : s1[i] = one[i]
        /\ \A i \in 1..Len(b) : s1[Len(one) + i] = b[i]
    BY <1>1, <1>2, Joined
  <2> HIDE DEF s1
  <2>2. QED
    BY <1>1, <1>2, <2>1
<1> DEFINE s2 == s1 \o end
<1> HIDE DEF s1
<1>10. /\ s2 \in Seq(Byte) /\ Len(s2) = (1 + Len(b)) + 3
       /\ \A i \in 1..1 + Len(b) : s2[i] = s1[i]
       /\ \A i \in 1..3 : s2[(1 + Len(b)) + i] = end[i]
  <2>1. /\ s2 \in Seq(Byte) /\ Len(s2) = Len(s1) + Len(end)
        /\ \A i \in 1..Len(s1) : s2[i] = s1[i]
        /\ \A i \in 1..Len(end) : s2[Len(s1) + i] = end[i]
    BY <1>2, <1>6, <1>9, Joined
  <2> HIDE DEF s2
  <2>2. QED
    BY <1>2, <1>6, <1>9, <2>1
<1> DEFINE s3 == s2 \o last
<1> HIDE DEF s2
<1>11. /\ s3 \in Seq(Byte) /\ Len(s3) = (4 + Len(b)) + 2
       /\ \A i \in 1..4 + Len(b) : s3[i] = s2[i]
       /\ \A i \in 1..2 : s3[(4 + Len(b)) + i] = last[i]
  <2>1. /\ s3 \in Seq(Byte) /\ Len(s3) = Len(s2) + Len(last)
        /\ \A i \in 1..Len(s2) : s3[i] = s2[i]
        /\ \A i \in 1..Len(last) : s3[Len(s2) + i] = last[i]
    BY <1>2, <1>7, <1>10, Joined
  <2> HIDE DEF s3
  <2>2. QED
    BY <1>2, <1>7, <1>10, <2>1
<1>12. Line(b) = s3
  BY <1>8 DEF s2, s1
<1> HIDE DEF s3
<1>13. s3[1] = Dollar
  BY <1>1, <1>2, <1>9, <1>10, <1>11
<1>14. ASSUME NEW i \in 2..Len(b) + 1 PROVE s3[i] = b[i - 1]
  <2>1. i - 1 \in 1..Len(b) /\ i = 1 + (i - 1) /\ i \in 1..1 + Len(b) /\ i \in 1..4 + Len(b)
    BY <1>2
  <2>2. s3[i] = s2[i] /\ s2[i] = s1[i]
    BY <1>10, <1>11, <2>1
  <2>3. s1[1 + (i - 1)] = b[i - 1]
    BY <1>9, <2>1
  <2>4. QED
    BY <2>1, <2>2, <2>3
<1>15. ASSUME NEW i \in 1..3 PROVE s3[Len(b) + 1 + i] = end[i]
  <2>1. Len(b) + 1 + i = (1 + Len(b)) + i /\ Len(b) + 1 + i \in 1..4 + Len(b)
    BY <1>2
  <2>2. QED
    BY <1>10, <1>11, <2>1
<1>16. ASSUME NEW i \in 1..2 PROVE s3[Len(b) + 4 + i] = last[i]
  BY <1>2, <1>11
<1>17. /\ Len(b) + 1 + 1 = Len(b) + 2 /\ Len(b) + 1 + 2 = Len(b) + 3 /\ Len(b) + 1 + 3 = Len(b) + 4
       /\ Len(b) + 4 + 1 = Len(b) + 5 /\ Len(b) + 4 + 2 = Len(b) + 6
       /\ (4 + Len(b)) + 2 = Len(b) + 6
  BY <1>2
<1>18. s3[Len(b) + 1 + 1] = end[1] /\ s3[Len(b) + 1 + 2] = end[2] /\ s3[Len(b) + 1 + 3] = end[3]
  BY <1>15
<1>19. s3[Len(b) + 4 + 1] = last[1] /\ s3[Len(b) + 4 + 2] = last[2]
  BY <1>16
<1>20. /\ s3[Len(b) + 2] = Star
       /\ s3[Len(b) + 3] = Hex(XorOf(b) \div 16) /\ s3[Len(b) + 4] = Hex(XorOf(b) % 16)
       /\ s3[Len(b) + 5] = Cr /\ s3[Len(b) + 6] = Lf /\ Len(s3) = Len(b) + 6
  BY <1>6, <1>7, <1>11, <1>17, <1>18, <1>19
<1>21. QED
  BY <1>11, <1>12, <1>13, <1>14, <1>20

LEMMA FramesTyped == \A f \in Frames : f \in Seq(Byte) /\ Len(f) \in Nat /\ Len(f) >= 10
<1> SUFFICES ASSUME NEW f \in Frames
             PROVE  f \in Seq(Byte) /\ Len(f) \in Nat /\ Len(f) >= 10
  OBVIOUS
<1>1. CASE f = AckFrame
  BY <1>1, AckFrameIs
<1>2. ASSUME NEW b \in Bodies, f = Line(b) PROVE f \in Seq(Byte) /\ Len(f) \in Nat /\ Len(f) >= 10
  BY <1>2, LineIs, BodyIs
<1>3. QED
  BY <1>1, <1>2, FramesAre

LEMMA LongestIs ==
  /\ LongestFrame \in Nat /\ \A f \in Frames : Len(f) <= LongestFrame
  /\ Cap \in Nat /\ Cap = LongestFrame + MaxPayload + 2 /\ LongestFrame >= 10
<1> DEFINE T == {Len(f) : f \in Frames}
<1>1. MaxLine \in Nat /\ MaxPayload \in Nat
  BY ReceiveAssumption
<1>2. AckFrame \in Frames
  BY DEF AckFrame, Frames
<1>3. \A f \in Frames : Len(f) \in T
  OBVIOUS
<1>4. \A n \in T : \E f \in Frames : n = Len(f)
  OBVIOUS
<1>5. LongestFrame = CHOOSE n \in T : \A f \in Frames : Len(f) <= n
  BY DEF LongestFrame
<1> HIDE DEF T
<1>6. ASSUME NEW f \in Frames PROVE Len(f) <= MaxLine + 10
  <2>1. CASE f = AckFrame
    BY <2>1, <1>1, AckFrameIs
  <2>2. ASSUME NEW b \in Bodies, f = Line(b) PROVE Len(f) <= MaxLine + 10
    BY <2>2, <1>1, LineIs, BodyIs
  <2>3. QED
    BY <2>1, <2>2, FramesAre
<1>7. T \subseteq Nat /\ T # {} /\ \A n \in T : n <= MaxLine + 10
  BY <1>2, <1>3, <1>4, <1>6, FramesTyped
<1>8. PICK n \in T : \A m \in T : m <= n
  <2>1. MaxLine + 10 \in Nat
    BY <1>1
  <2>2. QED
    BY <1>7, <2>1, GreatestNumber
<1>9. LongestFrame \in T /\ \A f \in Frames : Len(f) <= LongestFrame
  BY <1>3, <1>5, <1>8
<1>10. LongestFrame \in Nat /\ LongestFrame >= 10
  <2>1. Len(AckFrame) = 10 /\ Len(AckFrame) <= LongestFrame
    BY <1>2, <1>9, AckFrameIs
  <2>2. LongestFrame \in Nat
    BY <1>7, <1>9
  <2>3. QED
    BY <2>1, <2>2
<1>11. QED
  BY <1>1, <1>9, <1>10 DEF Cap, Swallowed

-----------------------------------------------------------------------------
(* The types *)

\* How much of a message has come at each state of its parser.
Collected ==
  /\ ubx = "class" => payload = <<>>
  /\ ubx = "id" => Len(payload) = 1
  /\ ubx = "len_l" => Len(payload) = 2
  /\ ubx = "len_h" => Len(payload) = 3 /\ len <= 255
  /\ ubx = "payload" => Len(payload) >= 4 /\ Len(payload) < 4 + len /\ len <= MaxPayload

ReceiveInv == ReceiveTypeOK /\ Collected

LEMMA WordsAre == 0 \in Words /\ (\A n \in Words : n \in Nat) /\ (\A n \in 0..255 : n \in Words)
BY DEF Words

LEMMA TwoBytes == \A m, n \in 0..255 : m + 256 * n \in Words
BY DEF Words

LEMMA NoBytes == <<>> \in Seq(0..255) /\ Len(<<>>) = 0 /\ 0 <= 4 + MaxPayload
BY EmptySeq, ReceiveAssumption

LEMMA FlagsTyped == ASSUME ReceiveTypeOK PROVE gap \in BOOLEAN /\ missed \in BOOLEAN
BY Zenon DEF ReceiveTypeOK

LEMMA ReceiveInvInit == ReceiveInit => ReceiveInv
<1> SUFFICES ASSUME ReceiveInit PROVE ReceiveInv
  OBVIOUS
<1> USE DEF ReceiveInit
<1>1. wire \in Seq(0..255) /\ rxRing \in Seq((0..255) \X BOOLEAN) /\ Len(rxRing) <= RingBytes
  BY EmptySeq, ReceiveAssumption
<1>2. ubx \in UbxStates /\ len \in Words /\ ckA \in 0..255
  BY WordsAre DEF UbxStates
<1>3. /\ payload \in Seq(0..255) /\ Len(payload) <= 4 + MaxPayload
      /\ line \in Seq(0..255) /\ Len(line) <= MaxLine
  BY EmptySeq, ReceiveAssumption
<1>4. {gap, missed} \subseteq BOOLEAN
  BY Zenon
<1>5. since \in 0..Cap /\ holes \in 0..2
  BY LongestIs
<1>6. Collected
  BY DEF Collected
<1>7. QED
  BY <1>1, <1>2, <1>3, <1>4, <1>5, <1>6 DEF ReceiveInv, ReceiveTypeOK

\* Taking a byte from a ring that is not empty.
LEMMA TakenByte ==
  ASSUME ReceiveTypeOK, NEW b \in NextByte, TakeByte(b)
  PROVE  /\ rxRing # <<>> /\ b = rxRing[1][1] /\ b \in Byte
         /\ rxRing' = Tail(rxRing) /\ rxRing' \in Seq(Byte \X BOOLEAN)
         /\ Len(rxRing') = Len(rxRing) - 1 /\ Len(rxRing') <= RingBytes
         /\ since' = (IF rxRing[1][2] THEN 1 ELSE IF since < Cap THEN since + 1 ELSE Cap)
         /\ since' \in 1..Cap /\ holes' \in 0..2 /\ wire' = wire /\ gap' = gap
<1>1. rxRing \in Seq(Byte \X BOOLEAN) /\ Len(rxRing) <= RingBytes /\ since \in 0..Cap /\ holes \in 0..2
  BY DEF ReceiveTypeOK, Byte
<1>2. rxRing # <<>> /\ b = Head(rxRing)[1]
  BY DEF NextByte
<1>3. /\ Head(rxRing) = rxRing[1] /\ rxRing[1] \in Byte \X BOOLEAN /\ Len(rxRing) \in Nat
      /\ Tail(rxRing) \in Seq(Byte \X BOOLEAN) /\ Len(Tail(rxRing)) = Len(rxRing) - 1
  BY <1>1, <1>2, HeadTailProperties, LenProperties, EmptySeq
<1>4. rxRing' = Tail(rxRing) /\ wire' = wire /\ gap' = gap
  BY DEF TakeByte
<1>5. since' = IF rxRing[1][2] THEN 1 ELSE IF since < Cap THEN since + 1 ELSE Cap
  BY <1>3 DEF TakeByte
<1>6. since' \in 1..Cap
  BY <1>1, <1>5, LongestIs, ReceiveAssumption
<1>7. holes' \in 0..2
  <2>1. holes' = IF ubx = "search" /\ b = Dollar THEN 0
                 ELSE IF Head(rxRing)[2] /\ holes < 2 THEN holes + 1 ELSE holes
    BY DEF TakeByte
  <2>2. QED
    BY <1>1, <2>1
<1>8. Len(rxRing') <= RingBytes
  BY <1>1, <1>3, <1>4, ReceiveAssumption
<1>9. QED
  BY <1>2, <1>3, <1>4, <1>5, <1>6, <1>7, <1>8

\* What TakeByte leaves to the parser's actions.
ParserTyped ==
  /\ ubx \in UbxStates /\ len \in Words /\ ckA \in 0..255
  /\ payload \in Seq(0..255) /\ Len(payload) <= 4 + MaxPayload
  /\ line \in Seq(0..255) /\ Len(line) <= MaxLine /\ missed \in BOOLEAN

LEMMA ParserEnough ==
  ASSUME ReceiveInv, NEW b \in NextByte, TakeByte(b), ParserTyped', Collected'
  PROVE  ReceiveInv'
<1>1. ReceiveTypeOK /\ gap \in BOOLEAN
  BY FlagsTyped DEF ReceiveInv
<1>2. /\ rxRing' \in Seq((0..255) \X BOOLEAN) /\ Len(rxRing') <= RingBytes
      /\ since' \in 0..Cap /\ holes' \in 0..2 /\ wire' \in Seq(0..255) /\ gap' \in BOOLEAN
  <2>1. /\ rxRing' \in Seq((0..255) \X BOOLEAN) /\ Len(rxRing') <= RingBytes
        /\ since' \in 1..Cap /\ holes' \in 0..2 /\ wire' = wire /\ gap' = gap
    BY <1>1, TakenByte DEF Byte
  <2>2. wire \in Seq(0..255)
    BY <1>1 DEF ReceiveTypeOK
  <2>3. QED
    BY <1>1, <2>1, <2>2
<1>3. {gap', missed'} \subseteq BOOLEAN
  <2>1. missed' \in BOOLEAN
    BY DEF ParserTyped
  <2>2. QED
    BY <1>2, <2>1, Zenon
<1>4. ReceiveTypeOK'
  <2>1. /\ ubx' \in UbxStates /\ len' \in Words /\ ckA' \in 0..255
        /\ payload' \in Seq(0..255) /\ Len(payload') <= 4 + MaxPayload
        /\ line' \in Seq(0..255) /\ Len(line') <= MaxLine
    BY DEF ParserTyped
  <2>2. QED
    BY <1>2, <1>3, <2>1, Zenon DEF ReceiveTypeOK
<1>5. QED
  BY <1>4 DEF ReceiveInv

LEMMA UbxSyncTyped ==
  ASSUME ReceiveInv, NEW b \in NextByte, UbxSync(b) PROVE ParserTyped' /\ Collected'
<1>1. ubx' \in {"sync2", "class", "search"} /\ (ubx' = "class" => payload' = <<>>)
  BY DEF UbxSync, ResetParser, ubxVars
<1>2. len' = len \/ len' = 0
  BY DEF UbxSync, ResetParser, ubxVars
<1>3. payload' = payload \/ payload' = <<>>
  BY DEF UbxSync, ResetParser, ubxVars
<1>4. ckA' = ckA /\ line' = line
  BY DEF UbxSync, ResetParser, ubxVars
<1>5. missed' \in BOOLEAN
  BY FlagsTyped DEF UbxSync, ReceiveInv
<1>6. ckA' \in 0..255 /\ line' \in Seq(0..255) /\ Len(line') <= MaxLine
  BY <1>4 DEF ReceiveInv, ReceiveTypeOK
<1>7. len' \in Words
  BY <1>2, WordsAre DEF ReceiveInv, ReceiveTypeOK
<1>8. payload' \in Seq(0..255) /\ Len(payload') <= 4 + MaxPayload
  BY <1>3, NoBytes DEF ReceiveInv, ReceiveTypeOK
<1>9. Collected'
  BY <1>1 DEF Collected
<1>10. ubx' \in UbxStates
  BY <1>1 DEF UbxStates
<1>11. QED
  BY <1>5, <1>6, <1>7, <1>8, <1>9, <1>10, Zenon DEF ParserTyped

\* How one byte of class, id, length or payload takes the parser on.
LEMMA UbxBodySteps ==
  ASSUME ReceiveInv, NEW b \in NextByte, UbxBody(b)
  PROVE  \/ ubx = "class" /\ ubx' = "id" /\ len' = len /\ Len(payload') = 1
         \/ ubx = "id" /\ ubx' = "len_l" /\ len' = len /\ Len(payload') = 2
         \/ ubx = "len_l" /\ ubx' = "len_h" /\ len' = b /\ Len(payload') = 3
         \/ /\ ubx = "len_h" /\ len \in 0..255 /\ Length(len + 256 * b) /\ Len(payload') = 4
         \/ /\ ubx = "payload" /\ len' = len /\ len <= MaxPayload
            /\ Len(payload') >= 5 /\ Len(payload') <= 4 + len
            /\ ubx' = IF Len(payload') - 4 >= len THEN "ck_a" ELSE ubx
<1>1. payload \in Seq(0..255) /\ len \in Nat
  BY WordsAre DEF ReceiveInv, ReceiveTypeOK
<1>2. b \in 0..255
  BY TakenByte DEF UbxBody, ReceiveInv, Byte
<1>3. Len(payload') = Len(payload) + 1 /\ Len(payload) \in Nat
  <2>1. payload' = Append(payload, b)
    BY DEF UbxBody
  <2>2. QED
    BY <1>1, <1>2, <2>1, AppendProperties, LenProperties
<1>4. CASE ubx = "class"
  <2>1. Len(payload) = 0
    BY <1>4, NoBytes DEF ReceiveInv, Collected
  <2>2. QED
    BY <1>3, <1>4, <2>1 DEF UbxBody
<1>5. CASE ubx = "id"
  <2>1. Len(payload) = 1
    BY <1>5 DEF ReceiveInv, Collected
  <2>2. QED
    BY <1>3, <1>5, <2>1 DEF UbxBody
<1>6. CASE ubx = "len_l"
  <2>1. Len(payload) = 2
    BY <1>6 DEF ReceiveInv, Collected
  <2>2. QED
    BY <1>3, <1>6, <2>1 DEF UbxBody
<1>7. CASE ubx = "len_h"
  <2>1. Len(payload) = 3 /\ len <= 255
    BY <1>7 DEF ReceiveInv, Collected
  <2>2. len \in 0..255 /\ Len(payload') = 4
    BY <1>1, <1>3, <2>1
  <2>3. QED
    BY <1>7, <2>2 DEF UbxBody
<1>8. CASE ubx = "payload"
  <2>1. Len(payload) >= 4 /\ Len(payload) < 4 + len /\ len <= MaxPayload
    BY <1>8 DEF ReceiveInv, Collected
  <2>2. Len(payload') >= 5 /\ Len(payload') <= 4 + len
    BY <1>1, <1>3, <2>1
  <2>3. QED
    BY <1>8, <2>1, <2>2 DEF UbxBody
<1>9. QED
  BY <1>4, <1>5, <1>6, <1>7, <1>8 DEF UbxBody

LEMMA LengthOf ==
  ASSUME NEW k \in Nat, Length(k), NEW max \in Nat, max = MaxPayload
  PROVE  \/ k > max /\ ubx' = "search" /\ len' = 0
         \/ k = 0 /\ ubx' = "ck_a" /\ len' = k
         \/ k # 0 /\ k <= max /\ ubx' = "payload" /\ len' = k
BY DEF Length

\* A length that is believed fits the payload's array.
LEMMA LengthSteps ==
  ASSUME NEW m \in 0..255, NEW n \in 0..255, Length(m + 256 * n)
  PROVE  /\ len' \in Words
         /\ \/ ubx' = "search"
            \/ ubx' = "ck_a" /\ len' = 0 /\ m = 0 /\ n = 0
            \/ ubx' = "payload" /\ len' > 0 /\ len' <= MaxPayload /\ n = 0 /\ len' = m
<1> DEFINE k == m + 256 * n
<1>1. k \in Words /\ k \in Nat /\ MaxPayload \in Nat /\ MaxPayload <= 255
  <2>1. k \in Words
    BY TwoBytes
  <2>2. MaxPayload \in Nat /\ MaxPayload <= 255
    BY ReceiveAssumption
  <2>3. QED
    BY <2>1, <2>2
<1>2. \/ k > MaxPayload /\ ubx' = "search" /\ len' = 0
      \/ k = 0 /\ ubx' = "ck_a" /\ len' = k
      \/ k # 0 /\ k <= MaxPayload /\ ubx' = "payload" /\ len' = k
  <2>1. Length(k)
    OBVIOUS
  <2> HIDE DEF k
  <2>2. QED
    BY <1>1, <2>1, LengthOf
<1>3. k <= 255 => n = 0 /\ k = m
  OBVIOUS
<1> HIDE DEF k
<1>4. QED
  BY <1>1, <1>2, <1>3, WordsAre

LEMMA UbxBodyTyped ==
  ASSUME ReceiveInv, NEW b \in NextByte, UbxBody(b) PROVE ParserTyped' /\ Collected'
<1>1. b \in 0..255
  BY TakenByte DEF UbxBody, ReceiveInv, Byte
<1>2. payload' \in Seq(0..255)
  <2>1. payload' = Append(payload, b) /\ payload \in Seq(0..255)
    BY DEF UbxBody, ReceiveInv, ReceiveTypeOK
  <2>2. QED
    BY <1>1, <2>1, AppendProperties
<1>3. ckA' \in 0..255 /\ line' \in Seq(0..255) /\ Len(line') <= MaxLine
  BY DEF UbxBody, ReceiveInv, ReceiveTypeOK
<1>4. missed' \in BOOLEAN
  BY FlagsTyped DEF UbxBody, ReceiveInv
<1>5. MaxPayload \in 6..255
  BY ReceiveAssumption
<1>6. len \in Words /\ b \in Words
  BY <1>1, WordsAre DEF ReceiveInv, ReceiveTypeOK
<1>7. ubx' \in UbxStates /\ len' \in Words /\ Len(payload') <= 4 + MaxPayload /\ Collected'
  <2>1. CASE ubx = "class" /\ ubx' = "id" /\ len' = len /\ Len(payload') = 1
    BY <1>5, <1>6, <2>1 DEF UbxStates, Collected
  <2>2. CASE ubx = "id" /\ ubx' = "len_l" /\ len' = len /\ Len(payload') = 2
    BY <1>5, <1>6, <2>2 DEF UbxStates, Collected
  <2>3. CASE ubx = "len_l" /\ ubx' = "len_h" /\ len' = b /\ Len(payload') = 3
    BY <1>1, <1>5, <1>6, <2>3 DEF UbxStates, Collected
  <2>4. CASE ubx = "len_h" /\ len \in 0..255 /\ Length(len + 256 * b) /\ Len(payload') = 4
    <3>1. len' \in Words /\ \/ ubx' \in {"search", "ck_a"}
                            \/ ubx' = "payload" /\ len' > 0 /\ len' <= MaxPayload
      BY <1>1, <2>4, LengthSteps
    <3>2. len' \in Nat
      BY <3>1, WordsAre
    <3>3. QED
      <4>1. CASE ubx' \in {"search", "ck_a"}
        BY <1>5, <2>4, <3>1, <4>1 DEF UbxStates, Collected
      <4>2. CASE ubx' = "payload" /\ len' > 0 /\ len' <= MaxPayload
        <5>1. Len(payload') <= 4 + MaxPayload
          BY <1>5, <2>4
        <5>2. 4 < 4 + len'
          <6>1. PICK n \in Nat : n = len'
            BY <3>2
          <6>2. n > 0
            BY <4>2, <6>1
          <6>3. 4 < 4 + n
            BY <6>2
          <6>4. QED
            BY <6>1, <6>3
        <5>3. Collected'
          BY <2>4, <4>2, <5>2 DEF Collected
        <5>4. QED
          BY <3>1, <4>2, <5>1, <5>3 DEF UbxStates
      <4>3. QED
        BY <3>1, <4>1, <4>2
  <2>5. CASE /\ ubx = "payload" /\ len' = len /\ len <= MaxPayload
             /\ Len(payload') >= 5 /\ Len(payload') <= 4 + len
             /\ ubx' = IF Len(payload') - 4 >= len THEN "ck_a" ELSE ubx
    <3>1. Len(payload') \in Nat /\ len \in Nat
      BY <1>2, <1>6, WordsAre, LenProperties
    <3>2. QED
      BY <1>5, <1>6, <2>5, <3>1 DEF UbxStates, Collected
  <2>6. QED
    BY <2>1, <2>2, <2>3, <2>4, <2>5, UbxBodySteps
<1>8. QED
  BY <1>2, <1>3, <1>4, <1>7, Zenon DEF ParserTyped

LEMMA UbxCheckTyped ==
  ASSUME ReceiveInv, NEW b \in NextByte, UbxCheck(b) PROVE ParserTyped' /\ Collected'
<1>1. b \in 0..255
  BY TakenByte DEF UbxCheck, ReceiveInv, Byte
<1>2. ubx' \in {"ck_b", "search"}
  BY DEF UbxCheck, ResetParser
<1>3. ckA' = ckA \/ ckA' = b
  BY DEF UbxCheck, ResetParser
<1>4. len' = len \/ len' = 0
  BY DEF UbxCheck, ResetParser
<1>5. payload' = payload \/ payload' = <<>>
  BY DEF UbxCheck, ResetParser
<1>6. line' \in Seq(0..255) /\ Len(line') <= MaxLine
  BY DEF UbxCheck, ReceiveInv, ReceiveTypeOK
<1>7. missed' \in BOOLEAN
  BY FlagsTyped DEF UbxCheck, ReceiveInv
<1>8. ckA' \in 0..255
  BY <1>1, <1>3 DEF ReceiveInv, ReceiveTypeOK
<1>9. len' \in Words
  BY <1>4, WordsAre DEF ReceiveInv, ReceiveTypeOK
<1>10. payload' \in Seq(0..255) /\ Len(payload') <= 4 + MaxPayload
  BY <1>5, NoBytes DEF ReceiveInv, ReceiveTypeOK
<1>11. Collected' /\ ubx' \in UbxStates
  BY <1>2 DEF Collected, UbxStates
<1>12. QED
  BY <1>6, <1>7, <1>8, <1>9, <1>10, <1>11, Zenon DEF ParserTyped

LEMMA NmeaTyped ==
  ASSUME ReceiveInv, NEW b \in NextByte, NmeaStart(b) \/ NmeaEnd(b) \/ NmeaByte(b)
  PROVE  TakeByte(b) /\ ParserTyped' /\ Collected'
<1>1. TakeByte(b) /\ ubx = "search" /\ ubxVars' = ubxVars /\ missed' \in BOOLEAN
  BY DEF NmeaStart, NmeaEnd, NmeaByte, ReceiveInv, ReceiveTypeOK
<1>2. b \in 0..255
  BY <1>1, TakenByte DEF ReceiveInv, Byte
<1>3. line \in Seq(0..255) /\ Len(line) <= MaxLine /\ MaxLine \in Nat \ {0}
  BY ReceiveAssumption DEF ReceiveInv, ReceiveTypeOK
<1>4. /\ <<>> \in Seq(0..255) /\ Len(<<>>) = 0
  BY EmptySeq
<1>5. <<b>> \in Seq(0..255) /\ Len(<<b>>) = 1
  BY <1>2
<1>6. Append(line, b) \in Seq(0..255) /\ Len(Append(line, b)) = Len(line) + 1 /\ Len(line) \in Nat
  BY <1>2, <1>3, AppendProperties, LenProperties
<1>7. line' = <<b>> \/ line' = <<>> \/ (line' = Append(line, b) /\ Len(line) < MaxLine)
  BY DEF NmeaStart, NmeaEnd, NmeaByte
<1>8. line' \in Seq(0..255) /\ Len(line') <= MaxLine
  <2>1. CASE line' = <<>>
    BY <1>3, <1>4, <2>1
  <2>2. CASE line' = Append(line, b) /\ Len(line) < MaxLine
    BY <1>3, <1>6, <2>2
  <2>3. CASE line' = <<b>>
    BY <1>3, <1>5, <2>3
  <2>4. QED
    BY <1>7, <2>1, <2>2, <2>3
<1>9. QED
  BY <1>1, <1>8 DEF ParserTyped, Collected, ReceiveInv, ReceiveTypeOK, ubxVars

\* Taking everything from some byte on leaves bytes.
LEMMA RestTyped ==
  ASSUME NEW s \in Seq(Byte), NEW n \in 0..Len(s) PROVE SubSeq(s, n + 1, Len(s)) \in Seq(Byte)
<1>1. Len(s) \in Nat /\ \A i \in 1..Len(s) : s[i] \in Byte
  BY LenProperties, ElementOfSeq
<1>2. n + 1 \in Int /\ Len(s) \in Int /\ \A i \in n + 1 .. Len(s) : s[i] \in Byte
  BY <1>1
<1>3. QED
  BY <1>2, SubSeqProperties

LEMMA SenderTyped ==
  ASSUME ReceiveInv, SendFrame \/ RxReady \/ RxStopped
  PROVE  ReceiveInv'
<1>1. UNCHANGED <<ubx, len, payload, ckA, line, since, holes, got, missed>>
  BY DEF SendFrame, RxReady, RxStopped, ubxVars
<1>2. /\ wire \in Seq(Byte) /\ rxRing \in Seq(Byte \X BOOLEAN) /\ Len(rxRing) <= RingBytes
      /\ gap \in BOOLEAN
  BY FlagsTyped DEF ReceiveInv, ReceiveTypeOK, Byte
<1>3. /\ wire' \in Seq(Byte) /\ rxRing' \in Seq(Byte \X BOOLEAN) /\ Len(rxRing') <= RingBytes
      /\ gap' \in BOOLEAN
  <2>1. CASE SendFrame
    <3>1. wire' \in Frames /\ rxRing' = rxRing /\ gap' = gap
      BY <2>1 DEF SendFrame
    <3>2. QED
      BY <1>2, <3>1, FramesTyped
  <2>2. CASE RxReady
    <3>1. wire # <<>> /\ wire' = Tail(wire)
      BY <2>2 DEF RxReady
    <3>2. wire' \in Seq(Byte) /\ Head(wire) \in Byte
      BY <1>2, <3>1, HeadTailProperties
    <3>3. CASE Len(rxRing) < RingBytes /\ rxRing' = Append(rxRing, <<Head(wire), gap>>) /\ gap' = FALSE
      <4>1. <<Head(wire), gap>> \in Byte \X BOOLEAN
        BY <1>2, <3>2
      <4>2. rxRing' \in Seq(Byte \X BOOLEAN) /\ Len(rxRing') = Len(rxRing) + 1 /\ Len(rxRing) \in Nat
        BY <1>2, <3>3, <4>1, AppendProperties, LenProperties
      <4>3. Len(rxRing') <= RingBytes
        BY <3>3, <4>2, ReceiveAssumption
      <4>4. QED
        BY <3>2, <3>3, <4>2, <4>3
    <3>4. CASE gap' = TRUE /\ rxRing' = rxRing
      BY <1>2, <3>2, <3>4
    <3>5. QED
      BY <2>2, <3>3, <3>4 DEF RxReady
  <2>3. CASE RxStopped
    <3>1. PICK n \in 0..Len(wire) : wire' = SubSeq(wire, n + 1, Len(wire))
      BY <2>3 DEF RxStopped
    <3>2. wire' \in Seq(Byte)
      BY <1>2, <3>1, RestTyped
    <3>3. gap' = TRUE /\ (rxRing' = rxRing \/ rxRing' = <<>>)
      BY <2>3 DEF RxStopped
    <3>4. rxRing' \in Seq(Byte \X BOOLEAN) /\ Len(rxRing') <= RingBytes
      <4>1. CASE rxRing' = rxRing
        BY <1>2, <4>1
      <4>2. CASE rxRing' = <<>>
        <5>1. RingBytes \in Nat
          BY ReceiveAssumption
        <5>2. QED
          BY <4>2, <5>1, EmptySeq
      <4>3. QED
        BY <3>3, <4>1, <4>2
    <3>5. QED
      BY <3>2, <3>3, <3>4
  <2>4. QED
    BY <2>1, <2>2, <2>3
<1>4. Collected'
  BY <1>1 DEF ReceiveInv, Collected
<1>5. {gap', missed'} \subseteq BOOLEAN
  BY <1>1, <1>3, FlagsTyped, Zenon DEF ReceiveInv
<1>6. /\ ubx' \in UbxStates /\ len' \in Words /\ ckA' \in 0..255
      /\ payload' \in Seq(0..255) /\ Len(payload') <= 4 + MaxPayload
      /\ line' \in Seq(0..255) /\ Len(line') <= MaxLine
      /\ since' \in 0..Cap /\ holes' \in 0..2
  BY <1>1 DEF ReceiveInv, ReceiveTypeOK
<1>7. QED
  BY <1>3, <1>4, <1>5, <1>6, Zenon DEF ReceiveInv, ReceiveTypeOK, Byte

LEMMA ReceiveInvStep == ReceiveInv /\ [ReceiveNext]_receiveVars => ReceiveInv'
<1> SUFFICES ASSUME ReceiveInv, [ReceiveNext]_receiveVars PROVE ReceiveInv'
  OBVIOUS
<1>1. CASE SendFrame \/ RxReady \/ RxStopped
  BY <1>1, SenderTyped
<1>2. ASSUME NEW b \in NextByte, UbxSync(b) PROVE ReceiveInv'
  BY <1>2, UbxSyncTyped, ParserEnough DEF UbxSync
<1>3. ASSUME NEW b \in NextByte, UbxBody(b) PROVE ReceiveInv'
  BY <1>3, UbxBodyTyped, ParserEnough DEF UbxBody
<1>4. ASSUME NEW b \in NextByte, UbxCheck(b) PROVE ReceiveInv'
  BY <1>4, UbxCheckTyped, ParserEnough DEF UbxCheck
<1>5. ASSUME NEW b \in NextByte, NmeaStart(b) \/ NmeaEnd(b) \/ NmeaByte(b) PROVE ReceiveInv'
  BY <1>5, NmeaTyped, ParserEnough
<1>6. CASE UNCHANGED receiveVars
  BY <1>6 DEF ReceiveInv, ReceiveTypeOK, Collected, receiveVars, ubxVars
<1>7. QED
  BY <1>1, <1>2, <1>3, <1>4, <1>5, <1>6 DEF ReceiveNext

\* Types, for any sentences and sizes: whatever bytes are lost, the length that the
\* parser of messages believes fits 16 bits, and neither the payload nor the line is
\* written past its array (gnss_m10q.c:766, 894).
THEOREM ReceiveTypes == ReceiveSpec => []ReceiveTypeOK
<1>1. ReceiveInv => ReceiveTypeOK
  BY DEF ReceiveInv
<1>2. QED
  BY <1>1, ReceiveInvInit, ReceiveInvStep, PTL DEF ReceiveSpec

-----------------------------------------------------------------------------
(* Where in what was sent the receiving side is: a place is a frame and a   *)
(* position in it.                                                          *)

Positions == {p \in Frames \X Nat : p[2] \in 1..Len(p[1])}
ByteAt(p) == p[1][p[2]]
Succeeds(p, q) == (q[1] = p[1] /\ q[2] = p[2] + 1) \/ (p[2] = Len(p[1]) /\ q[2] = 1)

\* The wire has what comes after place p, unless bytes have been lost.
Reached(p, f, k) == p = <<f, k>> \/ (k = 0 /\ p[2] = Len(p[1]))
Rest(w, f, k) == Len(w) = Len(f) - k /\ \A i \in 1..Len(w) : w[i] = f[k + i]
Sending(p) ==
  \E f \in Frames : \E k \in 0..Len(f) : Rest(wire, f, k) /\ (gap \/ Reached(p, f, k))

\* c[0] is the place of the last byte parsed, c[1], c[2], ... are those of the ring.
Stream(c) ==
  /\ c \in [Nat -> Positions]
  /\ \A i \in 1..Len(rxRing) :
       rxRing[i][1] = ByteAt(c[i]) /\ (rxRing[i][2] \/ Succeeds(c[i - 1], c[i]))
  /\ Sending(c[Len(rxRing)])

\* The parser of messages is at place k of an acknowledgement.
InStep(k) ==
  \/ k = 1 /\ ubx = "sync2"
  \/ k = 2 /\ ubx = "class"
  \/ k = 3 /\ ubx = "id"
  \/ k = 4 /\ ubx = "len_l"
  \/ k = 5 /\ ubx = "len_h" /\ len = 2
  \/ k = 6 /\ ubx = "payload" /\ len = 2 /\ Len(payload) = 4
  \/ k = 7 /\ ubx = "payload" /\ len = 2 /\ Len(payload) = 5
  \/ k = 8 /\ ubx = "ck_a"
  \/ k = 9 /\ ubx = "ck_b"

Settled(p) == ubx = "search" \/ (p[1] = AckFrame /\ InStep(p[2]))

\* It is in a message that never was, and has so many bytes to go at most.
Astray(p) ==
  \/ ubx = "class" /\ since <= 1
  \/ ubx = "id" /\ since <= 2
  \/ ubx = "len_l" /\ since <= 3
  \/ ubx = "len_h" /\ since <= 4 /\ len = ByteAt(p)
  \/ ubx = "payload" /\ since + len <= MaxPayload + 1 + (Len(payload) - 4)
  \/ ubx = "ck_a" /\ since <= MaxPayload + 1
  \/ ubx = "ck_b" /\ since <= MaxPayload + 2

\* The line has what came of a sentence before whose start that was over.
LineKept(p) ==
  \A b \in Bodies :
    p[1] = Line(b) /\ p[2] <= Len(b) + 4 /\ since >= MaxPayload + 3 + p[2]
      => Len(line) = p[2] /\ \A i \in 1..p[2] : line[i] = Line(b)[i]

\* And nothing once the sentence has ended.
LineEnded(p) ==
  \A b \in Bodies :
    p[1] = Line(b) /\ p[2] = Len(b) + 5 /\ since >= MaxPayload + 3 + p[2] => line = <<>>

\* The payload has what came of an acknowledgement before whose start that was over.
MessageKept(p) ==
  ubx # "search" /\ p[1] = AckFrame /\ p[2] \in 2..9 /\ since >= MaxPayload + 3 + p[2]
    => /\ Len(payload) = IF p[2] <= 8 THEN p[2] - 2 ELSE 6
       /\ \A i \in 1..Len(payload) : payload[i] = AckBody[i]

InOrder(p) ==
  (Settled(p) \/ Astray(p)) /\ LineKept(p) /\ LineEnded(p) /\ MessageKept(p) /\ ~missed

\* One byte further, of those that came.
Advance(p, q, n) ==
  n = 1 \/ (Succeeds(p, q) /\ n = IF since < Cap THEN since + 1 ELSE Cap)

\* The bytes of the ring have places in what was sent, and what has been parsed is in
\* order up to the first of them.
ResyncInv == ReceiveInv /\ \E c : Stream(c) /\ InOrder(c[0])

LEMMA PlaceIs ==
  ASSUME NEW p \in Positions
  PROVE  /\ p = <<p[1], p[2]>> /\ p[2] \in Nat /\ p[2] >= 1 /\ p[2] <= Len(p[1])
         /\ p[1] \in Frames /\ Len(p[1]) \in Nat /\ Len(p[1]) >= 10 /\ ByteAt(p) \in Byte
<1>1. p \in Frames \X Nat /\ p[2] \in 1..Len(p[1])
  BY DEF Positions
<1>2. p = <<p[1], p[2]>> /\ p[1] \in Frames /\ p[2] \in Nat
  BY <1>1
<1>3. p[1] \in Seq(Byte) /\ Len(p[1]) \in Nat /\ Len(p[1]) >= 10
  BY <1>2, FramesTyped
<1>4. p[1][p[2]] \in Byte
  BY <1>1, <1>3, ElementOfSeq
<1>5. QED
  BY <1>1, <1>2, <1>3, <1>4 DEF ByteAt

LEMMA PlaceMade ==
  ASSUME NEW f \in Frames, NEW k \in 1..Len(f) PROVE <<f, k>> \in Positions
<1>1. k \in Nat
  BY FramesTyped
<1>2. QED
  BY <1>1 DEF Positions

LEMMA PlaceKinds ==
  ASSUME NEW p \in Positions
  PROVE  p[1] = AckFrame \/ \E b \in Bodies : p[1] = Line(b)
BY PlaceIs, FramesAre

\* Characters of a sentence before its end, and the end.
LEMMA LineBytes ==
  ASSUME NEW b \in Bodies, NEW k \in Nat, k >= 1, k <= Len(b) + 6
  PROVE  \/ k = 1 /\ Line(b)[k] = 36
         \/ k >= 2 /\ k <= Len(b) + 4 /\ Line(b)[k] \in (32..126) \ {36}
         \/ k = Len(b) + 5 /\ Line(b)[k] = 13
         \/ k = Len(b) + 6 /\ Line(b)[k] = 10
<1>1. Len(b) \in Nat /\ b \in Seq(Byte) /\ \A i \in 1..Len(b) : b[i] \in (32..126) \ {36}
  BY BodyIs DEF Dollar
<1>2. CASE k = 1
  BY <1>2, LineIs DEF Dollar
<1>3. CASE k \in 2..Len(b) + 1
  <2>1. k - 1 \in 1..Len(b) /\ Line(b)[k] = b[k - 1]
    BY <1>1, <1>3, LineIs
  <2>2. Line(b)[k] \in (32..126) \ {36}
    BY <1>1, <2>1
  <2>3. k >= 2 /\ k <= Len(b) + 4
    BY <1>1, <1>3
  <2>4. QED
    BY <2>2, <2>3
<1>4. CASE k = Len(b) + 2
  <2>1. Line(b)[k] = 42 /\ k >= 2 /\ k <= Len(b) + 4
    BY <1>1, <1>4, LineIs DEF Star
  <2>2. QED
    BY <2>1
<1>5. CASE k = Len(b) + 3 \/ k = Len(b) + 4
  <2>1. XorOf(b) \in 0..255
    BY <1>1, XorTyped
  <2>2. XorOf(b) \div 16 \in 0..15 /\ XorOf(b) % 16 \in 0..15
    BY ONLY <2>1
  <2>3. /\ Hex(XorOf(b) \div 16) \in (48..57) \cup (65..70)
        /\ Hex(XorOf(b) % 16) \in (48..57) \cup (65..70)
    BY <2>2, HexIs
  <2>4. Line(b)[k] \in (48..57) \cup (65..70)
    BY <1>5, <2>3, LineIs
  <2>5. Line(b)[k] \in (32..126) \ {36}
    BY <2>4
  <2>6. k >= 2 /\ k <= Len(b) + 4
    BY <1>1, <1>5
  <2>7. QED
    BY <2>5, <2>6
<1>6. CASE k = Len(b) + 5 \/ k = Len(b) + 6
  BY <1>1, <1>6, LineIs DEF Cr, Lf
<1>7. QED
  <2>1. k = 1 \/ k \in 2..Len(b) + 1 \/ k = Len(b) + 2 \/ k = Len(b) + 3 \/ k = Len(b) + 4
          \/ k = Len(b) + 5 \/ k = Len(b) + 6
    BY <1>1
  <2>2. QED
    BY <2>1, <1>2, <1>3, <1>4, <1>5, <1>6

\* Which places a byte that matters to the parsers can come from.
LEMMA SyncPlace == ASSUME NEW p \in Positions, ByteAt(p) = 181 PROVE p = <<AckFrame, 1>>
<1>1. CASE p[1] = AckFrame
  <2>1. p[2] \in 1..10 /\ AckFrame[p[2]] = 181
    BY <1>1, PlaceIs, AckFrameIs DEF ByteAt
  <2>2. p[2] \in {1, 2, 3, 4, 5, 6, 7, 8, 9, 10}
    BY <2>1
  <2>3. p[2] = 1
    BY <2>1, <2>2, AckFrameIs
  <2>4. QED
    BY <1>1, <2>3, PlaceIs
<1>2. ASSUME NEW b \in Bodies, p[1] = Line(b) PROVE FALSE
  <2>1. p[2] \in Nat /\ p[2] >= 1 /\ p[2] <= Len(b) + 6 /\ Len(b) \in Nat /\ Line(b)[p[2]] = 181
    BY <1>2, PlaceIs, LineIs, BodyIs DEF ByteAt
  <2>2. \/ Line(b)[p[2]] = 36 \/ Line(b)[p[2]] \in 32..126
        \/ p[2] = Len(b) + 5 /\ Line(b)[p[2]] = 13
        \/ Line(b)[p[2]] = 10
    BY <2>1, LineBytes, Zenon
  <2>3. QED
    BY <2>1, <2>2
<1>3. QED
  BY <1>1, <1>2, PlaceKinds

LEMMA ZeroPlace == ASSUME NEW p \in Positions, ByteAt(p) = 0 PROVE p = <<AckFrame, 6>>
<1>1. CASE p[1] = AckFrame
  <2>1. p[2] \in 1..10 /\ AckFrame[p[2]] = 0
    BY <1>1, PlaceIs, AckFrameIs DEF ByteAt
  <2>2. p[2] \in {1, 2, 3, 4, 5, 6, 7, 8, 9, 10}
    BY <2>1
  <2>3. p[2] = 6
    BY <2>1, <2>2, AckFrameIs
  <2>4. QED
    BY <1>1, <2>3, PlaceIs
<1>2. ASSUME NEW b \in Bodies, p[1] = Line(b) PROVE FALSE
  <2>1. p[2] \in Nat /\ p[2] >= 1 /\ p[2] <= Len(b) + 6 /\ Len(b) \in Nat /\ Line(b)[p[2]] = 0
    BY <1>2, PlaceIs, LineIs, BodyIs DEF ByteAt
  <2>2. \/ Line(b)[p[2]] = 36 \/ Line(b)[p[2]] \in 32..126
        \/ p[2] = Len(b) + 5 /\ Line(b)[p[2]] = 13
        \/ Line(b)[p[2]] = 10
    BY <2>1, LineBytes, Zenon
  <2>3. QED
    BY <2>1, <2>2
<1>3. QED
  BY <1>1, <1>2, PlaceKinds

LEMMA EndPlace ==
  ASSUME NEW p \in Positions, ByteAt(p) = 13
  PROVE  \E b \in Bodies : p[1] = Line(b) /\ p[2] = Len(b) + 5
<1>1. CASE p[1] = AckFrame
  <2>1. p[2] \in 1..10 /\ AckFrame[p[2]] = 13
    BY <1>1, PlaceIs, AckFrameIs DEF ByteAt
  <2>2. p[2] \in {1, 2, 3, 4, 5, 6, 7, 8, 9, 10}
    BY <2>1
  <2>3. QED
    BY <2>1, <2>2, AckFrameIs
<1>2. ASSUME NEW b \in Bodies, p[1] = Line(b) PROVE p[2] = Len(b) + 5
  <2>1. p[2] \in Nat /\ p[2] >= 1 /\ p[2] <= Len(b) + 6 /\ Len(b) \in Nat /\ Line(b)[p[2]] = 13
    BY <1>2, PlaceIs, LineIs, BodyIs DEF ByteAt
  <2>2. \/ Line(b)[p[2]] = 36 \/ Line(b)[p[2]] \in 32..126
        \/ p[2] = Len(b) + 5 /\ Line(b)[p[2]] = 13
        \/ Line(b)[p[2]] = 10
    BY <2>1, LineBytes, Zenon
  <2>3. QED
    BY <2>1, <2>2
<1>3. QED
  BY <1>1, <1>2, PlaceKinds

LEMMA LineNotAck == \A b \in Bodies : Line(b) # AckFrame
BY LineIs, AckFrameIs DEF Dollar

LEMMA HexPair ==
  ASSUME NEW d \in 0..15, NEW e \in 0..15 PROVE HexValue(Hex(d), Hex(e)) = 16 * d + e
<1>1. Digit(Hex(d)) = d
  BY HexIs
<1>2. Digit(Hex(e)) = e
  BY HexIs
<1>3. d >= 0 /\ e >= 0
  OBVIOUS
<1> DEFINE h == Hex(d)
<1> DEFINE k == Hex(e)
<1>4. Digit(h) = d /\ Digit(k) = e /\ h \in (48..57) \cup (65..70)
  BY <1>1, <1>2, HexIs
<1> HIDE DEF h, k
<1>5. HexValue(h, k) = 16 * d + e
  BY <1>3, <1>4 DEF HexValue
<1>6. QED
  BY <1>5 DEF h, k

\* A byte and its two digits.
LEMMA TwoDigits ==
  ASSUME NEW x \in 0..255 PROVE HexValue(Hex(x \div 16), Hex(x % 16)) = x
<1>1. PICK d \in 0..15 : d = x \div 16
  OBVIOUS
<1>2. PICK e \in 0..15 : e = x % 16
  OBVIOUS
<1>3. x = 16 * (x \div 16) + (x % 16)
  OBVIOUS
<1>4. x = 16 * d + e
  BY <1>1, <1>2, <1>3
<1>5. HexValue(Hex(d), Hex(e)) = x
  BY <1>4, HexPair
<1>6. QED
  BY <1>1, <1>2, <1>5

\* A line with one * is valid if what is before it has the exclusive or it says.
LEMMA StarredLine ==
  ASSUME NEW k \in Nat, k >= 4, NEW s \in Seq(Byte), Len(s) = k + 4, s[1] = Dollar,
         s[k + 2] = Star, \A i \in 2..k + 1 : s[i] # Star,
         NEW t, Len(t) = k, \A i \in 1..k : t[i] = s[i + 1]
  PROVE  ValidSentence(s) <=> XorOf(t) = HexValue(s[k + 3], s[k + 4])
<1> DEFINE stars == {i \in 2..Len(s) : s[i] = Star /\ i <= Len(s) - 2}
<1> DEFINE star == CHOOSE i \in stars : \A j \in stars : i <= j
<1>1. k + 2 \in stars /\ \A i \in stars : i = k + 2
  <2>1. k + 2 \in stars
    OBVIOUS
  <2>2. ASSUME NEW i \in stars, i # k + 2 PROVE FALSE
    <3>1. i \in 2..k + 1 /\ s[i] = Star
      BY <2>2
    <3>2. QED
      BY <3>1
  <2>3. QED
    BY <2>1, <2>2
<1>2. stars # {} /\ star = k + 2
  <2> HIDE DEF stars
  <2>1. \E i \in stars : \A j \in stars : i <= j
    BY <1>1
  <2>2. star \in stars
    BY <2>1
  <2>3. QED
    BY <1>1, <2>2
<1> DEFINE mid == SubSeq(s, 2, k + 1)
<1>3. Len(mid) = k /\ \A i \in 1..k : mid[i] = t[i]
  <2>1. 2 \in Int /\ k + 1 \in Int /\ 2 <= k + 1 /\ \A i \in 2..k + 1 : s[i] \in Byte
    <3>1. \A i \in 1..Len(s) : s[i] \in Byte
      BY ElementOfSeq
    <3>2. QED
      BY <3>1
  <2>2. /\ Len(mid) = (k + 1) - 2 + 1
        /\ \A i \in 1..(k + 1) - 2 + 1 : mid[i] = s[2 + i - 1]
    BY <2>1, SubSeqProperties
  <2> HIDE DEF mid
  <2>3. (k + 1) - 2 + 1 = k
    OBVIOUS
  <2>4. ASSUME NEW i \in 1..k PROVE mid[i] = t[i]
    <3>1. 2 + i - 1 = i + 1
      OBVIOUS
    <3>2. QED
      BY <2>2, <2>3, <3>1
  <2>5. QED
    BY <2>2, <2>3, <2>4
<1>4. mid = SubSeq(s, 2, star - 1)
  <2> HIDE DEF star
  <2>1. star - 1 = k + 1
    BY <1>2
  <2>2. QED
    BY <2>1
<1> HIDE DEF mid
<1>5. XorOf(mid) = XorOf(t)
  BY <1>3, XorSame
<1>6. CharAt(s, star + 1) = s[k + 3] /\ CharAt(s, star + 2) = s[k + 4]
  <2> HIDE DEF star
  <2>1. /\ star + 1 = k + 3 /\ star + 2 = k + 4 /\ star + 1 <= Len(s) /\ star + 2 <= Len(s)
    BY <1>2
  <2>2. QED
    BY <2>1 DEF CharAt
<1>7. Len(s) >= 8 /\ s[1] = Dollar
  OBVIOUS
<1> HIDE DEF stars, star
<1>8. ValidSentence(s) <=>
        XorOf(SubSeq(s, 2, star - 1)) = HexValue(CharAt(s, star + 1), CharAt(s, star + 2))
  BY <1>2, <1>7, Zenon DEF ValidSentence, stars, star
<1>9. QED
  BY <1>4, <1>5, <1>6, <1>8

LEMMA StarLine ==
  ASSUME NEW b \in Bodies, NEW s \in Seq(Byte), Len(s) = Len(b) + 4,
         \A i \in 1..Len(b) + 4 : s[i] = Line(b)[i]
  PROVE  ValidSentence(s)
<1> DEFINE k == Len(b)
<1>1. k \in Nat /\ k >= 4 /\ b \in Seq(Byte) /\ \A i \in 1..k : b[i] # Star
  BY BodyIs
<1>2. Len(s) = k + 4 /\ s[1] = Dollar /\ s[k + 2] = Star /\ Len(b) = k
  BY <1>1, LineIs
<1>3. s[k + 3] = Hex(XorOf(b) \div 16) /\ s[k + 4] = Hex(XorOf(b) % 16)
  BY <1>1, LineIs
<1>4. \A i \in 2..k + 1 : s[i] = b[i - 1]
  BY <1>1, LineIs
<1> HIDE DEF k
<1>5. \A i \in 2..k + 1 : s[i] # Star
  <2>1. \A i \in 2..k + 1 : i - 1 \in 1..k
    BY <1>1
  <2>2. QED
    BY <1>1, <1>4, <2>1
<1>6. \A i \in 1..k : b[i] = s[i + 1]
  <2>1. \A i \in 1..k : i + 1 \in 2..k + 1 /\ (i + 1) - 1 = i
    BY <1>1
  <2>2. QED
    BY <1>4, <2>1
<1>7. ValidSentence(s) <=> XorOf(b) = HexValue(s[k + 3], s[k + 4])
  BY <1>1, <1>2, <1>5, <1>6, StarredLine
<1>8. XorOf(b) \in 0..255
  BY <1>1, <1>2, XorTyped
<1>9. HexValue(Hex(XorOf(b) \div 16), Hex(XorOf(b) % 16)) = XorOf(b)
  BY <1>8, TwoDigits
<1>10. QED
  BY <1>3, <1>7, <1>9

\* A place after one in an acknowledgement.
LEMMA NextInAck ==
  ASSUME NEW p \in Positions, NEW q \in Positions, NEW k \in 1..9, p = <<AckFrame, k>>, Succeeds(p, q)
  PROVE  q = <<AckFrame, k + 1>> /\ ByteAt(q) = AckFrame[k + 1]
<1>1. p[1] = AckFrame /\ p[2] = k /\ p[2] # Len(AckFrame)
  BY AckFrameIs
<1>2. q[1] = AckFrame /\ q[2] = k + 1
  BY <1>1 DEF Succeeds
<1>3. QED
  BY <1>2, PlaceIs DEF ByteAt

LEMMA AstraySoon ==
  ASSUME ReceiveInv, NEW p, Astray(p) PROVE since <= MaxPayload + 2 /\ since < Cap
<1>1. /\ MaxPayload \in Nat /\ MaxPayload >= 6 /\ since \in Nat /\ len \in Nat
      /\ payload \in Seq(0..255) /\ Cap >= MaxPayload + 12 /\ Cap \in Nat
  <2>1. MaxPayload \in Nat /\ MaxPayload >= 6
    BY ReceiveAssumption
  <2>2. Cap \in Nat /\ Cap >= MaxPayload + 12
    BY <2>1, LongestIs
  <2>3. since \in Nat /\ len \in Nat /\ payload \in Seq(0..255)
    BY <2>2, WordsAre DEF ReceiveInv, ReceiveTypeOK
  <2>4. QED
    BY <2>1, <2>2, <2>3
<1>2. Len(payload) \in Nat
  BY <1>1, LenProperties
<1>3. since <= MaxPayload + 2
  <2>1. CASE ubx = "payload"
    <3>1. Len(payload) < 4 + len /\ since + len <= MaxPayload + 1 + (Len(payload) - 4)
      BY <2>1 DEF Astray, ReceiveInv, Collected
    <3>2. QED
      BY <1>1, <1>2, <3>1
  <2>2. CASE ubx # "payload"
    BY <1>1, <2>2 DEF Astray
  <2>3. QED
    BY <2>1, <2>2
<1>4. QED
  BY <1>1, <1>3

\* Settled in a message, the place is in an acknowledgement before its last byte.
LEMMA SettledPlace ==
  ASSUME NEW p \in Positions, Settled(p), ubx # "search"
  PROVE  p[2] \in 1..9 /\ p = <<AckFrame, p[2]>> /\ InStep(p[2])
<1>1. p[1] = AckFrame /\ InStep(p[2])
  BY DEF Settled
<1>2. p[2] \in {1, 2, 3, 4, 5, 6, 7, 8, 9}
  BY <1>1 DEF InStep
<1>3. QED
  BY <1>1, <1>2, PlaceIs

\* So long after a loss, a parser of messages that is not at rest is in step.
LEMMA Late ==
  ASSUME ReceiveInv, NEW p \in Positions, NEW q \in Positions, InOrder(p),
         NEW n \in Nat, Advance(p, q, n), n >= MaxPayload + 4
  PROVE  /\ Succeeds(p, q) /\ since >= n - 1 /\ since \in Nat
         /\ ubx # "search" => q[1] = AckFrame
<1>1. MaxPayload \in Nat /\ since \in Nat /\ Cap \in Nat /\ since <= Cap
  BY LongestIs, ReceiveAssumption DEF ReceiveInv, ReceiveTypeOK
<1>2. Succeeds(p, q) /\ n = IF since < Cap THEN since + 1 ELSE Cap
  BY <1>1 DEF Advance
<1>3. since >= n - 1
  BY <1>1, <1>2
<1>4. since > MaxPayload + 2
  BY <1>1, <1>3
<1>5. ~Astray(p)
  <2>1. ~(since <= MaxPayload + 2)
    BY <1>1, <1>4
  <2>2. QED
    BY <2>1, AstraySoon
<1>6. ASSUME ubx # "search" PROVE q[1] = AckFrame
  <2>1. p[2] \in 1..9 /\ p = <<AckFrame, p[2]>>
    BY <1>5, <1>6, SettledPlace DEF InOrder
  <2>2. QED
    BY <1>2, <2>1, NextInAck
<1>7. QED
  BY <1>1, <1>2, <1>3, <1>6

LEMMA Sizes ==
  ASSUME ReceiveInv
  PROVE  /\ MaxPayload \in Nat /\ MaxPayload >= 6 /\ Cap \in Nat /\ Cap >= MaxPayload + 12
         /\ LongestFrame \in Nat /\ Cap = LongestFrame + MaxPayload + 2
         /\ since \in Nat /\ since <= Cap /\ len \in Nat
         /\ Len(payload) \in Nat /\ payload \in Seq(0..255) /\ line \in Seq(Byte)
<1>1. MaxPayload \in Nat /\ MaxPayload >= 6
  BY ReceiveAssumption
<1>2. Cap \in Nat /\ Cap >= MaxPayload + 12 /\ LongestFrame \in Nat /\ Cap = LongestFrame + MaxPayload + 2
  BY <1>1, LongestIs
<1>3. since \in Nat /\ since <= Cap /\ len \in Nat /\ payload \in Seq(0..255) /\ line \in Seq(Byte)
  BY <1>2, WordsAre DEF ReceiveInv, ReceiveTypeOK, Byte
<1>4. Len(payload) \in Nat
  BY <1>3, LenProperties
<1>5. QED
  BY <1>1, <1>2, <1>3, <1>4

\* The parser of messages leaves the lines alone.
LEMMA BusyKeeps ==
  ASSUME ReceiveInv, NEW p \in Positions, NEW q \in Positions, InOrder(p),
         NEW b \in NextByte, b = ByteAt(q), NEW n \in Nat, n = since', Advance(p, q, n),
         UbxSync(b) \/ UbxBody(b) \/ UbxCheck(b)
  PROVE  LineKept(q)' /\ LineEnded(q)' /\ ~missed'
<1>1. ubx = "search" => b = 181
  BY DEF UbxSync, UbxBody, UbxCheck, Sync1
<1>2. ASSUME n >= MaxPayload + 4 PROVE q[1] = AckFrame
  <2>1. ubx # "search" => q[1] = AckFrame
    BY <1>2, Late
  <2>2. ubx = "search" => q = <<AckFrame, 1>>
    BY <1>1, SyncPlace
  <2>3. QED
    BY <2>1, <2>2
<1>3. LineKept(q)'
  <2>1. SUFFICES ASSUME NEW c \in Bodies, q[1] = Line(c), n >= MaxPayload + 3 + q[2] PROVE FALSE
    BY DEF LineKept
  <2>2. q[2] \in Nat /\ q[2] >= 1 /\ MaxPayload \in Nat
    BY PlaceIs, Sizes
  <2>3. n >= MaxPayload + 4
    BY <2>1, <2>2
  <2>4. QED
    BY <1>2, <2>1, <2>3, LineNotAck
<1>4. LineEnded(q)'
  <2>1. SUFFICES ASSUME NEW c \in Bodies, q[1] = Line(c), n >= MaxPayload + 3 + q[2] PROVE FALSE
    BY DEF LineEnded
  <2>2. q[2] \in Nat /\ q[2] >= 1 /\ MaxPayload \in Nat
    BY PlaceIs, Sizes
  <2>3. n >= MaxPayload + 4
    BY <2>1, <2>2
  <2>4. QED
    BY <1>2, <2>1, <2>3, LineNotAck
<1>5. ASSUME b = Cr, n = Cap PROVE FALSE
  <2>1. q[1] = AckFrame
    BY <1>2, <1>5, Sizes
  <2>2. \E c \in Bodies : q[1] = Line(c)
    BY <1>5, EndPlace DEF Cr
  <2>3. QED
    BY <2>1, <2>2, LineNotAck
<1>6. ~missed
  BY DEF InOrder
<1>7. ~missed'
  BY <1>5, <1>6, Zenon DEF UbxSync, UbxBody, UbxCheck
<1>8. QED
  BY <1>3, <1>4, <1>7

LEMMA SyncInOrder ==
  ASSUME ReceiveInv, NEW p \in Positions, NEW q \in Positions, InOrder(p),
         NEW b \in NextByte, b = ByteAt(q), NEW n \in Nat, n = since', Advance(p, q, n), UbxSync(b)
  PROVE  Settled(q)' \/ Astray(q)'
<1>1. CASE b = Sync1 /\ ubx' = "sync2"
  <2>1. q = <<AckFrame, 1>>
    BY <1>1, SyncPlace DEF Sync1
  <2>2. q[1] = AckFrame /\ q[2] = 1
    BY <2>1
  <2>3. QED
    BY <1>1, <2>2 DEF Settled, InStep
<1>2. CASE ubx = "sync2" /\ ubx' = "class"
  <2>1. Settled(p) /\ ubx # "search"
    BY <1>2 DEF InOrder, Astray
  <2>2. p = <<AckFrame, 1>>
    BY <1>2, <2>1, SettledPlace DEF InStep
  <2>3. CASE n = 1
    BY <1>2, <2>3 DEF Astray
  <2>4. CASE Succeeds(p, q)
    <3>1. q = <<AckFrame, 2>>
      BY <2>2, <2>4, NextInAck
    <3>2. q[1] = AckFrame /\ q[2] = 2
      BY <3>1
    <3>3. QED
      BY <1>2, <3>2 DEF Settled, InStep
  <2>5. QED
    BY <2>3, <2>4 DEF Advance
<1>3. CASE ubx' = "search"
  BY <1>3 DEF Settled
<1>4. QED
  BY <1>1, <1>2, <1>3 DEF UbxSync, ResetParser, ubxVars

LEMMA BodyInOrder ==
  ASSUME ReceiveInv, NEW p \in Positions, NEW q \in Positions, InOrder(p),
         NEW b \in NextByte, b = ByteAt(q), b \in 0..255,
         NEW n \in Nat, n = since', Advance(p, q, n), UbxBody(b), NEW m \in Nat, m = Len(payload')
  PROVE  Settled(q)' \/ Astray(q)'
<1>1. ubx # "search"
  BY DEF UbxBody
<1>2. \/ ubx = "class" /\ ubx' = "id" /\ len' = len /\ m = 1
      \/ ubx = "id" /\ ubx' = "len_l" /\ len' = len /\ m = 2
      \/ ubx = "len_l" /\ ubx' = "len_h" /\ len' = b /\ m = 3
      \/ ubx = "len_h" /\ len \in 0..255 /\ Length(len + 256 * b) /\ m = 4
      \/ /\ ubx = "payload" /\ len' = len /\ len <= MaxPayload /\ m >= 5 /\ m <= 4 + len
         /\ ubx' = IF m - 4 >= len THEN "ck_a" ELSE ubx
  BY UbxBodySteps
<1>3. m = Len(payload) + 1
  <2>1. payload \in Seq(0..255)
    BY Sizes
  <2>2. payload' = Append(payload, b)
    BY DEF UbxBody
  <2>3. QED
    BY <2>1, <2>2, AppendProperties
<1>4. /\ MaxPayload \in Nat /\ MaxPayload >= 6 /\ since \in Nat /\ len \in Nat
      /\ Len(payload) \in Nat
  BY Sizes
<1>5. CASE Settled(p) /\ Succeeds(p, q)
  <2>1. p[2] \in 1..9 /\ p = <<AckFrame, p[2]>> /\ InStep(p[2])
    BY <1>1, <1>5, SettledPlace
  <2>2. q = <<AckFrame, p[2] + 1>> /\ b = AckFrame[p[2] + 1]
    BY <1>5, <2>1, NextInAck
  <2>3. q[1] = AckFrame /\ q[2] = p[2] + 1
    BY <2>2
  <2>4. InStep(q[2])'
    <3>1. CASE p[2] = 2 /\ ubx = "class"
      BY <1>2, <2>3, <3>1 DEF InStep
    <3>2. CASE p[2] = 3 /\ ubx = "id"
      BY <1>2, <2>3, <3>2 DEF InStep
    <3>3. CASE p[2] = 4 /\ ubx = "len_l"
      <4>1. b = 2
        BY <2>2, <3>3, AckFrameIs
      <4>2. QED
        BY <1>2, <2>3, <3>3, <4>1 DEF InStep
    <3>4. CASE p[2] = 5 /\ ubx = "len_h" /\ len = 2
      <4>1. b = 0
        BY <2>2, <3>4, AckFrameIs
      <4>2. Length(2) /\ m = 4
        <5>1. Length(len + 256 * b) /\ m = 4
          BY <1>2, <3>4
        <5>2. len + 256 * b = 2
          BY <3>4, <4>1
        <5>3. QED
          BY <5>1, <5>2
      <4>3. ubx' = "payload" /\ len' = 2
        BY <1>4, <4>2, LengthOf
      <4>4. QED
        BY <2>3, <3>4, <4>2, <4>3 DEF InStep
    <3>5. CASE p[2] = 6 /\ ubx = "payload" /\ len = 2 /\ Len(payload) = 4
      <4>1. m = 5 /\ q[2] = 7
        BY <1>3, <2>3, <3>5
      <4>2. ubx' = "payload" /\ len' = 2
        BY <1>2, <3>5, <4>1
      <4>3. QED
        BY <4>1, <4>2 DEF InStep
    <3>6. CASE p[2] = 7 /\ ubx = "payload" /\ len = 2 /\ Len(payload) = 5
      <4>1. m = 6 /\ q[2] = 8
        BY <1>3, <2>3, <3>6
      <4>2. ubx' = "ck_a"
        BY <1>2, <3>6, <4>1
      <4>3. QED
        BY <4>1, <4>2 DEF InStep
    <3>7. QED
      BY <1>2, <2>1, <3>1, <3>2, <3>3, <3>4, <3>5, <3>6 DEF InStep
  <2>5. QED
    BY <2>3, <2>4 DEF Settled
<1>6. CASE n = 1 \/ Astray(p)
  <2>1. n = 1 \/ (Astray(p) /\ Succeeds(p, q) /\ n = since + 1)
    BY <1>6, AstraySoon DEF Advance
  <2>2. CASE ubx \in {"class", "id", "len_l"}
    <3>1. \/ ubx = "class" /\ ubx' = "id" /\ n <= 2
          \/ ubx = "id" /\ ubx' = "len_l" /\ n <= 3
          \/ ubx = "len_l" /\ ubx' = "len_h" /\ len' = b /\ n <= 4
      BY <1>2, <1>4, <2>1, <2>2 DEF Astray
    <3>2. QED
      BY <3>1 DEF Astray
  <2>3. CASE ubx = "len_h"
    <3>1. /\ len \in 0..255 /\ Length(len + 256 * b) /\ m = 4
      BY <1>2, <2>3
    <3>2. \/ ubx' = "search"
          \/ ubx' = "ck_a" /\ len' = 0 /\ len = 0 /\ b = 0
          \/ ubx' = "payload" /\ len' > 0 /\ len' <= MaxPayload /\ b = 0 /\ len' = len
      <4>1. len \in 0..255 /\ b \in 0..255 /\ Length(len + 256 * b)
        BY <3>1
      <4>2. QED
        BY ONLY <4>1, LengthSteps, Zenon
    <3>3. CASE n = 1
      <4>1. ubx' = "ck_a" => Astray(q)'
        BY <1>4, <3>3 DEF Astray
      <4>2. ASSUME ubx' = "payload", len' = len, len <= MaxPayload PROVE Astray(q)'
        <5>1. n + len <= MaxPayload + 1 + (m - 4)
          BY <1>4, <3>1, <3>3, <4>2
        <5>2. QED
          BY <4>2, <5>1 DEF Astray
      <4>3. QED
        BY <3>2, <4>1, <4>2 DEF Settled
    <3>4. CASE n # 1 /\ b = 0
      <4>1. Succeeds(p, q) /\ len = ByteAt(p)
        BY <2>1, <2>3, <3>4 DEF Astray
      <4>2. q = <<AckFrame, 6>>
        BY <3>4, ZeroPlace
      <4>3. q[1] = AckFrame /\ q[2] = 6
        BY <4>2
      <4>4. p[1] = AckFrame /\ p[2] = 5
        BY <4>1, <4>3, PlaceIs DEF Succeeds
      <4>5. len = 2
        BY <4>1, <4>4, AckFrameIs DEF ByteAt
      <4>6. ubx' = "search" \/ (ubx' = "payload" /\ len' = 2)
        BY <3>2, <4>5
      <4>7. QED
        BY <3>1, <4>3, <4>6 DEF Settled, InStep
    <3>5. CASE b # 0
      BY <3>2, <3>5 DEF Settled
    <3>6. QED
      BY <3>3, <3>4, <3>5
  <2>4. CASE ubx = "payload"
    <3>1. /\ len' = len /\ len <= MaxPayload /\ m >= 5 /\ m <= 4 + len
          /\ ubx' = IF m - 4 >= len THEN "ck_a" ELSE ubx
      BY <1>2, <2>4
    <3>2. n + len <= MaxPayload + 1 + (m - 4)
      <4>1. CASE n = 1
        BY <1>4, <3>1, <4>1
      <4>2. CASE n = since + 1 /\ Astray(p)
        <5>1. since + len <= MaxPayload + 1 + (Len(payload) - 4)
          BY <2>4, <4>2 DEF Astray
        <5>2. QED
          BY <1>3, <1>4, <4>2, <5>1
      <4>3. QED
        BY <2>1, <4>1, <4>2
    <3>3. ubx' = "payload" => Astray(q)'
      BY <3>1, <3>2 DEF Astray
    <3>4. ASSUME ubx' = "ck_a" PROVE Astray(q)'
      <4>1. m - 4 >= len
        BY <2>4, <3>1, <3>4
      <4>2. n <= MaxPayload + 1
        BY <1>4, <3>1, <3>2, <4>1
      <4>3. QED
        BY <3>4, <4>2 DEF Astray
    <3>5. QED
      BY <2>4, <3>1, <3>3, <3>4
  <2>5. QED
    BY <1>2, <2>2, <2>3, <2>4
<1>7. QED
  BY <1>5, <1>6 DEF Advance, InOrder

LEMMA CheckInOrder ==
  ASSUME ReceiveInv, NEW p \in Positions, NEW q \in Positions, InOrder(p),
         NEW b \in NextByte, b = ByteAt(q), NEW n \in Nat, n = since', Advance(p, q, n), UbxCheck(b)
  PROVE  Settled(q)' \/ Astray(q)'
<1>1. \/ ubx = "ck_a" /\ ubx' = "ck_b"
      \/ ubx' = "search"
  BY DEF UbxCheck, ResetParser
<1>2. CASE ubx' = "search"
  BY <1>2 DEF Settled
<1>3. CASE ubx = "ck_a" /\ ubx' = "ck_b"
  <2>1. CASE Settled(p) /\ Succeeds(p, q)
    <3>1. p[2] = 8 /\ p = <<AckFrame, p[2]>>
      BY <1>3, <2>1, SettledPlace DEF InStep
    <3>2. q = <<AckFrame, 9>>
      BY <2>1, <3>1, NextInAck
    <3>3. q[1] = AckFrame /\ q[2] = 9
      BY <3>2
    <3>4. QED
      BY <1>3, <3>3 DEF Settled, InStep
  <2>2. CASE n = 1 \/ (Astray(p) /\ n = since + 1)
    <3>1. n <= MaxPayload + 2
      BY <1>3, <2>2, Sizes DEF Astray
    <3>2. QED
      BY <1>3, <3>1 DEF Astray
  <2>3. n = 1 \/ (Succeeds(p, q) /\ (Astray(p) => n = since + 1))
    BY AstraySoon DEF Advance
  <2>4. QED
    BY <2>1, <2>2, <2>3 DEF InOrder
<1>4. QED
  BY <1>1, <1>2, <1>3

LEMMA AckBodyIs == \A k \in 1..6 : AckBody[k] = AckFrame[k + 2]
<1> SUFFICES ASSUME NEW k \in 1..6 PROVE AckBody[k] = AckFrame[k + 2]
  OBVIOUS
<1>1. k \in {1, 2, 3, 4, 5, 6}
  OBVIOUS
<1>2. /\ AckBody[1] = 5 /\ AckBody[2] = 1 /\ AckBody[3] = 2
      /\ AckBody[4] = 0 /\ AckBody[5] = 6 /\ AckBody[6] = 1
  BY DEF AckBody
<1>3. QED
  BY <1>1, <1>2, AckFrameIs

LEMMA MessageStep ==
  ASSUME ReceiveInv, NEW p \in Positions, NEW q \in Positions, InOrder(p),
         NEW b \in NextByte, b = ByteAt(q), NEW n \in Nat, n = since', Advance(p, q, n),
         UbxSync(b) \/ UbxBody(b) \/ UbxCheck(b)
  PROVE  MessageKept(q)'
<1>1. SUFFICES ASSUME ubx' # "search", q[1] = AckFrame, q[2] \in 2..9, n >= MaxPayload + 3 + q[2]
               PROVE  /\ Len(payload') = IF q[2] <= 8 THEN q[2] - 2 ELSE 6
                      /\ \A i \in 1..Len(payload') : payload'[i] = AckBody[i]
  BY DEF MessageKept
<1>2. MaxPayload \in Nat /\ payload \in Seq(0..255) /\ Len(payload) \in Nat
  BY Sizes
<1>3. n >= MaxPayload + 4
  BY <1>1, <1>2
<1>4. Succeeds(p, q) /\ since >= n - 1 /\ since \in Nat
  BY <1>3, Late
<1>5. p[1] = AckFrame /\ p[2] \in 1..8 /\ q[2] = p[2] + 1
  BY <1>1, <1>4, PlaceIs DEF Succeeds
<1>6. since >= MaxPayload + 3 + p[2]
  <2>1. since >= n - 1 /\ since \in Nat /\ n >= MaxPayload + 3 + q[2] /\ q[2] = p[2] + 1
        /\ p[2] \in 1..8 /\ MaxPayload \in Nat
    BY <1>1, <1>2, <1>4, <1>5
  <2>2. QED
    BY ONLY <2>1
<1>7. q # <<AckFrame, 1>>
  BY <1>1
<1>8. b # 181
  BY <1>7, SyncPlace
<1>9. ubx # "search"
  BY <1>8 DEF UbxSync, UbxBody, UbxCheck, Sync1
<1>10. ~Astray(p)
  <2>1. ~(since <= MaxPayload + 2)
    BY <1>2, <1>4, <1>5, <1>6
  <2>2. QED
    BY <2>1, AstraySoon
<1>11. InStep(p[2])
  BY <1>9, <1>10, SettledPlace DEF InOrder
<1>12. ASSUME p[2] \in 2..8
       PROVE  /\ Len(payload) = p[2] - 2 /\ \A i \in 1..Len(payload) : payload[i] = AckBody[i]
  BY <1>5, <1>6, <1>9, <1>12 DEF InOrder, MessageKept
<1>13. CASE UbxSync(b)
  <2>1. ubx = "sync2" /\ payload' = <<>>
    BY <1>1, <1>8, <1>9, <1>13 DEF UbxSync, ResetParser, Sync1
  <2>2. p[2] = 1
    BY <1>11, <2>1 DEF InStep
  <2>3. q[2] = 2 /\ Len(payload') = 0
    BY <1>5, <2>1, <2>2
  <2>4. QED
    BY <2>3
<1>14. CASE UbxBody(b)
  <2>1. ubx \in {"class", "id", "len_l", "len_h", "payload"} /\ payload' = Append(payload, b)
    BY <1>14 DEF UbxBody
  <2>2. p[2] \in 2..7
    BY <1>11, <2>1 DEF InStep
  <2>3. b = AckBody[p[2] - 1]
    <3>1. b = AckFrame[(p[2] - 1) + 2] /\ p[2] - 1 \in 1..6
      BY <1>1, <1>5, <2>2 DEF ByteAt
    <3>2. QED
      BY <3>1, AckBodyIs
  <2>4. PICK m \in 0..5 : m = p[2] - 2 /\ p[2] = m + 2
    BY <2>2
  <2>5. Len(payload) = m /\ \A i \in 1..m : payload[i] = AckBody[i]
    BY <1>12, <2>2, <2>4
  <2>6. b \in 0..255
    BY PlaceIs DEF Byte
  <2>7. /\ Len(payload') = m + 1
        /\ \A i \in 1..m + 1 : payload'[i] = IF i <= m THEN payload[i] ELSE b
    BY <1>2, <2>1, <2>5, <2>6, AppendProperties
  <2>8. b = AckBody[m + 1]
    BY <2>3, <2>4
  <2>9. ASSUME NEW i \in 1..m + 1 PROVE payload'[i] = AckBody[i]
    <3>1. i \in 1..m \/ (i = m + 1 /\ ~(i <= m))
      BY <2>4
    <3>2. QED
      BY <2>5, <2>7, <2>8, <3>1
  <2>10. (IF q[2] <= 8 THEN q[2] - 2 ELSE 6) = m + 1
    BY <1>5, <2>2, <2>4
  <2>11. QED
    BY <2>7, <2>9, <2>10, Zenon
<1>15. CASE UbxCheck(b)
  <2>1. ubx = "ck_a" /\ payload' = payload
    BY <1>1, <1>15 DEF UbxCheck, ResetParser
  <2>2. p[2] = 8
    BY <1>11, <2>1 DEF InStep
  <2>3. q[2] = 9 /\ p[2] \in 2..8 /\ p[2] - 2 = 6
    BY <1>5, <2>2
  <2>4. (IF q[2] <= 8 THEN q[2] - 2 ELSE 6) = p[2] - 2
    BY <2>3
  <2>5. QED
    BY <1>12, <2>1, <2>3, <2>4, Zenon
<1>16. QED
  BY <1>13, <1>14, <1>15

\* Which character of its sentence a byte is that is no end of it.
LEMMA CharPlace ==
  ASSUME NEW q \in Positions, NEW c \in Bodies, q[1] = Line(c), q[2] <= Len(c) + 4
  PROVE  /\ ByteAt(q) \in 32..126 /\ (ByteAt(q) = 36 <=> q[2] = 1)
         /\ ByteAt(q) = Line(c)[q[2]]
<1>1. q[2] \in Nat /\ q[2] >= 1 /\ q[2] <= Len(c) + 6 /\ Len(c) \in Nat
        /\ ByteAt(q) = Line(c)[q[2]]
  BY PlaceIs, LineIs, BodyIs DEF ByteAt
<1>2. \/ q[2] = 1 /\ ByteAt(q) = 36
      \/ q[2] >= 2 /\ q[2] <= Len(c) + 4 /\ ByteAt(q) \in (32..126) \ {36}
      \/ q[2] = Len(c) + 5 /\ ByteAt(q) = 13
      \/ q[2] = Len(c) + 6 /\ ByteAt(q) = 10
  <2>1. \/ q[2] = 1 /\ Line(c)[q[2]] = 36
        \/ q[2] >= 2 /\ q[2] <= Len(c) + 4 /\ Line(c)[q[2]] \in (32..126) \ {36}
        \/ q[2] = Len(c) + 5 /\ Line(c)[q[2]] = 13
        \/ q[2] = Len(c) + 6 /\ Line(c)[q[2]] = 10
    BY <1>1, LineBytes
  <2>2. ByteAt(q) = Line(c)[q[2]]
    BY <1>1
  <2>3. QED
    BY <2>1, <2>2, Zenon
<1>3. \/ q[2] = 1 /\ ByteAt(q) = 36
      \/ q[2] >= 2 /\ ByteAt(q) \in (32..126) \ {36}
  BY <1>1, <1>2
<1>4. ByteAt(q) \in 32..126
  BY <1>3
<1>5. ByteAt(q) = 36 <=> q[2] = 1
  BY <1>1, <1>3
<1>6. QED
  BY <1>1, <1>4, <1>5

LEMMA CrPlace ==
  ASSUME NEW q \in Positions, NEW c \in Bodies, q[1] = Line(c), q[2] = Len(c) + 5
  PROVE  ByteAt(q) = 13
BY LineIs DEF ByteAt, Cr

LEMMA StartInOrder ==
  ASSUME ReceiveInv, NEW p \in Positions, NEW q \in Positions, InOrder(p),
         NEW b \in NextByte, b = ByteAt(q), NmeaStart(b)
  PROVE  InOrder(q)'
<1>1. ubx' = "search" /\ line' = <<36>> /\ missed' = missed /\ b = 36
  BY DEF NmeaStart, ubxVars, Dollar
<1>2. LineKept(q)'
  <2>1. SUFFICES ASSUME NEW c \in Bodies, q[1] = Line(c), q[2] <= Len(c) + 4
                 PROVE  Len(line') = q[2] /\ \A i \in 1..q[2] : line'[i] = Line(c)[i]
    BY DEF LineKept
  <2>2. q[2] = 1
    BY <1>1, <2>1, CharPlace
  <2>3. Line(c)[1] = 36
    BY LineIs DEF Dollar
  <2>4. QED
    BY <1>1, <2>2, <2>3
<1>3. LineEnded(q)'
  <2>1. SUFFICES ASSUME NEW c \in Bodies, q[1] = Line(c), q[2] = Len(c) + 5 PROVE FALSE
    BY DEF LineEnded
  <2>2. ByteAt(q) = 13
    BY <2>1, CrPlace
  <2>3. b = 13 /\ b = 36
    BY <1>1, <2>2
  <2>4. QED
    BY <2>3
<1>4. MessageKept(q)'
  BY <1>1 DEF MessageKept
<1>5. QED
  BY <1>1, <1>2, <1>3, <1>4 DEF InOrder, Settled

LEMMA EndInOrder ==
  ASSUME ReceiveInv, NEW p \in Positions, NEW q \in Positions, InOrder(p),
         NEW b \in NextByte, b = ByteAt(q), NEW n \in Nat, n = since', Advance(p, q, n), NmeaEnd(b)
  PROVE  InOrder(q)'
<1>1. ubx' = "search" /\ b \in {10, 13}
  BY DEF NmeaEnd, ubxVars, Cr, Lf
<1>2. LineKept(q)'
  <2>1. SUFFICES ASSUME NEW c \in Bodies, q[1] = Line(c), q[2] <= Len(c) + 4 PROVE FALSE
    BY DEF LineKept
  <2>2. b \in 32..126
    BY <2>1, CharPlace
  <2>3. QED
    BY <1>1, <2>2
<1>3. ASSUME b = Cr, n = Cap PROVE ValidSentence(line)
  <2>1. n >= MaxPayload + 4
    BY <1>3, Sizes
  <2>2. Succeeds(p, q) /\ since >= n - 1
    BY <2>1, Late
  <2>3. PICK c \in Bodies : q[1] = Line(c) /\ q[2] = Len(c) + 5
    BY <1>3, EndPlace DEF Cr
  <2>4. Len(c) \in Nat /\ Len(Line(c)) = Len(c) + 6 /\ p[2] \in Nat
    BY BodyIs, LineIs, PlaceIs
  <2>5. p[1] = Line(c) /\ p[2] = Len(c) + 4
    BY <2>2, <2>3, <2>4 DEF Succeeds
  <2>6. Len(c) + 6 <= LongestFrame
    <3>1. Line(c) \in Frames
      BY <2>3, PlaceIs
    <3>2. QED
      BY <2>4, <3>1, LongestIs
  <2>7. since >= MaxPayload + 3 + p[2]
    <3>1. n = LongestFrame + MaxPayload + 2 /\ LongestFrame \in Nat /\ MaxPayload \in Nat /\ since \in Nat
      BY <1>3, Sizes
    <3>2. since >= n - 1 /\ Len(c) + 6 <= LongestFrame /\ Len(c) \in Nat /\ p[2] = Len(c) + 4
      BY <2>2, <2>4, <2>5, <2>6
    <3>3. QED
      BY ONLY <3>1, <3>2
  <2>8. Len(line) = Len(c) + 4 /\ \A i \in 1..Len(c) + 4 : line[i] = Line(c)[i]
    BY <2>4, <2>5, <2>7 DEF InOrder, LineKept
  <2>9. QED
    BY <2>8, Sizes, StarLine
<1>4. ~missed'
  BY <1>3, Zenon DEF NmeaEnd, InOrder
<1>5. LineEnded(q)' /\ MessageKept(q)'
  BY <1>1 DEF NmeaEnd, LineEnded, MessageKept
<1>6. QED
  BY <1>1, <1>2, <1>4, <1>5 DEF InOrder, Settled

LEMMA ByteInOrder ==
  ASSUME ReceiveInv, NEW p \in Positions, NEW q \in Positions, InOrder(p),
         NEW b \in NextByte, b = ByteAt(q), NEW n \in Nat, n = since', Advance(p, q, n), NmeaByte(b)
  PROVE  InOrder(q)'
<1>1. /\ ubx' = "search" /\ missed' = missed /\ b # 36
      /\ line' = IF line # <<>> /\ Len(line) < MaxLine THEN Append(line, b) ELSE <<>>
  BY DEF NmeaByte, ubxVars, Dollar
<1>2. LineKept(q)'
  <2>1. SUFFICES ASSUME NEW c \in Bodies, q[1] = Line(c), q[2] <= Len(c) + 4,
                        n >= MaxPayload + 3 + q[2]
                 PROVE  Len(line') = q[2] /\ \A i \in 1..q[2] : line'[i] = Line(c)[i]
    BY DEF LineKept
  <2>2. q[2] # 1 /\ b = Line(c)[q[2]]
    BY <1>1, <2>1, CharPlace
  <2>3. q[2] \in Nat /\ q[2] >= 1 /\ p[2] \in Nat /\ p[2] >= 1 /\ MaxPayload \in Nat
    BY PlaceIs, Sizes
  <2>4. n >= MaxPayload + 4
    BY <2>1, <2>3
  <2>5. Succeeds(p, q) /\ since >= n - 1 /\ since \in Nat
    BY <2>4, Late
  <2>6. p[1] = Line(c) /\ q[2] = p[2] + 1
    BY <2>1, <2>2, <2>5 DEF Succeeds
  <2>7. since >= MaxPayload + 3 + p[2]
    <3>1. /\ since >= n - 1 /\ since \in Nat /\ n >= MaxPayload + 3 + q[2]
          /\ q[2] = p[2] + 1 /\ p[2] \in Nat /\ MaxPayload \in Nat
      BY <2>1, <2>3, <2>5, <2>6
    <3>2. QED
      BY ONLY <3>1
  <2>8. Len(c) \in Nat /\ Len(c) + 4 <= MaxLine /\ MaxLine \in Nat
    BY BodyIs, ReceiveAssumption
  <2>9. p[2] <= Len(c) + 4 /\ p[2] < MaxLine
    BY <2>1, <2>3, <2>6, <2>8
  <2>10. Len(line) = p[2] /\ \A i \in 1..p[2] : line[i] = Line(c)[i]
    BY <2>6, <2>7, <2>9 DEF InOrder, LineKept
  <2>11. line \in Seq(Byte) /\ b \in Byte
    BY Sizes, PlaceIs
  <2>12. line # <<>> /\ line' = Append(line, b)
    BY <1>1, <2>3, <2>9, <2>10
  <2>13. /\ Len(Append(line, b)) = p[2] + 1
         /\ \A i \in 1..p[2] + 1 : Append(line, b)[i] = IF i <= p[2] THEN line[i] ELSE b
    BY <2>3, <2>10, <2>11, AppendProperties
  <2>14. \A i \in 1..p[2] + 1 : i \in 1..p[2] \/ i = p[2] + 1
    BY <2>3
  <2>15. \A i \in 1..p[2] + 1 : Append(line, b)[i] = Line(c)[i]
    BY <2>2, <2>3, <2>6, <2>10, <2>13, <2>14
  <2>16. QED
    BY <2>6, <2>12, <2>13, <2>15
<1>3. LineEnded(q)'
  <2>1. SUFFICES ASSUME NEW c \in Bodies, q[1] = Line(c), q[2] = Len(c) + 5 PROVE FALSE
    BY DEF LineEnded
  <2>2. b = 13
    BY <2>1, CrPlace
  <2>3. QED
    BY <2>2 DEF NmeaByte, Cr
<1>4. MessageKept(q)'
  BY <1>1 DEF MessageKept
<1>5. QED
  BY <1>1, <1>2, <1>3, <1>4 DEF InOrder, Settled

LEMMA RestMoves ==
  ASSUME NEW w \in Seq(Byte), NEW f \in Seq(Byte), NEW k \in 0..Len(f), Rest(w, f, k)
  PROVE  /\ w # <<>> => k + 1 \in 1..Len(f) /\ Head(w) = f[k + 1] /\ Rest(Tail(w), f, k + 1)
         /\ \A n \in 0..Len(w) : k + n \in 0..Len(f) /\ Rest(SubSeq(w, n + 1, Len(w)), f, k + n)
<1>1. Len(f) \in Nat /\ Len(w) \in Nat /\ Len(w) = Len(f) - k /\ k \in Nat
  BY LenProperties DEF Rest
<1>2. ASSUME w # <<>>
      PROVE  k + 1 \in 1..Len(f) /\ Head(w) = f[k + 1] /\ Rest(Tail(w), f, k + 1)
  <2> DEFINE tl == Tail(w)
  <2>1. /\ Len(w) >= 1 /\ Head(w) = w[1] /\ Len(tl) = Len(w) - 1
        /\ \A i \in 1..Len(tl) : tl[i] = w[i + 1]
    BY <1>1, <1>2, HeadTailProperties, EmptySeq
  <2> HIDE DEF tl
  <2>2. k + 1 \in 1..Len(f) /\ Len(tl) = Len(f) - (k + 1)
    BY <1>1, <2>1
  <2>3. Head(w) = f[k + 1]
    BY <1>1, <2>1 DEF Rest
  <2>4. ASSUME NEW i \in 1..Len(tl) PROVE tl[i] = f[(k + 1) + i]
    <3>1. i + 1 \in 1..Len(w) /\ k + (i + 1) = (k + 1) + i
      BY <1>1, <2>1
    <3>2. w[i + 1] = f[k + (i + 1)]
      BY <3>1 DEF Rest
    <3>3. QED
      BY <2>1, <3>1, <3>2
  <2>5. Rest(tl, f, k + 1)
    BY <2>2, <2>4 DEF Rest
  <2>6. QED
    BY <2>2, <2>3, <2>5 DEF tl
<1>3. ASSUME NEW n \in 0..Len(w)
      PROVE  k + n \in 0..Len(f) /\ Rest(SubSeq(w, n + 1, Len(w)), f, k + n)
  <2> DEFINE r == SubSeq(w, n + 1, Len(w))
  <2>1. /\ n + 1 \in Int /\ Len(w) \in Int /\ \A i \in n + 1 .. Len(w) : w[i] \in Byte
    <3>1. \A i \in 1..Len(w) : w[i] \in Byte
      BY ElementOfSeq
    <3>2. QED
      BY <1>1, <3>1
  <2>2. /\ Len(r) = IF n + 1 <= Len(w) THEN Len(w) - (n + 1) + 1 ELSE 0
        /\ \A i \in 1..Len(w) - (n + 1) + 1 : r[i] = w[(n + 1) + i - 1]
    BY <2>1, SubSeqProperties
  <2> HIDE DEF r
  <2>3. Len(r) = Len(w) - n /\ Len(r) = Len(f) - (k + n) /\ k + n \in 0..Len(f)
    <3>1. PICK l \in Nat, u \in Nat : l = Len(f) /\ u = Len(w)
      BY <1>1
    <3>2. u = l - k /\ n \in 0..u /\ k \in 0..l /\ Len(r) = IF n + 1 <= u THEN u - (n + 1) + 1 ELSE 0
      BY <1>1, <2>2, <3>1
    <3>3. Len(r) = u - n /\ u - n = l - (k + n) /\ k + n \in 0..l
      BY ONLY <3>2
    <3>4. QED
      BY <3>1, <3>3
  <2>4. ASSUME NEW i \in 1..Len(r) PROVE r[i] = f[(k + n) + i]
    <3>1. /\ i \in 1..Len(w) - (n + 1) + 1 /\ (n + 1) + i - 1 \in 1..Len(w)
          /\ k + ((n + 1) + i - 1) = (k + n) + i
      BY <1>1, <2>3
    <3>2. w[(n + 1) + i - 1] = f[k + ((n + 1) + i - 1)]
      BY <3>1 DEF Rest
    <3>3. QED
      BY <2>2, <3>1, <3>2
  <2>5. Rest(r, f, k + n)
    BY <2>3, <2>4 DEF Rest
  <2>6. QED
    BY <2>3, <2>5 DEF r
<1>4. QED
  BY <1>2, <1>3

LEMMA ResyncInit == ReceiveInit => ResyncInv
<1> SUFFICES ASSUME ReceiveInit PROVE ResyncInv
  OBVIOUS
<1> DEFINE c == [i \in Nat |-> <<AckFrame, 10>>]
<1>1. AckFrame \in Frames /\ Len(AckFrame) = 10
  BY AckFrameIs DEF AckFrame, Frames
<1>2. <<AckFrame, 10>> \in Positions
  <2>1. 10 \in 1..Len(AckFrame)
    BY <1>1
  <2>2. QED
    BY <1>1, <2>1, PlaceMade
<1>3. c \in [Nat -> Positions] /\ c[0] = <<AckFrame, 10>>
  BY <1>2
<1> HIDE DEF c
<1>4. wire = <<>> /\ rxRing = <<>> /\ Len(rxRing) = 0 /\ Len(wire) = 0
  BY EmptySeq DEF ReceiveInit
<1>5. Sending(c[0])
  <2>1. Rest(wire, AckFrame, 10) /\ Reached(c[0], AckFrame, 10) /\ 10 \in 0..Len(AckFrame)
    BY <1>1, <1>3, <1>4 DEF Rest, Reached
  <2>2. QED
    BY <1>1, <2>1 DEF Sending
<1>6. Stream(c)
  <2>1. \A i \in 1..Len(rxRing) : FALSE
    BY <1>4
  <2>2. QED
    BY <1>3, <1>4, <1>5, <2>1 DEF Stream
<1>7. InOrder(c[0])
  <2>1. LineKept(c[0]) /\ LineEnded(c[0])
    BY <1>3, LineNotAck DEF LineKept, LineEnded
  <2>2. ubx = "search" /\ ~missed
    BY Zenon DEF ReceiveInit
  <2>3. QED
    BY <2>1, <2>2 DEF InOrder, Settled, MessageKept
<1>8. QED
  BY <1>6, <1>7, ReceiveInvInit DEF ResyncInv

\* What the UART does leaves what has been parsed alone.
LEMMA SenderKeeps ==
  ASSUME NEW p, InOrder(p), SendFrame \/ RxReady \/ RxStopped PROVE InOrder(p)'
BY DEF SendFrame, RxReady, RxStopped, InOrder, Settled, InStep, Astray, LineKept, LineEnded,
   MessageKept, ubxVars

LEMMA SendFrameStreams ==
  ASSUME ReceiveInv, NEW c, Stream(c), SendFrame PROVE Stream(c)'
<1>0. PICK p : p = c[Len(rxRing)]
  OBVIOUS
<1>1. wire = <<>> /\ Len(wire) = 0 /\ wire' \in Frames /\ rxRing' = rxRing /\ gap' = gap
  BY EmptySeq DEF SendFrame
<1>2. PICK f \in Frames : \E k \in 0..Len(f) : Rest(wire, f, k) /\ (gap \/ Reached(p, f, k))
  BY <1>0 DEF Stream, Sending
<1>3. PICK k \in 0..Len(f) : Rest(wire, f, k) /\ (gap \/ Reached(p, f, k))
  BY <1>2
<1>4. k = Len(f) /\ k # 0
  BY <1>1, <1>3, FramesTyped DEF Rest
<1>5. gap \/ p[2] = Len(p[1])
  BY <1>3, <1>4 DEF Reached
<1>6. Rest(wire', wire', 0) /\ 0 \in 0..Len(wire')
  <2>1. PICK g \in Frames : g = wire'
    BY <1>1
  <2>2. Rest(g, g, 0) /\ 0 \in 0..Len(g)
    BY <2>1, FramesTyped DEF Rest
  <2>3. QED
    BY <2>1, <2>2
<1>7. Reached(p, wire', 0) \/ gap'
  BY <1>1, <1>5 DEF Reached
<1>8. Sending(p)'
  BY <1>1, <1>6, <1>7 DEF Sending
<1>9. QED
  BY <1>0, <1>1, <1>8 DEF Stream

LEMMA RxReadyStreams ==
  ASSUME ReceiveInv, NEW c, Stream(c), RxReady PROVE \E d : Stream(d)' /\ d[0] = c[0]
<1>0. /\ wire \in Seq(Byte) /\ rxRing \in Seq(Byte \X BOOLEAN) /\ Len(rxRing) \in Nat
      /\ gap \in BOOLEAN
  BY FlagsTyped, LenProperties DEF ReceiveInv, ReceiveTypeOK, Byte
<1>1. PICK n \in Nat : n = Len(rxRing)
  BY <1>0
<1>2. wire # <<>> /\ wire' = Tail(wire)
  BY DEF RxReady
<1>3. PICK f \in Frames : \E k \in 0..Len(f) : Rest(wire, f, k) /\ (gap \/ Reached(c[n], f, k))
  BY <1>1 DEF Stream, Sending
<1>4. PICK k \in 0..Len(f) : Rest(wire, f, k) /\ (gap \/ Reached(c[n], f, k))
  BY <1>3
<1>5. f \in Seq(Byte) /\ Len(f) \in Nat
  BY FramesTyped
<1>6. k + 1 \in 1..Len(f) /\ Head(wire) = f[k + 1] /\ Rest(wire', f, k + 1) /\ k + 1 \in 0..Len(f)
  BY <1>0, <1>2, <1>4, <1>5, RestMoves
<1>7. c \in [Nat -> Positions]
  BY DEF Stream
<1>8. CASE gap' = TRUE /\ rxRing' = rxRing
  <2>1. \A i \in 1..Len(rxRing) :
          rxRing[i][1] = ByteAt(c[i]) /\ (rxRing[i][2] \/ Succeeds(c[i - 1], c[i]))
    BY DEF Stream
  <2>2. Sending(c[n])'
    BY <1>6, <1>8 DEF Sending
  <2>3. Stream(c)'
    BY <1>1, <1>7, <1>8, <2>1, <2>2 DEF Stream
  <2>4. QED
    BY <2>3
<1>9. CASE rxRing' = Append(rxRing, <<Head(wire), gap>>) /\ gap' = FALSE
  <2>1. PICK q \in Positions : q[1] = f /\ q[2] = k + 1 /\ q = <<f, k + 1>> /\ ByteAt(q) = Head(wire)
    BY <1>6, PlaceMade DEF ByteAt
  <2>0. PICK d : d = [c EXCEPT ![n + 1] = q]
    OBVIOUS
  <2>2. /\ d \in [Nat -> Positions] /\ d[n + 1] = q /\ \A i \in Nat : i # n + 1 => d[i] = c[i]
    BY <1>7, <2>0
  <2>3. <<Head(wire), gap>> \in Byte \X BOOLEAN
    BY <1>0, <1>5, <1>6, ElementOfSeq
  <2> DEFINE r == Append(rxRing, <<Head(wire), gap>>)
  <2>4. /\ Len(r) = n + 1 /\ r[n + 1] = <<Head(wire), gap>>
        /\ \A i \in 1..n : r[i] = rxRing[i]
    <3>1. /\ Len(r) = n + 1
          /\ \A i \in 1..n + 1 : r[i] = IF i <= n THEN rxRing[i] ELSE <<Head(wire), gap>>
      BY <1>0, <1>1, <2>3, AppendProperties
    <3> HIDE DEF r
    <3>2. n + 1 \in 1..n + 1 /\ ~(n + 1 <= n) /\ \A i \in 1..n : i \in 1..n + 1 /\ i <= n
      OBVIOUS
    <3>3. QED
      BY <3>1, <3>2
  <2>5. rxRing' = r
    BY <1>9
  <2>6. \A i \in 1..n : rxRing[i][1] = ByteAt(c[i]) /\ (rxRing[i][2] \/ Succeeds(c[i - 1], c[i]))
    BY <1>1 DEF Stream
  <2> HIDE DEF r
  <2>7. gap \/ Succeeds(c[n], q)
    <3>1. k \in Nat
      BY <1>5
    <3>2. c[n] = <<f, k>> => c[n][1] = f /\ c[n][2] = k
      OBVIOUS
    <3>3. QED
      BY <1>4, <2>1, <3>1, <3>2 DEF Reached, Succeeds
  <2>8. ASSUME NEW i \in 1..n + 1
        PROVE  r[i][1] = ByteAt(d[i]) /\ (r[i][2] \/ Succeeds(d[i - 1], d[i]))
    <3>1. CASE i = n + 1
      <4>1. i - 1 = n /\ n \in Nat /\ n # n + 1
        BY <1>1, <3>1
      <4>2. d[i] = q /\ d[i - 1] = c[n]
        BY <2>2, <3>1, <4>1
      <4>3. r[i] = <<Head(wire), gap>>
        BY <2>4, <3>1
      <4>4. QED
        BY <2>1, <2>7, <4>2, <4>3
    <3>2. CASE i # n + 1
      <4>1. i \in 1..n /\ i \in Nat /\ i - 1 \in Nat /\ i - 1 # n + 1
        BY <1>1, <3>2
      <4>2. d[i] = c[i] /\ d[i - 1] = c[i - 1] /\ r[i] = rxRing[i]
        BY <2>2, <2>4, <3>2, <4>1
      <4>3. QED
        BY <2>6, <4>1, <4>2
    <3>3. QED
      BY <3>1, <3>2
  <2>9. Sending(d[n + 1])'
    <3>1. Reached(d[n + 1], f, k + 1)
      BY <2>1, <2>2 DEF Reached
    <3>2. QED
      BY <1>6, <3>1 DEF Sending
  <2>10. Stream(d)'
    BY <2>2, <2>4, <2>5, <2>8, <2>9 DEF Stream
  <2>11. d[0] = c[0]
    BY <1>1, <2>2
  <2>12. QED
    BY <2>10, <2>11
<1>10. QED
  BY <1>8, <1>9 DEF RxReady

LEMMA RxStoppedStreams ==
  ASSUME ReceiveInv, NEW c, Stream(c), RxStopped PROVE Stream(c)'
<1> DEFINE n == Len(rxRing)
<1>1. wire \in Seq(Byte)
  BY DEF ReceiveInv, ReceiveTypeOK, Byte
<1>2. PICK f \in Frames : \E k \in 0..Len(f) : Rest(wire, f, k)
  BY DEF Stream, Sending
<1>3. PICK k \in 0..Len(f) : Rest(wire, f, k)
  BY <1>2
<1>4. f \in Seq(Byte) /\ Len(f) \in Nat
  BY FramesTyped
<1>5. PICK m \in 0..Len(wire) : wire' = SubSeq(wire, m + 1, Len(wire))
  BY DEF RxStopped
<1>6. k + m \in 0..Len(f) /\ Rest(wire', f, k + m)
  BY <1>1, <1>3, <1>4, <1>5, RestMoves
<1>7. gap' = TRUE /\ rxRing' \in {rxRing, <<>>}
  BY DEF RxStopped
<1>8. \A p : Sending(p)'
  BY <1>6, <1>7 DEF Sending
<1>9. CASE rxRing' = rxRing
  BY <1>8, <1>9 DEF Stream
<1>10. CASE rxRing' = <<>>
  <2>1. \A i \in 1..Len(rxRing') : FALSE
    BY <1>10, EmptySeq
  <2>2. QED
    BY <1>8, <2>1 DEF Stream
<1>11. QED
  BY <1>7, <1>9, <1>10

LEMMA TakeStreams ==
  ASSUME ReceiveInv, NEW c, Stream(c), NEW b \in NextByte, TakeByte(b)
  PROVE  /\ c[0] \in Positions /\ c[1] \in Positions /\ b = ByteAt(c[1])
         /\ Advance(c[0], c[1], since') /\ since' \in Nat
         /\ \E d : Stream(d)' /\ d[0] = c[1]
<1>0. PICK n \in Nat : n = Len(rxRing)
  BY LenProperties DEF ReceiveInv, ReceiveTypeOK
<1>1. /\ rxRing # <<>> /\ b = rxRing[1][1] /\ rxRing' = Tail(rxRing)
      /\ since' = (IF rxRing[1][2] THEN 1 ELSE IF since < Cap THEN since + 1 ELSE Cap)
      /\ since' \in 1..Cap /\ wire' = wire /\ gap' = gap
  BY TakenByte DEF ReceiveInv
<1>2. rxRing \in Seq(Byte \X BOOLEAN)
  BY DEF ReceiveInv, ReceiveTypeOK, Byte
<1>3. /\ c \in [Nat -> Positions] /\ Sending(c[n])
      /\ \A i \in 1..n : rxRing[i][1] = ByteAt(c[i]) /\ (rxRing[i][2] \/ Succeeds(c[i - 1], c[i]))
  BY <1>0 DEF Stream
<1> DEFINE tl == Tail(rxRing)
<1>4. /\ n >= 1 /\ Len(tl) = n - 1 /\ \A i \in 1..Len(tl) : tl[i] = rxRing[i + 1]
  BY <1>0, <1>1, <1>2, HeadTailProperties, EmptySeq
<1> HIDE DEF tl
<1>5. 1 \in 1..n
  BY <1>4
<1>6. c[0] \in Positions /\ c[1] \in Positions
  BY <1>3
<1>7. b = ByteAt(c[1]) /\ (rxRing[1][2] \/ Succeeds(c[0], c[1]))
  BY <1>1, <1>3, <1>5
<1>8. Advance(c[0], c[1], since')
  BY <1>1, <1>7 DEF Advance
<1>9. since' \in Nat
  BY <1>1, Sizes
<1>17. PICK d : d = [i \in Nat |-> c[i + 1]]
  OBVIOUS
<1>10. d \in [Nat -> Positions] /\ \A i \in Nat : d[i] = c[i + 1]
  BY <1>3, <1>17
<1>11. ASSUME NEW i \in 1..n - 1
       PROVE  tl[i][1] = ByteAt(d[i]) /\ (tl[i][2] \/ Succeeds(d[i - 1], d[i]))
  <2>1. /\ i \in Nat /\ i - 1 \in Nat /\ (i - 1) + 1 = i /\ (i + 1) - 1 = i
        /\ i \in 1..Len(tl) /\ i + 1 \in 1..n
    BY <1>2, <1>4
  <2>2. tl[i] = rxRing[i + 1] /\ d[i] = c[i + 1] /\ d[i - 1] = c[i]
    BY <1>4, <1>10, <2>1
  <2>3. rxRing[i + 1][1] = ByteAt(c[i + 1]) /\ (rxRing[i + 1][2] \/ Succeeds(c[i], c[i + 1]))
    BY <1>3, <2>1
  <2>4. QED
    BY <2>2, <2>3
<1>12. Sending(d[n - 1])'
  <2>1. d[n - 1] = c[n]
    <3>1. n - 1 \in Nat /\ (n - 1) + 1 = n
      BY <1>4
    <3>2. QED
      BY <1>10, <3>1
  <2>2. QED
    BY <1>1, <1>3, <2>1 DEF Sending
<1>13. Stream(d)'
  <2>1. rxRing' = tl
    BY <1>1 DEF tl
  <2>2. QED
    BY <1>4, <1>10, <1>11, <1>12, <2>1 DEF Stream
<1>14. d[0] = c[1]
  BY <1>10
<1>15. QED
  BY <1>6, <1>7, <1>8, <1>9, <1>13, <1>14

LEMMA ParsedInOrder ==
  ASSUME ReceiveInv, NEW p \in Positions, NEW q \in Positions, InOrder(p),
         NEW b \in NextByte, b = ByteAt(q), NEW n \in Nat, n = since', Advance(p, q, n),
         \/ UbxSync(b) \/ UbxBody(b) \/ UbxCheck(b)
         \/ NmeaStart(b) \/ NmeaEnd(b) \/ NmeaByte(b)
  PROVE  InOrder(q)'
<1>1. CASE UbxSync(b)
  BY <1>1, BusyKeeps, SyncInOrder, MessageStep DEF InOrder
<1>2. CASE UbxBody(b)
  <2>1. TakeByte(b) /\ b \in 0..255 /\ payload' = Append(payload, b)
    BY <1>2, TakenByte DEF UbxBody, ReceiveInv, Byte
  <2>2. Len(payload') \in Nat
    BY <2>1, Sizes, AppendProperties
  <2>3. Settled(q)' \/ Astray(q)'
    BY <1>2, <2>1, <2>2, BodyInOrder
  <2>4. QED
    BY <1>2, <2>3, BusyKeeps, MessageStep DEF InOrder
<1>3. CASE UbxCheck(b)
  BY <1>3, BusyKeeps, CheckInOrder, MessageStep DEF InOrder
<1>4. CASE NmeaStart(b)
  BY <1>4, StartInOrder
<1>5. CASE NmeaEnd(b)
  BY <1>5, EndInOrder
<1>6. CASE NmeaByte(b)
  BY <1>6, ByteInOrder
<1>7. QED
  BY <1>1, <1>2, <1>3, <1>4, <1>5, <1>6

LEMMA ResyncStep == ResyncInv /\ [ReceiveNext]_receiveVars => ResyncInv'
<1> SUFFICES ASSUME ResyncInv, [ReceiveNext]_receiveVars PROVE ResyncInv'
  OBVIOUS
<1>1. ReceiveInv /\ ReceiveInv'
  BY ReceiveInvStep DEF ResyncInv
<1>2. PICK c : Stream(c) /\ InOrder(c[0])
  BY DEF ResyncInv
<1>3. CASE SendFrame
  BY <1>1, <1>2, <1>3, SendFrameStreams, SenderKeeps DEF ResyncInv
<1>4. CASE RxReady
  <2>1. PICK d : Stream(d)' /\ d[0] = c[0]
    BY <1>1, <1>2, <1>4, RxReadyStreams
  <2>2. InOrder(c[0])'
    BY <1>2, <1>4, SenderKeeps
  <2>3. InOrder(d[0])'
    BY <2>1, <2>2
  <2>4. QED
    BY <1>1, <2>1, <2>3 DEF ResyncInv
<1>5. CASE RxStopped
  BY <1>1, <1>2, <1>5, RxStoppedStreams, SenderKeeps DEF ResyncInv
<1>6. ASSUME NEW b \in NextByte,
             \/ UbxSync(b) \/ UbxBody(b) \/ UbxCheck(b)
             \/ NmeaStart(b) \/ NmeaEnd(b) \/ NmeaByte(b)
      PROVE  ResyncInv'
  <2>1. TakeByte(b)
    BY <1>6 DEF UbxSync, UbxBody, UbxCheck, NmeaStart, NmeaEnd, NmeaByte
  <2>2. /\ c[0] \in Positions /\ c[1] \in Positions /\ b = ByteAt(c[1])
        /\ Advance(c[0], c[1], since') /\ since' \in Nat
    BY <1>1, <1>2, <2>1, TakeStreams
  <2>3. PICK d : Stream(d)' /\ d[0] = c[1]
    BY <1>1, <1>2, <2>1, TakeStreams
  <2>4. InOrder(c[1])'
    BY <1>1, <1>2, <1>6, <2>2, ParsedInOrder
  <2>5. InOrder(d[0])'
    BY <2>3, <2>4
  <2>6. QED
    BY <1>1, <2>3, <2>5 DEF ResyncInv
<1>7. CASE UNCHANGED receiveVars
  <2>1. Stream(c)' /\ InOrder(c[0])'
    BY <1>2, <1>7
       DEF Stream, Sending, InOrder, Settled, InStep, Astray, LineKept, LineEnded, MessageKept,
           receiveVars, ubxVars
  <2>2. QED
    BY <1>1, <2>1 DEF ResyncInv
<1>8. QED
  BY <1>3, <1>4, <1>5, <1>6, <1>7 DEF ReceiveNext

\* For any sentences, ring and losses: a sentence that comes whole, far enough after the
\* last loss, is handled.  A byte of the stream has a place in what was sent; the parser
\* of messages is searching, or in step with an acknowledgement, or astray in a message
\* that never was, which the bytes since the loss bound; and the line holds what came of
\* the sentence whose start it saw (ResyncInv).
THEOREM LossesEnd == ReceiveSpec => []Resynchronises
<1>1. ResyncInv => Resynchronises
  BY DEF ResyncInv, InOrder, Resynchronises
<1>2. QED
  BY <1>1, ResyncInit, ResyncStep, PTL DEF ReceiveSpec

\* What is handled so long after a loss that no false message can be under way.
HandledSent ==
  since = Cap /\ since' = Cap =>
    \A b \in NextByte :
      /\ UbxCheck(b) /\ ubx = "ck_b" => payload = AckBody
      /\ NmeaEnd(b) /\ ValidSentence(line) => \E c \in Bodies : line = Sentence(c)

LEMMA SentenceTyped == ASSUME NEW c \in Bodies PROVE Sentence(c) \in Seq(Byte)
<1> DEFINE one == <<Dollar>>
<1> DEFINE end == <<Star, Hex(XorOf(c) \div 16), Hex(XorOf(c) % 16)>>
<1>1. one \in Seq(Byte)
  BY DEF Byte, Dollar
<1>2. c \in Seq(Byte) /\ Len(c) \in Nat
  BY BodyIs
<1>3. XorOf(c) \in 0..255
  BY <1>2, XorTyped
<1>4. XorOf(c) \div 16 \in 0..15 /\ XorOf(c) % 16 \in 0..15
  BY <1>3
<1>5. Hex(XorOf(c) \div 16) \in Byte /\ Hex(XorOf(c) % 16) \in Byte
  BY <1>4, HexIs DEF Byte
<1>6. end \in Seq(Byte)
  BY <1>5 DEF Byte, Star
<1>7. Sentence(c) = (one \o c) \o end
  BY DEF Sentence
<1> HIDE DEF one, end
<1>8. one \o c \in Seq(Byte)
  BY <1>1, <1>2, Joined
<1>9. QED
  BY <1>6, <1>7, <1>8, Joined

LEMMA SentenceIs ==
  ASSUME NEW c \in Bodies, NEW s \in Seq(Byte), Len(s) = Len(c) + 4,
         \A i \in 1..Len(c) + 4 : s[i] = Line(c)[i]
  PROVE  s = Sentence(c)
<1> DEFINE end == <<Cr, Lf>>
<1> DEFINE t == Sentence(c)
<1>1. /\ Line(c) \in Seq(Byte) /\ Len(Line(c)) = Len(c) + 6 /\ Len(c) \in Nat
  BY LineIs, BodyIs
<1>2. t \in Seq(Byte)
  BY SentenceTyped
<1>3. end \in Seq(Byte) /\ Len(end) = 2
  BY DEF Byte, Cr, Lf
<1>4. Line(c) = t \o end
  BY DEF Line
<1> HIDE DEF t, end
<1>5. Len(Line(c)) = Len(t) + 2 /\ \A i \in 1..Len(t) : Line(c)[i] = t[i]
  <2>1. Len(t \o end) = Len(t) + Len(end) /\ \A i \in 1..Len(t) : (t \o end)[i] = t[i]
    BY <1>2, <1>3, Joined
  <2>2. QED
    BY <1>3, <1>4, <2>1
<1>6. Len(t) \in Nat
  BY <1>2, LenProperties
<1>7. Len(t) = Len(c) + 4
  BY <1>1, <1>5, <1>6
<1>8. Len(s) = Len(t) /\ \A i \in 1..Len(s) : s[i] = t[i]
  BY <1>5, <1>7
<1>9. s = t
  BY <1>2, <1>8, SeqEqual
<1>10. QED
  BY <1>9 DEF t

LEMMA LfPlace ==
  ASSUME NEW p \in Positions, ByteAt(p) = 10
  PROVE  \E b \in Bodies : p[1] = Line(b) /\ p[2] = Len(b) + 6
<1>1. p[1] # AckFrame
  <2>1. SUFFICES ASSUME p[1] = AckFrame PROVE FALSE
    OBVIOUS
  <2>2. p[2] \in 1..10 /\ AckFrame[p[2]] = 10
    BY <2>1, PlaceIs, AckFrameIs DEF ByteAt
  <2>3. p[2] \in {1, 2, 3, 4, 5, 6, 7, 8, 9, 10}
    BY <2>2
  <2>4. QED
    BY <2>2, <2>3, AckFrameIs
<1>2. PICK b \in Bodies : p[1] = Line(b)
  BY <1>1, PlaceIs, FramesAre
<1>3. Line(b)[p[2]] = 10 /\ p[2] \in Nat /\ p[2] >= 1 /\ p[2] <= Len(b) + 6
  BY <1>2, PlaceIs, LineIs DEF ByteAt
<1>4. \/ p[2] = 1 /\ Line(b)[p[2]] = 36
      \/ p[2] >= 2 /\ p[2] <= Len(b) + 4 /\ Line(b)[p[2]] \in (32..126) \ {36}
      \/ p[2] = Len(b) + 5 /\ Line(b)[p[2]] = 13
      \/ p[2] = Len(b) + 6 /\ Line(b)[p[2]] = 10
  BY <1>3, LineBytes
<1>5. QED
  BY <1>2, <1>3, <1>4

\* The parser of messages hands out what it has been in step with.
LEMMA MessageSent ==
  ASSUME ReceiveInv, NEW p \in Positions, InOrder(p), NEW b, UbxCheck(b), ubx = "ck_b", since = Cap
  PROVE  payload = AckBody
<1>1. ubx = "ck_b"
  OBVIOUS
<1>2. ~Astray(p)
  BY AstraySoon, Sizes
<1>3. p[2] \in 1..9 /\ p = <<AckFrame, p[2]>> /\ InStep(p[2])
  BY <1>1, <1>2, SettledPlace DEF InOrder
<1>4. p[2] = 9 /\ p[1] = AckFrame
  BY <1>1, <1>3 DEF InStep
<1>5. since >= MaxPayload + 3 + p[2]
  <2>1. Cap \in Nat /\ Cap >= MaxPayload + 12 /\ MaxPayload \in Nat
    BY Sizes
  <2>2. QED
    BY <1>4, <2>1
<1>6. Len(payload) = 6 /\ \A i \in 1..6 : payload[i] = AckBody[i]
  <2>1. Len(payload) = (IF p[2] <= 8 THEN p[2] - 2 ELSE 6)
        /\ \A i \in 1..Len(payload) : payload[i] = AckBody[i]
    <3>1. ubx # "search" /\ p[1] = AckFrame /\ p[2] \in 2..9
      BY <1>1, <1>4
    <3>2. QED
      BY <1>5, <3>1, Zenon DEF InOrder, MessageKept
  <2>2. Len(payload) = 6
    BY <1>4, <2>1
  <2>3. QED
    BY <2>1, <2>2
<1>7. payload \in Seq(0..255) /\ AckBody \in Seq(0..255) /\ Len(AckBody) = 6
  <2>1. AckBody \in Seq(0..255) /\ Len(AckBody) = 6
    BY DEF AckBody
  <2>2. QED
    BY <2>1, Sizes
<1>8. QED
  BY <1>6, <1>7, SeqEqual

\* At the end of a sentence the line is that sentence, or has been handled.
LEMMA SentenceSent ==
  ASSUME ReceiveInv, NEW p \in Positions, NEW q \in Positions, InOrder(p), Succeeds(p, q),
         NEW b, b = ByteAt(q), NmeaEnd(b), ValidSentence(line), since = Cap
  PROVE  \E c \in Bodies : line = Sentence(c)
<1>1. ValidSentence(line) /\ b \in {Cr, Lf}
  BY DEF NmeaEnd
<1>2. line \in Seq(Byte) /\ Len(line) >= 8
  BY <1>1, Sizes DEF ValidSentence
<1>3. /\ LongestFrame \in Nat /\ MaxPayload \in Nat /\ since = LongestFrame + MaxPayload + 2
      /\ \A f \in Frames : Len(f) <= LongestFrame
  BY Sizes, LongestIs
<1>4. CASE b = Cr
  <2>1. PICK c \in Bodies : q[1] = Line(c) /\ q[2] = Len(c) + 5
    BY <1>4, EndPlace DEF Cr
  <2>2. Len(c) \in Nat /\ Len(Line(c)) = Len(c) + 6 /\ p[2] \in Nat
    BY BodyIs, LineIs, PlaceIs
  <2>3. p[1] = Line(c) /\ p[2] = Len(c) + 4
    BY <2>1, <2>2 DEF Succeeds
  <2>4. Len(c) + 6 <= LongestFrame
    BY <1>3, <2>1, <2>2, PlaceIs
  <2>5. since >= MaxPayload + 3 + p[2]
    BY <1>3, <2>2, <2>3, <2>4
  <2>6. Len(line) = Len(c) + 4 /\ \A i \in 1..Len(c) + 4 : line[i] = Line(c)[i]
    BY <2>2, <2>3, <2>5 DEF InOrder, LineKept
  <2>7. line = Sentence(c)
    BY <1>2, <2>6, SentenceIs
  <2>8. QED
    BY <2>7
<1>5. CASE b = Lf
  <2>1. PICK c \in Bodies : q[1] = Line(c) /\ q[2] = Len(c) + 6
    BY <1>5, LfPlace DEF Lf
  <2>2. Len(c) \in Nat /\ Len(Line(c)) = Len(c) + 6 /\ p[2] \in Nat
    BY BodyIs, LineIs, PlaceIs
  <2>3. p[1] = Line(c) /\ p[2] = Len(c) + 5
    BY <2>1, <2>2 DEF Succeeds
  <2>4. Len(c) + 6 <= LongestFrame
    BY <1>3, <2>1, <2>2, PlaceIs
  <2>5. since >= MaxPayload + 3 + p[2]
    BY <1>3, <2>2, <2>3, <2>4
  <2>6. line = <<>>
    BY <2>3, <2>5 DEF InOrder, LineEnded
  <2>7. QED
    BY <1>2, <2>6
<1>6. QED
  BY <1>1, <1>4, <1>5

LEMMA HandledStep == ResyncInv /\ [ReceiveNext]_receiveVars => [HandledSent]_receiveVars
<1> SUFFICES ASSUME ResyncInv, since = Cap, since' = Cap, NEW b \in NextByte
             PROVE  /\ UbxCheck(b) /\ ubx = "ck_b" => payload = AckBody
                    /\ NmeaEnd(b) /\ ValidSentence(line) => \E d \in Bodies : line = Sentence(d)
  BY Zenon DEF HandledSent
<1>1. PICK c : Stream(c) /\ InOrder(c[0])
  BY DEF ResyncInv
<1>2. ReceiveInv
  BY DEF ResyncInv
<1>3. ASSUME TakeByte(b)
      PROVE  c[0] \in Positions /\ c[1] \in Positions /\ b = ByteAt(c[1]) /\ Succeeds(c[0], c[1])
  <2>1. /\ c[0] \in Positions /\ c[1] \in Positions /\ b = ByteAt(c[1])
        /\ Advance(c[0], c[1], since')
    BY <1>1, <1>2, <1>3, TakeStreams
  <2>2. Cap # 1
    BY <1>2, Sizes
  <2>3. QED
    BY <2>1, <2>2 DEF Advance
<1>4. ASSUME UbxCheck(b), ubx = "ck_b" PROVE payload = AckBody
  <2>1. TakeByte(b)
    BY <1>4 DEF UbxCheck
  <2>2. QED
    BY <1>1, <1>2, <1>3, <1>4, <2>1, MessageSent
<1>5. ASSUME NmeaEnd(b), ValidSentence(line) PROVE \E d \in Bodies : line = Sentence(d)
  <2>1. TakeByte(b)
    BY <1>5 DEF NmeaEnd
  <2>2. QED
    BY <1>1, <1>2, <1>3, <1>5, <2>1, SentenceSent
<1>6. QED
  BY <1>4, <1>5

\* For any sentences, sizes and losses: what is handled so long after a loss is a sentence
\* or an acknowledgement that was sent, whole.  With LossesEnd: a loss can neither cost
\* nor forge anything beyond what it touches and what a false message can swallow.
THEOREM LateHandledWasSent == ReceiveSpec => [][HandledSent]_receiveVars
BY ResyncInit, ResyncStep, HandledStep, PTL DEF ReceiveSpec

-----------------------------------------------------------------------------
(* What the checksum of a sentence tells *)

LEMMA BitsFinite ==
  ASSUME NEW s, Len(s) \in Nat, NEW w
  PROVE  IsFiniteSet(Bits(s, w)) /\ Cardinality(Bits(s, w)) \in Nat
<1>1. IsFiniteSet(1..Len(s)) /\ Bits(s, w) \subseteq 1..Len(s)
  BY FS_Interval DEF Bits
<1>2. QED
  BY <1>1, FS_Subset, FS_CardinalityType

\* The bits of the second part are found after the first.
LEMMA BitsJoined ==
  ASSUME NEW s \in Seq(Byte), NEW t \in Seq(Byte), NEW w,
         NEW B, B = {i \in Len(s) + 1 .. Len(s) + Len(t) : i - Len(s) \in Bits(t, w)}
  PROVE  Bits(s \o t, w) = Bits(s, w) \cup B /\ Bits(s, w) \cap B = {}
<1> DEFINE u == s \o t
<1>1. /\ Len(u) = Len(s) + Len(t) /\ \A i \in 1..Len(s) : u[i] = s[i]
      /\ \A i \in 1..Len(t) : u[Len(s) + i] = t[i]
  BY Joined
<1> HIDE DEF u
<1>2. Len(s) \in Nat /\ Len(t) \in Nat
  BY LenProperties
<1>3. ASSUME NEW i \in 1..Len(u)
      PROVE  \/ i \in 1..Len(s) /\ i \notin B /\ u[i] = s[i]
             \/ i \notin 1..Len(s) /\ i - Len(s) \in 1..Len(t) /\ u[i] = t[i - Len(s)]
                  /\ i \in Len(s) + 1 .. Len(s) + Len(t)
  <2>1. CASE i <= Len(s)
    BY <1>1, <1>2, <2>1
  <2>2. CASE i > Len(s)
    <3>1. i - Len(s) \in 1..Len(t) /\ i = Len(s) + (i - Len(s))
      BY <1>1, <1>2, <2>2
    <3>2. u[i] = t[i - Len(s)]
      BY <1>1, <3>1
    <3>3. QED
      BY <1>1, <1>2, <2>2, <3>1, <3>2
  <2>3. QED
    BY <1>2, <2>1, <2>2
<1>4. ASSUME NEW i \in Bits(u, w) PROVE i \in Bits(s, w) \cup B
  <2>1. i \in 1..Len(u) /\ (u[i] \div w) % 2 = 1
    BY DEF Bits
  <2>2. QED
    BY <1>3, <2>1 DEF Bits
<1>5. ASSUME NEW i \in Bits(s, w) PROVE i \in Bits(u, w) /\ i \notin B
  <2>1. i \in 1..Len(s) /\ (s[i] \div w) % 2 = 1
    BY DEF Bits
  <2>2. i \in 1..Len(u) /\ u[i] = s[i] /\ i \notin B
    BY <1>1, <1>2, <2>1
  <2>3. QED
    BY <2>1, <2>2 DEF Bits
<1>6. ASSUME NEW i \in B PROVE i \in Bits(u, w)
  <2>1. i \in Len(s) + 1 .. Len(s) + Len(t) /\ i - Len(s) \in 1..Len(t)
          /\ (t[i - Len(s)] \div w) % 2 = 1
    BY DEF Bits
  <2>2. i \in 1..Len(u) /\ u[i] = t[i - Len(s)]
    <3>1. i \in 1..Len(u) /\ i \notin 1..Len(s)
      BY <1>1, <1>2, <2>1
    <3>2. QED
      BY <1>3, <3>1
  <2>3. QED
    BY <2>1, <2>2 DEF Bits
<1>7. QED
  BY <1>4, <1>5, <1>6 DEF u

\* Of two parts together a bit is set if it is set in one of them.
LEMMA OddJoined ==
  ASSUME NEW s \in Seq(Byte), NEW t \in Seq(Byte), NEW w
  PROVE  Odd(s \o t, w) = (Odd(s, w) + Odd(t, w)) % 2
<1>1. Len(s) \in Nat /\ Len(t) \in Nat
  BY LenProperties
<1> DEFINE A == Bits(s, w)
<1> DEFINE C == Bits(t, w)
<1> DEFINE B == {i \in Len(s) + 1 .. Len(s) + Len(t) : i - Len(s) \in C}
<1>2. Bits(s \o t, w) = A \cup B /\ A \cap B = {}
  <2> HIDE DEF B
  <2>1. B = {i \in Len(s) + 1 .. Len(s) + Len(t) : i - Len(s) \in Bits(t, w)}
    BY DEF B
  <2>2. QED
    BY <2>1, BitsJoined
<1>3. IsFiniteSet(A) /\ IsFiniteSet(C) /\ Cardinality(A) \in Nat /\ Cardinality(C) \in Nat
  BY <1>1, BitsFinite
<1>4. IsFiniteSet(B) /\ Cardinality(B) = Cardinality(C)
  <2> DEFINE f == [j \in C |-> Len(s) + j]
  <2>1. C \subseteq 1..Len(t)
    BY DEF Bits
  <2>2. \A j \in C : Len(s) + j \in B
    BY <1>1, <2>1
  <2>3. f \in [C -> B]
    BY <2>2
  <2>4. \A i, j \in C : f[i] = f[j] => i = j
    BY <1>1, <2>1
  <2>5. \A i \in B : \E j \in C : f[j] = i
    <3>1. ASSUME NEW i \in B PROVE i - Len(s) \in C /\ f[i - Len(s)] = i
      BY <1>1
    <3>2. QED
      BY <3>1
  <2>6. f \in Bijection(C, B)
    <3> HIDE DEF f, B, C
    <3> QED
      BY <2>3, <2>4, <2>5, Fun_IsBij
  <2> HIDE DEF f, B, C
  <2>7. ExistsBijection(C, B)
    BY <2>6, Fun_ExistsBij
  <2>8. QED
    BY <1>3, <2>7, FS_Bijection
<1> HIDE DEF A, B, C
<1>5. Cardinality(A \cup B) = Cardinality(A) + Cardinality(C)
  <2>1. Cardinality(A \cup B) = Cardinality(A) + Cardinality(B) - Cardinality(A \cap B)
    BY <1>3, <1>4, FS_Union
  <2>2. Cardinality(A \cap B) = 0
    BY <1>2, FS_EmptySet
  <2>3. QED
    BY <1>3, <1>4, <2>1, <2>2
<1>6. Odd(s \o t, w) = (Cardinality(A) + Cardinality(C)) % 2
  BY <1>2, <1>5 DEF Odd
<1>7. Odd(s, w) = Cardinality(A) % 2 /\ Odd(t, w) = Cardinality(C) % 2
  BY DEF Odd, A, C
<1>8. PICK a \in Nat, c \in Nat : a = Cardinality(A) /\ c = Cardinality(C)
  BY <1>3
<1>9. (a + c) % 2 = ((a % 2) + (c % 2)) % 2
  OBVIOUS
<1>10. QED
  BY <1>6, <1>7, <1>8, <1>9

Weights == {1, 2, 4, 8, 16, 32, 64, 128}

\* Two sequences have the same exclusive or just if they have the same in each bit.
LEMMA XorEqual ==
  ASSUME NEW s, NEW t, Len(s) \in Nat, Len(t) \in Nat
  PROVE  XorOf(s) = XorOf(t) <=> \A w \in Weights : Odd(s, w) = Odd(t, w)
<1>1. \A w : Odd(s, w) \in 0..1 /\ Odd(t, w) \in 0..1
  BY OddTyped
<1>2. PICK a0 \in 0..1, a1 \in 0..1, a2 \in 0..1, a3 \in 0..1 :
        a0 = Odd(s, 1) /\ a1 = Odd(s, 2) /\ a2 = Odd(s, 4) /\ a3 = Odd(s, 8)
  BY <1>1
<1>3. PICK a4 \in 0..1, a5 \in 0..1, a6 \in 0..1, a7 \in 0..1 :
        a4 = Odd(s, 16) /\ a5 = Odd(s, 32) /\ a6 = Odd(s, 64) /\ a7 = Odd(s, 128)
  BY <1>1
<1>4. PICK b0 \in 0..1, b1 \in 0..1, b2 \in 0..1, b3 \in 0..1 :
        b0 = Odd(t, 1) /\ b1 = Odd(t, 2) /\ b2 = Odd(t, 4) /\ b3 = Odd(t, 8)
  BY <1>1
<1>5. PICK b4 \in 0..1, b5 \in 0..1, b6 \in 0..1, b7 \in 0..1 :
        b4 = Odd(t, 16) /\ b5 = Odd(t, 32) /\ b6 = Odd(t, 64) /\ b7 = Odd(t, 128)
  BY <1>1
<1>6. XorOf(s) = 1 * a0 + 2 * a1 + 4 * a2 + 8 * a3 + 16 * a4 + 32 * a5 + 64 * a6 + 128 * a7
  BY <1>2, <1>3, XorIs DEF Share
<1>7. XorOf(t) = 1 * b0 + 2 * b1 + 4 * b2 + 8 * b3 + 16 * b4 + 32 * b5 + 64 * b6 + 128 * b7
  BY <1>4, <1>5, XorIs DEF Share
<1>8. XorOf(s) = XorOf(t) <=>
        a0 = b0 /\ a1 = b1 /\ a2 = b2 /\ a3 = b3 /\ a4 = b4 /\ a5 = b5 /\ a6 = b6 /\ a7 = b7
  BY ONLY <1>6, <1>7, a0 \in 0..1, a1 \in 0..1, a2 \in 0..1, a3 \in 0..1, a4 \in 0..1,
     a5 \in 0..1, a6 \in 0..1, a7 \in 0..1, b0 \in 0..1, b1 \in 0..1, b2 \in 0..1, b3 \in 0..1,
     b4 \in 0..1, b5 \in 0..1, b6 \in 0..1, b7 \in 0..1
<1>9. (\A w \in Weights : Odd(s, w) = Odd(t, w)) <=>
        a0 = b0 /\ a1 = b1 /\ a2 = b2 /\ a3 = b3 /\ a4 = b4 /\ a5 = b5 /\ a6 = b6 /\ a7 = b7
  BY <1>2, <1>3, <1>4, <1>5 DEF Weights
<1>10. QED
  BY <1>8, <1>9

\* A stretch left out of a sequence changes its exclusive or unless its bytes cancel out.
LEMMA XorCut ==
  ASSUME NEW pre \in Seq(Byte), NEW out \in Seq(Byte), NEW post \in Seq(Byte)
  PROVE  XorOf(pre \o post) = XorOf((pre \o out) \o post) <=> XorOf(out) = 0
<1>1. pre \o post \in Seq(Byte) /\ pre \o out \in Seq(Byte) /\ (pre \o out) \o post \in Seq(Byte)
  BY Joined
<1>2. /\ Len(pre \o post) \in Nat /\ Len((pre \o out) \o post) \in Nat /\ Len(out) \in Nat
      /\ Len(pre) \in Nat /\ Len(post) \in Nat /\ Len(<<>>) \in Nat
  BY <1>1, LenProperties
<1>3. ASSUME NEW w
      PROVE  Odd(pre \o post, w) = Odd((pre \o out) \o post, w) <=> Odd(out, w) = 0
  <2>1. /\ Odd(pre \o post, w) = (Odd(pre, w) + Odd(post, w)) % 2
        /\ Odd((pre \o out) \o post, w) = (((Odd(pre, w) + Odd(out, w)) % 2) + Odd(post, w)) % 2
    <3>1. Odd(pre \o post, w) = (Odd(pre, w) + Odd(post, w)) % 2
      BY OddJoined
    <3>2. Odd(pre \o out, w) = (Odd(pre, w) + Odd(out, w)) % 2
      BY OddJoined
    <3>3. Odd((pre \o out) \o post, w) = (Odd(pre \o out, w) + Odd(post, w)) % 2
      <4> DEFINE x == pre \o out
      <4>1. x \in Seq(Byte)
        BY <1>1
      <4> HIDE DEF x
      <4>2. Odd(x \o post, w) = (Odd(x, w) + Odd(post, w)) % 2
        BY <4>1, OddJoined
      <4>3. QED
        BY <4>2 DEF x
    <3>4. QED
      BY <3>1, <3>2, <3>3
  <2>2. PICK a \in 0..1, b \in 0..1, c \in 0..1 :
          a = Odd(pre, w) /\ b = Odd(out, w) /\ c = Odd(post, w)
    BY <1>2, OddTyped
  <2>3. (a + c) % 2 = (((a + b) % 2) + c) % 2 <=> b = 0
    OBVIOUS
  <2>4. QED
    BY <2>1, <2>2, <2>3
<1>4. \A w : Odd(<<>>, w) = 0
  <2>1. ASSUME NEW w PROVE Odd(<<>>, w) = 0
    <3>1. Bits(<<>>, w) = {}
      BY DEF Bits
    <3>2. Cardinality(Bits(<<>>, w)) = 0
      BY <3>1, FS_EmptySet
    <3>3. QED
      BY <3>2 DEF Odd
  <2>2. QED
    BY <2>1
<1>5. XorOf(<<>>) = 0
  BY <1>4, XorIs DEF Share
<1>6. XorOf(out) = XorOf(<<>>) <=> \A w \in Weights : Odd(out, w) = Odd(<<>>, w)
  BY <1>2, XorEqual
<1>7. XorOf(pre \o post) = XorOf((pre \o out) \o post) <=>
        \A w \in Weights : Odd(pre \o post, w) = Odd((pre \o out) \o post, w)
  BY <1>2, XorEqual
<1>8. QED
  BY <1>3, <1>4, <1>5, <1>6, <1>7

LEMMA DigitsTyped ==
  ASSUME NEW x \in 0..255 PROVE Hex(x \div 16) \in Byte /\ Hex(x % 16) \in Byte
<1>1. x \div 16 \in 0..15 /\ x % 16 \in 0..15
  OBVIOUS
<1>2. QED
  BY <1>1, HexIs DEF Byte

\* c between a $ and a checksum of the digits g and h
Framed(c, g, h) == (<<Dollar>> \o c) \o <<Star, g, h>>

IsFramed(s, c, g, h) ==
  /\ s \in Seq(Byte) /\ Len(s) = Len(c) + 4 /\ s[1] = Dollar
  /\ \A i \in 1..Len(c) : s[i + 1] = c[i]
  /\ s[Len(c) + 2] = Star /\ s[Len(c) + 3] = g /\ s[Len(c) + 4] = h

LEMMA FramedIs ==
  ASSUME NEW c \in Seq(Byte), NEW g \in Byte, NEW h \in Byte
  PROVE  IsFramed(Framed(c, g, h), c, g, h)
<1> DEFINE s == Framed(c, g, h)
<1> DEFINE one == <<Dollar>>
<1> DEFINE end == <<Star, g, h>>
<1>1. one \in Seq(Byte) /\ Len(one) = 1 /\ one[1] = Dollar
  BY DEF Byte, Dollar
<1>2. end \in Seq(Byte) /\ Len(end) = 3 /\ end[1] = Star /\ end[2] = g /\ end[3] = h
  BY DEF Byte, Star
<1>3. s = (one \o c) \o end /\ Len(c) \in Nat
  BY LenProperties DEF Framed
<1> HIDE DEF s, one, end
<1> DEFINE m == one \o c
<1>4. /\ m \in Seq(Byte) /\ Len(m) = Len(one) + Len(c)
      /\ \A i \in 1..Len(one) : m[i] = one[i]
      /\ \A i \in 1..Len(c) : m[Len(one) + i] = c[i]
  BY <1>1, Joined
<1>5. s = m \o end
  BY <1>3
<1> HIDE DEF m
<1>6. /\ s \in Seq(Byte) /\ Len(s) = Len(m) + Len(end)
      /\ \A i \in 1..Len(m) : s[i] = m[i]
      /\ \A i \in 1..Len(end) : s[Len(m) + i] = end[i]
  <2>1. /\ m \o end \in Seq(Byte) /\ Len(m \o end) = Len(m) + Len(end)
        /\ \A i \in 1..Len(m) : (m \o end)[i] = m[i]
        /\ \A i \in 1..Len(end) : (m \o end)[Len(m) + i] = end[i]
    BY <1>2, <1>4, Joined
  <2>2. QED
    BY ONLY <1>5, <2>1
<1>7. Len(m) = 1 + Len(c) /\ Len(s) = Len(c) + 4
  BY <1>1, <1>2, <1>3, <1>4, <1>6
<1>8. s[1] = Dollar
  <2>1. 1 \in 1..Len(one) /\ 1 \in 1..Len(m)
    BY <1>1, <1>3, <1>7
  <2>2. QED
    BY <1>1, <1>4, <1>6, <2>1
<1>9. ASSUME NEW i \in 1..Len(c) PROVE s[i + 1] = c[i]
  <2>1. i + 1 \in 1..Len(m) /\ i + 1 = Len(one) + i
    BY <1>1, <1>3, <1>7
  <2>2. QED
    BY <1>4, <1>6, <2>1
<1>10. s[Len(c) + 2] = Star /\ s[Len(c) + 3] = g /\ s[Len(c) + 4] = h
  <2>1. Len(c) + 2 = Len(m) + 1 /\ Len(c) + 3 = Len(m) + 2 /\ Len(c) + 4 = Len(m) + 3
    BY <1>3, <1>7
  <2>2. s[Len(m) + 1] = Star /\ s[Len(m) + 2] = g /\ s[Len(m) + 3] = h
    BY <1>2, <1>6
  <2>3. QED
    BY <2>1, <2>2
<1>11. QED
  BY <1>6, <1>7, <1>8, <1>9, <1>10 DEF s, IsFramed

\* What the checksum tells of a loss, for any sentence and any stretch lost inside of it:
\* what is left is valid (validate_nmea_checksum(), gnss_m10q.c:244) exactly when the
\* characters of the stretch cancel out.
THEOREM LossShows ==
  ASSUME NEW b \in Bodies, NEW pre \in Seq(Byte), NEW out \in Seq(Byte), NEW post \in Seq(Byte),
         b = (pre \o out) \o post, Len(pre) + Len(post) >= 4
  PROVE  ValidSentence(Framed(pre \o post, Hex(XorOf(b) \div 16), Hex(XorOf(b) % 16)))
           <=> XorOf(out) = 0
<1>1. /\ Len(pre) \in Nat /\ Len(out) \in Nat /\ Len(post) \in Nat
      /\ b \in Seq(Byte) /\ \A i \in 1..Len(b) : b[i] # Star
  BY BodyIs, LenProperties
<1>2. XorOf(b) \in 0..255
  BY <1>1, LenProperties, XorTyped
<1>4. Hex(XorOf(b) \div 16) \in Byte /\ Hex(XorOf(b) % 16) \in Byte
  BY <1>2, DigitsTyped
<1>5. HexValue(Hex(XorOf(b) \div 16), Hex(XorOf(b) % 16)) = XorOf(b)
  BY <1>2, TwoDigits
<1> DEFINE rest == pre \o post
<1> DEFINE x == pre \o out
<1>6. /\ rest \in Seq(Byte) /\ Len(rest) = Len(pre) + Len(post)
      /\ \A i \in 1..Len(pre) : rest[i] = pre[i]
      /\ \A i \in 1..Len(post) : rest[Len(pre) + i] = post[i]
  BY Joined
<1>7. /\ x \in Seq(Byte) /\ Len(x) = Len(pre) + Len(out)
      /\ \A i \in 1..Len(pre) : x[i] = pre[i]
  BY Joined
<1>8. XorOf(rest) = XorOf(b) <=> XorOf(out) = 0
  BY XorCut
<1>9. b = x \o post
  OBVIOUS
<1> HIDE DEF rest, x
<1>10. /\ Len(b) = Len(x) + Len(post)
       /\ \A i \in 1..Len(x) : b[i] = x[i]
       /\ \A i \in 1..Len(post) : b[Len(x) + i] = post[i]
  <2>1. /\ Len(x \o post) = Len(x) + Len(post)
        /\ \A i \in 1..Len(x) : (x \o post)[i] = x[i]
        /\ \A i \in 1..Len(post) : (x \o post)[Len(x) + i] = post[i]
    BY <1>7, Joined
  <2>2. QED
    BY ONLY <1>9, <2>1
<1>11. ASSUME NEW i \in 1..Len(rest) PROVE rest[i] # Star
  <2>1. CASE i \in 1..Len(pre)
    <3>1. i \in 1..Len(x) /\ i \in 1..Len(b)
      BY <1>1, <1>7, <1>10, <2>1
    <3>2. rest[i] = b[i]
      BY <1>6, <1>7, <1>10, <2>1, <3>1
    <3>3. QED
      BY <1>1, <3>1, <3>2
  <2>2. CASE i \notin 1..Len(pre)
    <3>1. PICK j \in 1..Len(post) : i = Len(pre) + j
      <4>1. i - Len(pre) \in 1..Len(post) /\ i = Len(pre) + (i - Len(pre))
        BY <1>1, <1>6, <2>2
      <4>2. QED
        BY <4>1
    <3>2. Len(x) + j \in 1..Len(b)
      BY <1>1, <1>7, <1>10
    <3>3. rest[i] = b[Len(x) + j]
      BY <1>6, <1>10, <3>1
    <3>4. QED
      BY <1>1, <3>2, <3>3
  <2>3. QED
    BY <2>1, <2>2
<1> DEFINE g == Hex(XorOf(b) \div 16)
<1> DEFINE h == Hex(XorOf(b) % 16)
<1> DEFINE s == Framed(rest, g, h)
<1>12. g \in Byte /\ h \in Byte /\ HexValue(g, h) = XorOf(b)
  BY <1>4, <1>5
<1> HIDE DEF g, h
<1>13. /\ s \in Seq(Byte) /\ Len(s) = Len(rest) + 4 /\ s[1] = Dollar
       /\ \A i \in 1..Len(rest) : s[i + 1] = rest[i]
       /\ s[Len(rest) + 2] = Star /\ s[Len(rest) + 3] = g /\ s[Len(rest) + 4] = h
  <2>1. rest \in Seq(Byte) /\ g \in Byte /\ h \in Byte
    BY <1>6, <1>12
  <2>2. IsFramed(s, rest, g, h)
    BY <2>1, FramedIs, Zenon
  <2> HIDE DEF s
  <2>3. QED
    BY <2>2, Zenon DEF IsFramed
<1> HIDE DEF s
<1>14. Len(rest) \in Nat /\ Len(rest) >= 4
  BY <1>1, <1>6
<1>15. ASSUME NEW i \in 2..Len(rest) + 1 PROVE s[i] # Star
  <2>1. PICK j \in 1..Len(rest) : i = j + 1
    <3>1. i - 1 \in 1..Len(rest) /\ i = (i - 1) + 1
      BY <1>14
    <3>2. QED
      BY <3>1
  <2>2. QED
    BY <1>11, <1>13, <2>1
<1>16. ValidSentence(s) <=> XorOf(rest) = HexValue(g, h)
  <2> DEFINE k == Len(rest)
  <2>1. /\ k \in Nat /\ k >= 4 /\ Len(s) = k + 4 /\ s[k + 2] = Star
    BY <1>13, <1>14, <1>15
  <2>2. Len(rest) = k
    OBVIOUS
  <2>3. s[k + 3] = g /\ s[k + 4] = h
    BY <1>13
  <2>4. \A i \in 2..k + 1 : s[i] # Star
    BY <1>15
  <2>5. \A i \in 1..k : rest[i] = s[i + 1]
    BY <1>13
  <2> HIDE DEF k
  <2>6. ValidSentence(s) <=> XorOf(rest) = HexValue(s[k + 3], s[k + 4])
    BY <1>13, <2>1, <2>2, <2>4, <2>5, StarredLine
  <2>7. QED
    BY <2>3, <2>6
<1>17. ValidSentence(s) <=> XorOf(out) = 0
  BY <1>8, <1>12, <1>16
<1>18. QED
  BY <1>17 DEF s, rest, g, h

-----------------------------------------------------------------------------
(* The services together *)

\* Each service moves as its own specification says, or not at all.
LEMMA ServicesMove ==
  [ServicesNext]_allVars =>
    /\ [BaroNext]_baroVars /\ [GroundNext]_groundVars /\ [ImuNext]_imuVars /\ [AggNext]_aggVars
    /\ [GnssBootNext]_gnssBootVars /\ [ReceiveNext]_receiveVars
    /\ [StorageNext]_storageVars /\ [SettingsNext]_settingsVars
BY Zenon DEF ServicesNext, allVars, sensors, gnss, kept

\* Apart from a choice of the service that runs, the composition adds nothing to the
\* eight specifications and takes nothing from what they promise (the services share
\* no variable: each has its own static ones, src/services/*.c).
THEOREM ServicesImplement ==
  ServicesSpec =>
    /\ BaroSpec /\ GroundSpec /\ ImuSpec /\ AggSpec
    /\ GnssBootSpec /\ ReceiveSpec /\ StorageSpec /\ SettingsSpec
<1>1. ServicesInit =>
        /\ BaroInit /\ GroundInit /\ ImuInit /\ AggInit
        /\ GnssBootInit /\ ReceiveInit /\ StorageInit /\ SettingsInit
  BY Zenon DEF ServicesInit
<1>2. QED
  BY <1>1, ServicesMove, PTL
     DEF ServicesSpec, BaroSpec, GroundSpec, ImuSpec, AggSpec, GnssBootSpec, ReceiveSpec,
         StorageSpec, SettingsSpec

\* Types, in the composition of the services.
THEOREM ServicesTypes == ServicesSpec => []ServicesTypeOK
<1>1. ASSUME BaroTypeOK, GroundTypeOK, ImuTypeOK, AggTypeOK, GnssBootTypeOK,
             ReceiveTypeOK, StorageTypeOK, SettingsTypeOK
      PROVE  ServicesTypeOK
  BY <1>1, Zenon DEF ServicesTypeOK
<1>2. QED
  BY ServicesImplement, BaroTypes, GroundTypes, ImuTypes, AggTypes, GnssBootTypes, ReceiveTypes,
     StorageTypes, SettingsTypes, <1>1, PTL

\* What the parsers, the boot, the listing and the sensors promise, each on its own,
\* holds of the composition.
THEOREM ServicesKeepPromises ==
  ServicesSpec =>
    [](/\ NoLostWake /\ ThirdNewest /\ SamplingGoesOn /\ FilterFresh /\ StampsTrue
       /\ OutputFollowsRunning /\ SpeedAgreed /\ SilentBootWorks /\ Resynchronises
       /\ BootFallsBack /\ ListingExact /\ DeleteExact /\ Kept)
BY ServicesImplement, NoWakeIsLost, RingKeepsThird, SamplingContinues, FilterStaysFresh,
   StampsAreTrue, OutputsFollow, LineAgrees, SilenceMeansSuccess, LossesEnd, StorageComesUp,
   WalkListsAll, DeleteKeepsSession, ConfirmedIsKept, PTL
=============================================================================
