---------------------------- MODULE MCInterfaces ----------------------------
(***************************************************************************)
(* Instances for TLC of the parts that face the user, the phone and the    *)
(* host, which share no state in these models: a behaviour is one of one   *)
(* of them, with its fairness, and the others stay in their initial states.*)
(* Two bounds keep the USB port small.  It is run once without lines from  *)
(* the host, and once with lines and without the threads that stand for    *)
(* the rest of the device; and no behaviour goes on after an overlap, of   *)
(* which its properties say nothing.                                       *)
(***************************************************************************)
EXTENDS TestAlarm, Status, UsbPort, Radio

VARIABLE part

allVars == <<part, alarmVars, statusVars, usbPortVars, radioVars>>

InterfacesInit ==
  /\ part \in {"alarm", "status", "usb", "lines", "radio"}
  /\ AlarmInit /\ StatusInit /\ UsbInit /\ RadioInit
  /\ enabled \/ part \in {"usb", "lines"}
  /\ adv \/ part = "radio"
  /\ due = (part = "status")   \* LedCatchesUp is about the event thread where it runs

UsbOwn == part \in {"usb", "lines"}

\* The port with the calls of the other threads, or with lines from the host.
NoLines == unread' = 0

NoOthers == ~OtherCalls /\ \A t \in UsbOthers : at'[t] = "none"

UsbPart ==
  /\ UsbOwn
  /\ \/ ~overlap /\ UsbNext /\ IF part = "usb" THEN NoLines ELSE NoOthers
     \/ overlap /\ UNCHANGED usbPortVars

InterfacesNext ==
  /\ UNCHANGED part
  /\ \/ part = "alarm" /\ AlarmNext /\ UNCHANGED <<statusVars, usbPortVars, radioVars>>
     \/ part = "status" /\ StatusNext /\ UNCHANGED <<alarmVars, usbPortVars, radioVars>>
     \/ UsbPart /\ UNCHANGED <<alarmVars, statusVars, radioVars>>
     \/ part = "radio" /\ RadioNext /\ UNCHANGED <<alarmVars, statusVars, usbPortVars>>

\* The fairness of each part, AlarmFairness, StatusFairness and UsbFairness, in
\* the behaviours that are its own.
InterfacesSpec ==
  /\ InterfacesInit /\ [][InterfacesNext]_allVars
  /\ WF_alarmVars(part = "alarm" /\ HandlerStep) /\ WF_alarmVars(part = "alarm" /\ Pulse)
  /\ WF_statusVars(part = "status" /\ EventThread)
  /\ WF_statusVars(part = "status" /\ \E t \in Threads : Publish(t))
  /\ WF_statusVars(part = "status" /\ SetLed) /\ WF_statusVars(part = "status" /\ BlinkTimer)
  /\ WF_statusVars(part = "status" /\ LedOffWork)
  /\ WF_usbPortVars(UsbOwn /\ ButtonThread)
  /\ \A t \in UsbOthers : WF_usbPortVars(UsbOwn /\ Stopping(t))
  /\ WF_usbPortVars(UsbOwn /\ Stopping(SystemQueue)) /\ SF_usbPortVars(UsbOwn /\ StopLogging)
  /\ WF_usbPortVars(UsbOwn /\ DtrPoll) /\ SF_usbPortVars(UsbOwn /\ DisconnectWork)
  /\ SF_usbPortVars(UsbOwn /\ RxLineWork)

-----------------------------------------------------------------------------
\* The types of all parts: in particular the unsigned countdown of the alarm,
\* which a command may reset under the handler's hands (mcumgr_custom.c:92), and
\* the capacity of the event queue.
InterfacesTypeOK == AlarmTypeOK /\ StatusTypeOK /\ UsbTypeOK /\ RadioTypeOK
=============================================================================
