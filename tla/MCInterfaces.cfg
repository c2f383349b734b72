SPECIFICATION InterfacesSpec
CONSTANTS
  Hour = 4
  MaxDelay = 2
  MaxSets = 3
  Threads = {"button", "smp"}
  QueueSize = 2
  MaxBegun = 1
  MaxLines = 2
  UsbOthers = {"smp"}
  RadioCallers = {"main", "smp"}
INVARIANTS InterfacesTypeOK JumpNotEarly PortOwned RadioFollows
PROPERTIES AlarmEnds LedCatchesUp PortServed
