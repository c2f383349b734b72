SPECIFICATION Spec
CONSTANTS
  Threads = {"main", "smp", "sysworkq"}
  MaxSessions = 2
INVARIANT RadioSilent
PROPERTIES Unlocks CallsReturn
CHECK_DEADLOCK FALSE
