SPECIFICATION Spec
CONSTANTS
  Threads = {"main", "button", "smp", "sysworkq"}
  MaxSessions = 2
INVARIANT RadioBack
