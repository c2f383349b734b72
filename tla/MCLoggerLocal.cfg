SPECIFICATION Spec
CONSTANTS
  Threads = {"main", "button", "baro", "sysworkq"}
  MaxSessions = 2
INVARIANTS ActiveRecords InactiveReleases EndedForGood
PROPERTY SessionsImplemented
