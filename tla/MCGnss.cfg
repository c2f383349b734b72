SPECIFICATION Spec
CONSTANTS
  main = main
  smp = smp
  Callers = {main, smp}
  Hz = {1, 10}
  Retries = 1
  MaxCalls = 2
  MaxFaults = 1
  MaxAnswers = 2
INVARIANTS BufferLive AckedApplied Configured
CHECK_DEADLOCK FALSE
SYMMETRY CallerSymmetry
