SPECIFICATION Spec
CONSTANTS
  TakeoffTicks = 2
  FreefallTicks = 2
  AccelTicks = 2
  LandTicks = 2
  AbortTicks = 3
  LegacySamples = 0
  Width = 3
  Cap = 3
INVARIANT LandingMeasured
