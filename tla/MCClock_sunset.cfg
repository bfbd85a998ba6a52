\* A day in the summer, with sunset at 29.
SPECIFICATION Spec
CONSTANTS
  DayLength = 6
  YearLength = 2
  Hour = 1
  RaiseTime = 2
  ForwardDay = 0
  ForwardTime = 1
  BackwardDay = 1
  BackwardTime = 2
  Sunset <- Sunsets
  FirstPowerOn = 26
  MaxTime = 30
  MaxDrift = 0
  Half = 8
INVARIANTS AfterSunset
