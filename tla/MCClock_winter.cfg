\* The clocks go back at 32, and the year ends at 36.
SPECIFICATION Spec
CONSTANTS
  DayLength = 6
  YearLength = 2
  Hour = 1
  RaiseTime = 2
  ForwardDay = 0
  ForwardTime = 1
  BackwardDay = 1
  BackwardTime = 2
  Sunset <- Sunsets
  FirstPowerOn = 30
  MaxTime = 35
  MaxDrift = 0
  Half = 8
INVARIANTS ClocksGoBack
