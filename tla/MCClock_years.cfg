\* Powered on before the summer of one year, to the summer of the next.
SPECIFICATION FairSpec
CONSTANTS
  DayLength = 6
  YearLength = 2
  Hour = 1
  RaiseTime = 2
  ForwardDay = 0
  ForwardTime = 1
  BackwardDay = 1
  BackwardTime = 2
  Sunset <- Sunsets
  FirstPowerOn = 23
  MaxTime = 38
  MaxDrift = 1
  Half = 8
INVARIANTS TypeOK ClockIsRight SummerOffset FollowsTheDay OneRaiseADay
PROPERTIES ImplementsSystemTime ScheduleResumes
