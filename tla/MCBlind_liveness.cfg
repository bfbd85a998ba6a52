\* A channel of one slot, so that handlers and schedule wait for room.
SPECIFICATION FairSpec
CONSTANTS
  WebTasks = {w1, w2}
  Capacity = 1
  BlindHeight = 1
  Microsteps = 2
  UsizeMod = 32
  Ramp = 3
  StepCounts = {1}
  MaxRequests = 3
  MaxReboots = 1
PROPERTIES MotorReturns RequestsAnswered ScheduleFollowed
