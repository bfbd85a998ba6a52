\* A restart with the blind lowered, no jogs.
SPECIFICATION Spec
CONSTANTS
  WebTasks = {w1}
  Capacity = 2
  BlindHeight = 1
  Microsteps = 2
  UsizeMod = 32
  Ramp = 3
  StepCounts = {}
  MaxRequests = 2
  MaxReboots = 1
PROPERTIES AlreadyRaised
