\* Both handlers, the schedule and the motor, with jogs that are shorter than
\* the ramp (1), that wrap (17 * 2 = 2 mod 32), and one restart.
SPECIFICATION Spec
CONSTANTS
  WebTasks = {w1, w2}
  Capacity = 2
  BlindHeight = 4
  Microsteps = 2
  UsizeMod = 32
  Ramp = 3
  StepCounts = {1, 17}
  MaxRequests = 3
  MaxReboots = 1
SYMMETRY HandlerSymmetry
INVARIANTS TypeOK WholePulses TravelAccounted WithinTravel LastCommandWins RampProfile
