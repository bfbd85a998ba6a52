\* No faults: three releases in a row.
SPECIFICATION Spec
CONSTANTS
  MaxRelease = 3
  Chunks <- Fitting
  SlotSize = 2
  SeqNone = 7
  Rollback = FALSE
  Sized = TRUE
  MaxFaults = 0
INVARIANTS RunningSlotUntouched
