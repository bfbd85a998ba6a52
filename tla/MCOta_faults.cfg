\* Rollback off, the last release does not fit, downloads can be cut short.
SPECIFICATION FairSpec
CONSTANTS
  MaxRelease = 4
  Chunks <- Growing
  SlotSize = 2
  SeqNone = 6
  Rollback = FALSE
  Sized = FALSE
  MaxFaults = 3
INVARIANTS TypeOK Bootable SlotsAgree CommitIsActive DownloadsGoForward
PROPERTIES CableImageKept EventuallyUpdated EventuallyServes
