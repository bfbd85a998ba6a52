\* Three power losses in saves and loads of three firmwares and one without.
SPECIFICATION Spec
CONSTANTS
  Pairs <- NetworkPairs
  NoPair = NoPair
  Length <- StringLength
  MaxLosses = 3
INVARIANTS TypeOK Persists
PROPERTIES ImplementsStore
