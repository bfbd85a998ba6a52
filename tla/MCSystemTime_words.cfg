\* Words of three bits: the counter overflows its low word twice, ticks are
\* longer and shorter than a microsecond's rounding, and times wrap.
SPECIFICATION Spec
CONSTANTS
  Half = 8
  Scale = 4
  Cal = 7
  MaxTicks = 30
  Times <- AllTimes
INVARIANTS TypeOK ReadsBack
