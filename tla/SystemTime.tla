----------------------------- MODULE SystemTime -----------------------------
(***************************************************************************)
(* The time registers of src/src/system_time.rs.  The RTC counts ticks     *)
(* since power on; the Unix time is the calibrated RTC time plus a "boot   *)
(* time" kept in two 32-bit store registers.  All of it is u64 arithmetic  *)
(* that wraps, scaled down by the constants.                               *)
(***************************************************************************)
EXTENDS Integers

CONSTANTS
  Half,      \* 2^32: a store register, and the low word of the RTC counter
  Scale,     \* 2^CAL_FRACT = 2^19
  Cal,       \* ClockConfig.calibration: microseconds per tick, times Scale
  MaxTicks,  \* bound: ticks of the RTC counter; 2^48 - 1 in the hardware
  Times      \* the arguments of set_time_us

U64Max == Half * Half - 1

(***************************************************************************)
(* The RTC time of the last tick, in microseconds, is a u64.               *)
(***************************************************************************)
ASSUME SystemTimeAssumption ==
  /\ Half \in Nat \ {0}
  /\ Scale \in Nat \ {0} /\ Half % Scale = 0
  /\ Cal \in 0 .. Half - 1
  /\ MaxTicks \in Nat
  /\ (MaxTicks * Cal) \div Scale <= U64Max
  /\ Times \subseteq 1 .. U64Max

VARIABLES
  ticks,  \* the RTC counter
  boot,   \* the registers store2 (low) and store3 (high)
  origin  \* history: the Unix time at which the RTC read zero

vars == <<ticks, boot, origin>>

(***************************************************************************)
(* get_rtc_time_cal_us: ticks * cal >> CAL_FRACT, the product split into   *)
(* its low and its high word.                                              *)
(***************************************************************************)
RtcTimeUs(n) ==
  LET low == ((n % Half) * Cal) % (U64Max + 1)
      high == ((n \div Half) * Cal * (Half \div Scale)) % (U64Max + 1)
  IN  (low \div Scale + high) % (U64Max + 1)

(***************************************************************************)
(* get_boot_time_us and set_boot_time_us.                                  *)
(***************************************************************************)
BootTimeUs(regs) == regs.store2 + regs.store3 * Half

StoreMutant(us) == [store2 |-> us, store3 |-> us \div Half]

Store(us) == [store2 |-> us % Half, store3 |-> us \div Half]

(***************************************************************************)
(* get_time_us, and the boot time that set_time_us stores.                 *)
(***************************************************************************)
TimeUsMutant(regs, rtc) == (BootTimeUs(regs) + rtc) % (U64Max + 1)

TimeUs(regs, rtc) ==
  LET wrapped == U64Max - BootTimeUs(regs)
  IN  IF rtc > wrapped THEN rtc - wrapped ELSE BootTimeUs(regs) + rtc

NewBootTime(t, rtc) == IF t < rtc THEN U64Max - rtc + t ELSE t - rtc

-----------------------------------------------------------------------------
PowerOnBoot == Store(0)

Init ==
  /\ ticks = 0
  /\ boot = PowerOnBoot
  /\ origin = 0

(***************************************************************************)
(* The hardware counts.  The bound keeps the clock short of u64::MAX       *)
(* microseconds, in the year 586912.                                       *)
(***************************************************************************)
ExactTimeUs(n) == origin + (n * Cal) \div Scale

Tick ==
  /\ ticks < MaxTicks
  /\ ExactTimeUs(ticks + 1) <= U64Max
  /\ ticks' = ticks + 1
  /\ UNCHANGED <<boot, origin>>

SetTimeUs(t) ==
  /\ boot' = Store(NewBootTime(t, RtcTimeUs(ticks)))
  /\ origin' = t - (ticks * Cal) \div Scale
  /\ UNCHANGED ticks

UpdateBoot ==
  /\ boot' = Store(NewBootTime(TimeUs(boot, RtcTimeUs(ticks)),
                               RtcTimeUs(ticks)))
  /\ UNCHANGED <<ticks, origin>>

PowerCycle ==
  /\ ticks' = 0
  /\ boot' = PowerOnBoot
  /\ origin' = 0

Next ==
  \/ Tick
  \/ \E t \in Times : SetTimeUs(t)
  \/ UpdateBoot
  \/ PowerCycle

Spec == Init /\ [][Next]_vars

-----------------------------------------------------------------------------
(***************************************************************************)
(* The store registers hold 32 bits each, whatever boot time is stored,    *)
(* and the counter stays within its bound.                                 *)
(***************************************************************************)
TypeOK ==
  /\ ticks \in 0 .. MaxTicks
  /\ boot \in [store2 : 0 .. Half - 1, store3 : 0 .. Half - 1]
  /\ origin \in Int

(***************************************************************************)
(* The clock is exact: get_time_us returns the time that was set last plus *)
(* the time the RTC has counted since, rounded once, also when the time    *)
(* set is earlier than the RTC's own and the boot time has to wrap, also   *)
(* once the counter no longer fits its low word, and update_boot changes   *)
(* nothing.                                                                *)
(***************************************************************************)
ReadsBack == TimeUs(boot, RtcTimeUs(ticks)) = ExactTimeUs(ticks)

=============================================================================
