---------------------------- MODULE ClockProofs ----------------------------
(***************************************************************************)
(* Proofs about Clock, for every calendar, however long the device runs    *)
(* and however often it is restarted: whenever ntp_synchronized says so    *)
(* the clock is off by no more than the RTC's drift since the last update, *)
(* the tasks use the time registers as SystemTime allows, the offset is    *)
(* right in the summer, changes an hour late and alternates in the winter, *)
(* schedule_task follows the day and raises the blind at most once on it.  *)
(***************************************************************************)
EXTENDS Clock, TLAPS

\* Quotient and remainder of a natural number determine it.
LEMMA DivMod ==
  ASSUME NEW d \in Nat \ {0}, NEW a \in Nat
  PROVE  /\ a \div d \in Nat
         /\ a % d \in 0 .. d - 1
         /\ a = d * (a \div d) + (a % d)
  BY SMT

\* A number below the divisor is its own remainder.
LEMMA Small ==
  ASSUME NEW d \in Nat \ {0}, NEW r \in 0 .. d - 1
  PROVE  r % d = r
  BY SMT

\* A calibration of one tick per microsecond changes nothing.
LEMMA One ==
  ASSUME NEW a \in Nat
  PROVE  a * 1 = a /\ a \div 1 = a
  BY SMT

\* Products of naturals are naturals.
LEMMA ProductNat ==
  ASSUME NEW a \in Nat, NEW b \in Nat
  PROVE  a * b \in Nat
  BY SMT

\* Multiplication is monotone.
LEMMA ProductMonotone ==
  ASSUME NEW a \in Nat, NEW b \in Nat, NEW c \in Nat, a <= b
  PROVE  a * c <= b * c
  BY SMT

\* What ClockAssumption gives, with the largest u64 as a natural.
LEMMA Constants ==
  /\ Half \in Nat \ {0}
  /\ Registers!U64Max \in Nat
  /\ Registers!U64Max + 1 = Half * Half
  /\ MaxTime \in Nat /\ MaxDrift \in Nat
  /\ MaxTime + MaxDrift <= Registers!U64Max
  /\ FirstPowerOn \in Nat \ {0} /\ FirstPowerOn <= MaxTime
  <1>1. /\ Half \in Nat \ {0} /\ MaxTime \in Nat /\ MaxDrift \in Nat
        /\ MaxTime + MaxDrift < Half * Half
        /\ FirstPowerOn \in Nat \ {0} /\ FirstPowerOn <= MaxTime
    BY ClockAssumption
  <1>2. Half * Half \in Nat
    BY <1>1, ProductNat
  <1> QED
    BY <1>1, <1>2 DEF Registers!U64Max

(***************************************************************************)
(* The store registers hold any u64, as for SystemTime.                    *)
(***************************************************************************)
Words == [store2 : 0 .. Half - 1, store3 : 0 .. Half - 1]

\* The two 32-bit words written by set_boot_time_us read back as the u64.
LEMMA StoreIsLossless ==
  ASSUME NEW us \in 0 .. Registers!U64Max
  PROVE  /\ Registers!BootTimeUs(Registers!Store(us)) = us
         /\ Registers!Store(us) \in Words
  <1> DEFINE l == us % Half
             h == us \div Half
  <1>1. us \in Nat /\ l \in 0 .. Half - 1 /\ h \in Nat /\ us = Half * h + l
    <2>1. us \in Nat /\ Half \in Nat \ {0}
      BY Constants
    <2> QED
      BY <2>1, DivMod
  <1>2. h <= Half - 1
    <2>1. SUFFICES ASSUME h >= Half PROVE FALSE
      BY <1>1, Constants
    <2>2. Half * Half <= h * Half
      BY <1>1, <2>1, Constants, ProductMonotone
    <2>3. h * Half = Half * h
      BY <1>1, Constants
    <2>4. Half * Half \in Nat /\ h * Half \in Nat
      BY <1>1, Constants, ProductNat
    <2> HIDE DEF h, l
    <2> QED
      BY <1>1, <2>2, <2>3, <2>4, Constants
  <1>3. l + h * Half = us
    <2> HIDE DEF h, l
    <2> QED
      BY <1>1, Constants, SMT
  <1>4. Registers!Store(us) = [store2 |-> l, store3 |-> h]
    BY DEF Registers!Store
  <1> HIDE DEF h, l
  <1>5. Registers!BootTimeUs(Registers!Store(us)) = l + h * Half
    BY <1>4 DEF Registers!BootTimeUs
  <1> QED
    BY <1>1, <1>2, <1>3, <1>4, <1>5 DEF Words

(***************************************************************************)
(* With ticks of one unit the calibration changes nothing.                 *)
(***************************************************************************)
LEMMA RtcTime ==
  ASSUME NEW n \in 0 .. MaxTime
  PROVE  Registers!RtcTimeUs(n) = n /\ (n * 1) \div 1 = n
  <1> DEFINE l == n % Half
             h == n \div Half
             U == Registers!U64Max + 1
  <1>1. n \in Nat /\ l \in 0 .. Half - 1 /\ h \in Nat /\ n = Half * h + l
    <2>1. n \in Nat /\ Half \in Nat \ {0}
      BY Constants
    <2> QED
      BY <2>1, DivMod
  <1>2. Half \in Nat /\ U \in Nat \ {0} /\ n \in 0 .. U - 1
    BY Constants
  <1>3. Registers!RtcTimeUs(n) =
          (((l * 1) % U) \div 1 + ((h * 1 * (Half \div 1)) % U)) % U
    BY DEF Registers!RtcTimeUs
  <1> HIDE DEF l, h, U
  <1>4. h * Half \in Nat /\ h * Half + l = n
    BY <1>1, <1>2, ProductNat
  <1>5. l \in Nat /\ l * 1 = l /\ h * 1 = h /\ Half \div 1 = Half
    BY <1>1, <1>2, One
  <1>6. l \in 0 .. U - 1 /\ h * Half \in 0 .. U - 1
    BY <1>2, <1>4, <1>5
  <1>7. l % U = l /\ (h * Half) % U = h * Half /\ n % U = n
    BY <1>2, <1>6, Small
  <1>8. l \div 1 = l /\ l + h * Half = n
    BY <1>4, <1>5, One
  <1>9. Registers!RtcTimeUs(n) = n
    BY <1>3, <1>5, <1>7, <1>8
  <1> QED
    BY <1>1, <1>9, One

-----------------------------------------------------------------------------
(***************************************************************************)
(* The inductive invariant.  The boot time in the registers is the time at *)
(* which an RTC as fast as this one would have started, or zero before the *)
(* first update; what runs the tasks has configured the clock.             *)
(***************************************************************************)
Origin == IF config.ntp_synchronized THEN real + drift - rtc ELSE 0

ClockConfig ==
  [configured : {TRUE}, offset : {0, Hour}, ntp_synchronized : BOOLEAN]
    \cup {PowerOnConfig}

ClockInv ==
  /\ real \in FirstPowerOn .. MaxTime
  /\ rtc \in 0 .. real - 1
  /\ drift \in -MaxDrift .. MaxDrift
  /\ boot \in Words
  /\ config \in ClockConfig
  /\ main \in {"start", "resolve", "run"}
  /\ main # "start" \/ ntp.pc # "off" => config.configured
  /\ Registers!BootTimeUs(boot) = Origin

\* Under ClockInv a synchronized clock is off by its drift.
LEMMA Reading ==
  ASSUME ClockInv
  PROVE  /\ Now \in Nat
         /\ config.ntp_synchronized => Now = real + drift
  <1>1. Registers!BootTimeUs(boot) \in Nat
    <2>1. boot.store2 \in Nat /\ boot.store3 \in Nat /\ Half \in Nat
      BY Constants DEF ClockInv, Words
    <2> QED
      BY <2>1, ProductNat DEF Registers!BootTimeUs
  <1> QED
    BY <1>1, Constants DEF ClockInv, Now, Origin, Registers!TimeUs

\* Start-up configures a cleared CLOCK_CONFIG and keeps any other.
LEMMA Configured ==
  /\ PowerOnConfig \in ClockConfig
  /\ PowerOnConfig.ntp_synchronized = FALSE
  /\ \A c \in ClockConfig :
       /\ Configure(c) \in ClockConfig
       /\ Configure(c).configured = TRUE
       /\ Configure(c).offset = c.offset
       /\ Configure(c).ntp_synchronized = c.ntp_synchronized
  <1>1. PowerOnConfig \in ClockConfig /\ PowerOnConfig.ntp_synchronized = FALSE
    BY DEF PowerOnConfig, ClockConfig
  <1>2. ASSUME NEW c \in ClockConfig, c # PowerOnConfig
        PROVE  Configure(c) = c /\ c.configured = TRUE
    BY <1>2 DEF Configure, ClockConfig
  <1>3. Configure(PowerOnConfig) =
          [configured |-> TRUE, offset |-> 0, ntp_synchronized |-> FALSE]
    <2>1. ~PowerOnConfig.configured
      BY DEF PowerOnConfig
    <2>2. Configure(PowerOnConfig) =
            [PowerOnConfig EXCEPT !.offset = 0, !.configured = TRUE]
      BY <2>1 DEF Configure
    <2> QED
      BY <2>2 DEF PowerOnConfig
  <1>4. /\ Configure(PowerOnConfig) \in ClockConfig
        /\ Configure(PowerOnConfig).configured = TRUE
        /\ Configure(PowerOnConfig).offset = PowerOnConfig.offset
        /\ Configure(PowerOnConfig).ntp_synchronized
             = PowerOnConfig.ntp_synchronized
    <2>1. Configure(PowerOnConfig) \in
            [configured : {TRUE}, offset : {0, Hour},
             ntp_synchronized : BOOLEAN]
      BY <1>3
    <2>2. PowerOnConfig.offset = 0 /\ PowerOnConfig.ntp_synchronized = FALSE
      BY DEF PowerOnConfig
    <2>3. Configure(PowerOnConfig) \in ClockConfig
      BY <2>1, Zenon DEF ClockConfig
    <2>4. /\ Configure(PowerOnConfig).configured = TRUE
          /\ Configure(PowerOnConfig).offset = 0
          /\ Configure(PowerOnConfig).ntp_synchronized = FALSE
      BY <1>3
    <2> QED
      BY <2>2, <2>3, <2>4, Zenon
  <1> QED
    BY <1>1, <1>2, <1>4

\* Whatever start-up has left, ClockConfig has its type...
LEMMA ConfigType ==
  ASSUME ClockInv
  PROVE  config \in [configured : BOOLEAN, offset : {0, Hour},
                     ntp_synchronized : BOOLEAN]
  <1>1. PowerOnConfig \in [configured : BOOLEAN, offset : {0, Hour},
                           ntp_synchronized : BOOLEAN]
    BY DEF PowerOnConfig
  <1>2. config # PowerOnConfig =>
          config \in [configured : BOOLEAN, offset : {0, Hour},
                      ntp_synchronized : BOOLEAN]
    BY DEF ClockInv, ClockConfig
  <1> QED
    BY <1>1, <1>2

\* ... and the offset is UTC or one hour.
LEMMA OffsetType ==
  ASSUME ClockInv
  PROVE  config.offset \in {0, Hour}
  BY ConfigType

(***************************************************************************)
(* What the three kinds of step that touch the registers do to them.       *)
(***************************************************************************)
LEMMA UpdateStep ==
  ASSUME ClockInv, NtpUpdate
  PROVE  /\ boot' = Registers!Store(real - rtc)
         /\ Registers!NewBootTime(real, rtc) = real - rtc
         /\ boot' \in Words
         /\ Registers!BootTimeUs(boot') = real - rtc
         /\ config' \in ClockConfig
         /\ config'.ntp_synchronized = TRUE /\ config'.configured
         /\ drift' = 0
         /\ UNCHANGED <<real, rtc, main>>
  <1>1. real \in Nat /\ rtc \in Nat /\ rtc <= real
        /\ real - rtc \in 0 .. Registers!U64Max
    BY Constants DEF ClockInv
  <1>2. NewTime = real
    BY <1>1, Reading DEF NewTime, MeasuredOffset
  <1>3. Registers!NewBootTime(real, rtc) = real - rtc
    BY <1>1 DEF Registers!NewBootTime
  <1>4. boot' = Registers!Store(real - rtc)
    BY <1>2, <1>3 DEF NtpUpdate
  <1>5. PICK offset \in {0, Hour} :
          config' = [config EXCEPT !.offset = offset,
                                   !.ntp_synchronized = TRUE]
    <2>1. config.offset \in {0, Hour}
      BY OffsetType
    <2>2. \A now : NewOffset(now, config.offset) \in {0, Hour}
      BY <2>1 DEF NewOffset
    <2>3. PICK now :
            config' = [config EXCEPT !.offset = NewOffset(now, config.offset),
                                     !.ntp_synchronized = TRUE]
      BY DEF NtpUpdate
    <2> QED
      BY <2>2, <2>3
  <1>6. config \in [configured : {TRUE}, offset : {0, Hour},
                    ntp_synchronized : BOOLEAN]
    <2>1. config.configured
      BY DEF NtpUpdate, ClockInv
    <2>2. ~PowerOnConfig.configured
      BY DEF PowerOnConfig
    <2> QED
      BY <2>1, <2>2 DEF ClockInv, ClockConfig
  <1>7. /\ config' \in ClockConfig
        /\ config'.ntp_synchronized = TRUE /\ config'.configured
    BY <1>5, <1>6 DEF ClockConfig
  <1> QED
    BY <1>1, <1>3, <1>4, <1>7, StoreIsLossless DEF NtpUpdate

\* After a power loss the boot-time registers read zero.
LEMMA PowerOn ==
  /\ Registers!PowerOnBoot \in Words
  /\ Registers!BootTimeUs(Registers!PowerOnBoot) = 0
  <1>1. 0 \in 0 .. Registers!U64Max
    BY Constants
  <1> QED
    BY <1>1, StoreIsLossless DEF Registers!PowerOnBoot

(***************************************************************************)
(* The steps that leave the registers and the configuration alone.         *)
(***************************************************************************)
QuietNext ==
  \/ Spawns \/ NtpRequest \/ NtpError \/ NtpWakes
  \/ ScheduleStart \/ ScheduleCheck
  \/ DeepSleep \/ UNCHANGED vars

LEMMA QuietStep ==
  ASSUME QuietNext
  PROVE  UNCHANGED <<real, rtc, drift, boot, config>>
  BY DEF QuietNext, Spawns, NtpRequest, NtpError, NtpWakes, ScheduleStart,
         ScheduleCheck, DeepSleep, vars

(***************************************************************************)
(* Time: the RTC counts with the real time, gains on it or loses.  The     *)
(* boot time that goes with the drift stays the same.                      *)
(***************************************************************************)
TimeStep == Tick \/ RtcGains \/ RtcLoses

LEMMA TimePasses ==
  ASSUME ClockInv, TimeStep
  PROVE  /\ real' \in FirstPowerOn .. MaxTime
         /\ rtc' \in 0 .. real' - 1
         /\ drift' \in -MaxDrift .. MaxDrift
         /\ real' + drift' - rtc' = real + drift - rtc
         /\ UNCHANGED <<boot, config, main, ntp, sched, hist>>
  <1>1. /\ real \in Nat /\ rtc \in Nat /\ drift \in Int
        /\ real \in FirstPowerOn .. MaxTime /\ rtc \in 0 .. real - 1
        /\ drift \in -MaxDrift .. MaxDrift
    BY Constants DEF ClockInv
  <1>2. CASE Tick
    BY <1>1, <1>2, Constants DEF Tick
  <1>3. CASE RtcGains
    BY <1>1, <1>3, Constants DEF RtcGains
  <1>4. CASE RtcLoses
    BY <1>1, <1>4, Constants DEF RtcLoses
  <1> QED
    BY <1>2, <1>3, <1>4 DEF TimeStep

\* ClockInv holds at power-on and every step preserves it.
LEMMA ClockInvariant == Spec => []ClockInv
<1>1. Init => ClockInv
  <2> SUFFICES ASSUME Init PROVE ClockInv
    OBVIOUS
  <2>1. /\ real = FirstPowerOn /\ rtc = 0 /\ drift = 0
        /\ boot = Registers!PowerOnBoot /\ config = PowerOnConfig
        /\ main = "start" /\ ntp.pc = "off"
    BY DEF Init, NtpOff
  <2>2. Origin = 0
    BY <2>1, Configured DEF Origin
  <2> QED
    BY <2>1, <2>2, PowerOn, Configured, Constants DEF ClockInv
<1>2. ClockInv /\ [Next]_vars => ClockInv'
  <2> SUFFICES ASSUME ClockInv, [Next]_vars PROVE ClockInv'
    OBVIOUS
  <2>1. CASE QuietNext
    <3>1. UNCHANGED <<real, rtc, drift, boot, config>>
      BY <2>1, QuietStep
    <3>2. /\ main' \in {"start", "resolve", "run"}
          /\ main' # "start" \/ ntp'.pc # "off" => config.configured
      BY <2>1 DEF QuietNext, ClockInv, Spawns, NtpRequest, NtpError, NtpWakes,
                  ScheduleStart, ScheduleCheck, DeepSleep, Restart, NtpOff,
                  vars
    <3> QED
      BY <3>1, <3>2 DEF ClockInv, Origin
  <2>2. CASE NtpUpdate
    <3>1. /\ boot' \in Words
          /\ Registers!BootTimeUs(boot') = real - rtc
          /\ config' \in ClockConfig /\ config'.ntp_synchronized = TRUE
          /\ config'.configured
          /\ drift' = 0
          /\ UNCHANGED <<real, rtc, main>>
      BY <2>2, UpdateStep
    <3>2. Origin' = real - rtc
      BY <3>1, Constants DEF Origin, ClockInv
    <3> QED
      BY <3>1, <3>2, Constants DEF ClockInv
  <2>3. CASE TimeStep
    <3>1. /\ real' \in FirstPowerOn .. MaxTime /\ rtc' \in 0 .. real' - 1
          /\ drift' \in -MaxDrift .. MaxDrift
          /\ real' + drift' - rtc' = real + drift - rtc
          /\ UNCHANGED <<boot, config, main, ntp>>
      BY <2>3, TimePasses
    <3>2. Origin' = Origin
      BY <3>1 DEF Origin
    <3> QED
      BY <3>1, <3>2 DEF ClockInv
  <2>4. CASE PowerCycle
    <3>1. /\ rtc' = 0 /\ drift' = 0 /\ boot' = Registers!PowerOnBoot
          /\ config' = PowerOnConfig /\ real' = real
          /\ main' = "start" /\ ntp'.pc = "off"
      BY <2>4 DEF PowerCycle, Restart, NtpOff
    <3>2. Origin' = 0
      BY <3>1, Configured DEF Origin
    <3>3. rtc' \in 0 .. real' - 1 /\ drift' \in -MaxDrift .. MaxDrift
      BY <3>1, Constants DEF ClockInv
    <3> QED
      BY <3>1, <3>2, <3>3, PowerOn, Configured DEF ClockInv
  <2>5. CASE Configures
    <3>1. /\ config' = Configure(config) /\ main' = "resolve"
          /\ UNCHANGED <<real, rtc, drift, boot>>
      BY <2>5 DEF Configures
    <3>2. /\ config' \in ClockConfig /\ config'.configured = TRUE
          /\ config'.ntp_synchronized = config.ntp_synchronized
      BY <3>1, Configured DEF ClockInv
    <3>3. Origin' = Origin
      BY <3>1, <3>2 DEF Origin
    <3> QED
      BY <3>1, <3>2, <3>3 DEF ClockInv
  <2> QED
    BY <2>1, <2>2, <2>3, <2>4, <2>5 DEF Next, QuietNext, TimeStep
<1> QED
  BY <1>1, <1>2, PTL DEF Spec

(***************************************************************************)
(* Whenever ntp_synchronized is set the clock shows the true time, but for *)
(* what the RTC has gained or lost since the last update.                  *)
(***************************************************************************)
THEOREM SynchronizedClockIsRight == Spec => []ClockIsRight
<1>1. ClockInv => ClockIsRight
  BY Reading DEF ClockIsRight
<1> QED
  BY <1>1, ClockInvariant, PTL

(***************************************************************************)
(* Every step of the tasks is a step of SystemTime or leaves it alone.     *)
(***************************************************************************)
THEOREM SystemTimeImplemented == Spec => ImplementsSystemTime
<1>1. Init => Registers!Init
  BY Configured DEF Init, Registers!Init
<1>2. ClockInv /\ [Next]_vars => [Registers!Next]_(Registers!vars)
  <2> SUFFICES ASSUME ClockInv, [Next]_vars
               PROVE  [Registers!Next]_(Registers!vars)
    OBVIOUS
  <2>0. /\ rtc \in 0 .. MaxTime /\ real \in 1 .. MaxTime /\ rtc < real
        /\ drift \in -MaxDrift .. MaxDrift /\ drift \in Int
    BY Constants DEF ClockInv
  <2>1. CASE QuietNext
    <3>1. UNCHANGED <<real, rtc, drift, boot, config>>
      BY <2>1, QuietStep
    <3> QED
      BY <3>1 DEF Registers!vars
  <2>2. CASE NtpUpdate
    <3>1. /\ boot' = Registers!Store(Registers!NewBootTime(real, rtc))
          /\ config'.ntp_synchronized = TRUE /\ drift' = 0
          /\ UNCHANGED <<real, rtc>>
      BY <2>2, UpdateStep
    <3>2. Registers!RtcTimeUs(rtc) = rtc /\ (rtc * 1) \div 1 = rtc
      BY <2>0, RtcTime
    <3>3. real + 0 - rtc = real - rtc
      BY <2>0
    <3>4. Registers!SetTimeUs(real)
      BY <3>1, <3>2, <3>3 DEF Registers!SetTimeUs
    <3> QED
      BY <2>0, <3>4 DEF Registers!Next
  <2>3. CASE Tick \/ RtcGains
    <3>1. /\ rtc' = rtc + 1 /\ UNCHANGED <<boot, config>>
          /\ real' + drift' - rtc' = real + drift - rtc
          /\ rtc' \in 0 .. real' - 1 /\ real' <= MaxTime
      BY <2>3, TimePasses DEF TimeStep, Tick, RtcGains
    <3>2. real + drift + 1 <= MaxTime + MaxDrift
      BY <2>0, <2>3, Constants DEF Tick, RtcGains
    <3>3. rtc + 1 \in 0 .. MaxTime /\ rtc < MaxTime
      BY <2>0, <3>1, Constants, <2>3 DEF Tick, RtcGains
    <3>4. ((rtc + 1) * 1) \div 1 = rtc + 1
      BY <3>3, RtcTime
    <3>5. Origin + (rtc + 1) <= Registers!U64Max
      BY <2>0, <3>2, <3>3, Constants DEF Origin
    <3>6. Registers!ExactTimeUs(rtc + 1) <= Registers!U64Max
      BY <3>4, <3>5 DEF Registers!ExactTimeUs, Origin
    <3>7. Registers!Tick
      BY <3>1, <3>3, <3>6 DEF Registers!Tick
    <3> QED
      BY <3>7 DEF Registers!Next
  <2>4. CASE PowerCycle
    <3>1. /\ rtc' = 0 /\ boot' = Registers!PowerOnBoot
          /\ config' = PowerOnConfig
      BY <2>4 DEF PowerCycle
    <3>2. Registers!PowerCycle
      BY <3>1, Configured DEF Registers!PowerCycle
    <3> QED
      BY <3>2 DEF Registers!Next
  <2>5. CASE RtcLoses
    <3>1. /\ UNCHANGED <<rtc, boot, config>>
          /\ real' + drift' - rtc' = real + drift - rtc
      BY <2>5, TimePasses DEF TimeStep, RtcLoses
    <3> QED
      BY <3>1 DEF Registers!vars
  <2>6. CASE Configures
    <3>1. /\ UNCHANGED <<real, rtc, drift, boot>>
          /\ config'.ntp_synchronized = config.ntp_synchronized
      BY <2>6, Configured DEF Configures, ClockInv
    <3> QED
      BY <3>1 DEF Registers!vars
  <2> QED
    BY <2>1, <2>2, <2>3, <2>4, <2>5, <2>6 DEF Next, QuietNext
<1> QED
  BY <1>1, <1>2, ClockInvariant, PTL DEF Spec, ImplementsSystemTime,
     Registers!Spec

-----------------------------------------------------------------------------
(***************************************************************************)
(* The calendar.  A time is a date and a time of day, and a date has a     *)
(* place in its year.                                                      *)
(***************************************************************************)
LEMMA CalendarConstants ==
  /\ DayLength \in Nat \ {0} /\ YearLength \in Nat \ {0}
  /\ Hour \in Nat \ {0} /\ RaiseTime \in Nat
  /\ ForwardTime \in 0 .. DayLength - 1 /\ BackwardTime \in 0 .. DayLength - 1
  /\ ForwardDay \in 0 .. YearLength - 1 /\ BackwardDay \in 0 .. YearLength - 1
  /\ ForwardDay < BackwardDay
  BY ClockAssumption

\* datetime's date and time of day together are the time.
LEMMA CalendarDay ==
  ASSUME NEW t \in Nat
  PROVE  /\ Date(t) \in Nat
         /\ TimeOfDay(t) \in 0 .. DayLength - 1
         /\ t = DayLength * Date(t) + TimeOfDay(t)
  BY CalendarConstants, DivMod DEF Date, TimeOfDay

\* Every date has a sunset.
LEMMA SunsetType ==
  ASSUME NEW d \in Nat
  PROVE  Sunset[DayOfYear(d)] \in Nat
  <1>1. DayOfYear(d) \in 0 .. YearLength - 1
    BY CalendarConstants, DivMod DEF DayOfYear
  <1>2. Sunset[DayOfYear(d)] \in 0 .. DayLength - 1
    BY <1>1, ClockAssumption
  <1> QED
    BY <1>2, CalendarConstants

\* On one date a later time is a later time of day.
LEMMA SameDay ==
  ASSUME NEW a \in Nat, NEW b \in Nat, a <= b, Date(a) = Date(b)
  PROVE  TimeOfDay(a) <= TimeOfDay(b)
  <1> DEFINE d == DayLength * Date(a)
  <1>1. /\ a = d + TimeOfDay(a) /\ b = d + TimeOfDay(b)
        /\ TimeOfDay(a) \in Int /\ TimeOfDay(b) \in Int
    BY CalendarDay, CalendarConstants
  <1>2. d \in Nat
    BY CalendarDay, CalendarConstants, ProductNat
  <1> HIDE DEF d
  <1> QED
    BY <1>1, <1>2

(***************************************************************************)
(* The local time is a natural number, and how it moves.                   *)
(***************************************************************************)
LEMMA LocalType ==
  ASSUME ClockInv
  PROVE  Local \in Nat /\ Local # Unset
  <1>1. Now \in Nat
    BY Reading
  <1>2. config.offset \in Nat
    BY CalendarConstants, OffsetType
  <1> QED
    BY <1>1, <1>2 DEF Local, Unset

\* A tick of the RTC moves the local time on by one.
LEMMA LocalTicks ==
  ASSUME ClockInv, Tick \/ RtcGains
  PROVE  Local' = Local + 1
  <1>1. rtc' = rtc + 1 /\ UNCHANGED <<boot, config>>
    BY DEF Tick, RtcGains
  <1>2. /\ rtc \in Nat /\ real \in Nat /\ drift \in Int
        /\ rtc + 1 <= MaxTime
        /\ real + drift + 1 <= MaxTime + MaxDrift
    BY Constants DEF Tick, RtcGains, ClockInv
  <1>3. /\ Registers!BootTimeUs(boot) \in Int
        /\ Registers!BootTimeUs(boot) + rtc + 1 <= Registers!U64Max
    BY <1>2, Constants DEF ClockInv, Origin
  <1>4. Now' = Now + 1
    BY <1>1, <1>2, <1>3, Constants
       DEF Now, Registers!TimeUs, Registers!BootTimeUs
  <1>5. Now \in Nat
    BY Reading
  <1>6. config.offset \in Nat
    BY CalendarConstants, OffsetType
  <1> QED
    BY <1>1, <1>4, <1>5, <1>6 DEF Local

\* What an answer does to the offset and the history.
LEMMA UpdateOffset ==
  ASSUME ClockInv, NtpUpdate
  PROVE  /\ config'.offset = NewOffset(real, config.offset)
         /\ hist' = [hist EXCEPT !.update = real,
                                 !.steady = /\ hist.steady
                                            /\ config'.offset = config.offset
                                            /\ real >= Now]
         /\ Now' = real
  <1> DEFINE now == Registers!TimeUs(boot', rtc)
             offset == NewOffset(now, config.offset)
  <1>1. /\ config' = [config EXCEPT !.offset = offset,
                                    !.ntp_synchronized = TRUE]
        /\ hist' = [hist EXCEPT !.update = real,
                                !.steady = /\ hist.steady
                                           /\ offset = config.offset
                                           /\ now >= Now]
    BY DEF NtpUpdate
  <1>2. now = real
    <2>1. Registers!BootTimeUs(boot') = real - rtc
      BY UpdateStep
    <2>2. real \in Nat /\ rtc \in Nat /\ rtc <= real
          /\ real <= Registers!U64Max
      BY Constants DEF ClockInv
    <2> QED
      BY <2>1, <2>2, Constants DEF Registers!TimeUs
  <1>3. Now' = now
    BY UpdateStep DEF Now, Registers!TimeUs, Registers!BootTimeUs
  <1>4. config'.offset = offset
    <2>1. config \in [configured : BOOLEAN, offset : {0, Hour},
                      ntp_synchronized : BOOLEAN]
      BY ConfigType
    <2> HIDE DEF offset
    <2> QED
      BY <1>1, <2>1
  <1>5. offset = NewOffset(real, config.offset)
    BY <1>2
  <1> HIDE DEF offset, now
  <1> QED
    BY <1>1, <1>2, <1>3, <1>4, <1>5

-----------------------------------------------------------------------------
(***************************************************************************)
(* Years.  The instants at which the clocks change lie in their own year,  *)
(* and later years have later ones.                                        *)
(*                                                                         *)
(* A multiple of the divisor bounds the quotient from below...             *)
(***************************************************************************)
LEMMA QuotientAtLeast ==
  ASSUME NEW d \in Nat \ {0}, NEW a \in Nat, NEW q \in Nat, q * d <= a
  PROVE  q <= a \div d
  <1> DEFINE e == a \div d
             r == a % d
  <1>1. e \in Nat /\ r \in 0 .. d - 1 /\ a = d * e + r
    BY DivMod
  <1> HIDE DEF e, r
  <1>2. ASSUME e < q
        PROVE  FALSE
    <2>1. (e + 1) * d <= q * d
      BY <1>1, <1>2, ProductMonotone
    <2>2. (e + 1) * d = d * e + d
      BY <1>1
    <2>3. d * e \in Nat /\ q * d \in Nat
      BY <1>1, ProductNat
    <2> QED
      BY <1>1, <2>1, <2>2, <2>3
  <1> QED
    BY <1>1, <1>2 DEF e

\* ... and from above.
LEMMA QuotientBelow ==
  ASSUME NEW d \in Nat \ {0}, NEW a \in Nat, NEW q \in Nat, a < q * d
  PROVE  a \div d < q
  <1> DEFINE e == a \div d
             r == a % d
  <1>1. e \in Nat /\ r \in 0 .. d - 1 /\ a = d * e + r
    BY DivMod
  <1> HIDE DEF e, r
  <1>2. ASSUME q <= e
        PROVE  FALSE
    <2>1. q * d <= e * d
      BY <1>1, <1>2, ProductMonotone
    <2>2. e * d = d * e /\ d * e \in Nat /\ q * d \in Nat
      BY <1>1, ProductNat
    <2> QED
      BY <1>1, <2>1, <2>2
  <1> QED
    BY <1>1, <1>2 DEF e

\* From an instant of a year on it is at least that year, before it at most.
LEMMA InstantInYear ==
  ASSUME NEW y \in Nat, NEW day \in 0 .. YearLength - 1,
         NEW time \in 0 .. DayLength - 1, NEW t \in Nat
  PROVE  /\ Instant(y, day, time) <= t => y <= Year(t)
         /\ t < Instant(y, day, time) => Year(t) <= y
  <1> DEFINE first == y * YearLength
             date == first + day
  <1>1. /\ DayLength \in Nat \ {0} /\ YearLength \in Nat \ {0}
        /\ day \in Nat /\ time \in Nat
        /\ day < YearLength /\ time < DayLength
    BY CalendarConstants
  <1>2. first \in Nat /\ date \in Nat /\ date * DayLength \in Nat
    BY <1>1, ProductNat
  <1>3. Instant(y, day, time) = date * DayLength + time
    BY DEF Instant
  <1>4. Date(t) \in Nat /\ Date(t) = t \div DayLength
    BY CalendarDay DEF Date
  <1>5. Year(t) = Date(t) \div YearLength /\ Year(t) \in Nat
    BY <1>1, <1>4, DivMod DEF Year
  <1>6. ASSUME Instant(y, day, time) <= t
        PROVE  y <= Year(t)
    <2> HIDE DEF date
    <2>1. date * DayLength <= t
      BY <1>1, <1>2, <1>3, <1>6
    <2>2. date <= Date(t)
      BY <1>1, <1>2, <1>4, <2>1, QuotientAtLeast
    <2>3. y * YearLength <= Date(t)
      BY <1>1, <1>2, <1>4, <2>2 DEF date
    <2> QED
      BY <1>1, <1>4, <1>5, <2>3, QuotientAtLeast
  <1>7. ASSUME t < Instant(y, day, time)
        PROVE  Year(t) <= y
    <2> HIDE DEF date
    <2>1. (date + 1) * DayLength = date * DayLength + DayLength
      BY <1>1, <1>2
    <2>2. t < (date + 1) * DayLength
      BY <1>1, <1>2, <1>3, <1>7, <2>1
    <2>3. Date(t) < date + 1
      BY <1>1, <1>2, <1>4, <2>2, QuotientBelow
    <2>4. (y + 1) * YearLength = y * YearLength + YearLength
      BY <1>1
    <2>5. Date(t) < (y + 1) * YearLength
      BY <1>1, <1>2, <1>4, <2>3, <2>4 DEF date
    <2>6. Date(t) \div YearLength < y + 1
      BY <1>1, <1>4, <2>5, QuotientBelow
    <2> QED
      BY <1>5, <2>6
  <1> QED
    BY <1>6, <1>7

\* The same day and time of a later year is later.
LEMMA InstantMonotone ==
  ASSUME NEW y \in Nat, NEW z \in Nat, y <= z,
         NEW day \in Nat, NEW time \in Nat
  PROVE  /\ Instant(y, day, time) \in Nat /\ Instant(z, day, time) \in Nat
         /\ Instant(y, day, time) <= Instant(z, day, time)
  <1> DEFINE a == y * YearLength
             b == z * YearLength
  <1>1. a \in Nat /\ b \in Nat /\ a <= b
    BY CalendarConstants, ProductNat, ProductMonotone
  <1>2. /\ Instant(y, day, time) = (a + day) * DayLength + time
        /\ Instant(z, day, time) = (b + day) * DayLength + time
    BY DEF Instant
  <1> HIDE DEF a, b
  <1>3. /\ (a + day) * DayLength \in Nat /\ (b + day) * DayLength \in Nat
        /\ (a + day) * DayLength <= (b + day) * DayLength
    BY <1>1, CalendarConstants, ProductNat, ProductMonotone
  <1> QED
    BY <1>2, <1>3

(***************************************************************************)
(* An update between the two changes of a year leaves the summer offset,   *)
(* whichever offset it finds, also if that makes it the next year already. *)
(***************************************************************************)
LEMMA SummerUpdate ==
  ASSUME NEW t \in Nat, NEW offset \in {0, Hour}, NEW y \in Nat,
         Instant(y, ForwardDay, ForwardTime) <= t,
         t < Instant(y, BackwardDay, BackwardTime)
  PROVE  NewOffset(t, offset) = Hour
  <1> DEFINE year == Year(t + offset)
             forward == Instant(year, ForwardDay, ForwardTime)
             backward == Instant(year, BackwardDay, BackwardTime)
  <1>1. /\ ForwardDay \in 0 .. YearLength - 1
        /\ BackwardDay \in 0 .. YearLength - 1
        /\ ForwardTime \in 0 .. DayLength - 1
        /\ BackwardTime \in 0 .. DayLength - 1
        /\ ForwardDay \in Nat /\ ForwardTime \in Nat
        /\ BackwardDay \in Nat /\ BackwardTime \in Nat
        /\ Hour \in Nat \ {0} /\ t + offset \in Nat
    BY CalendarConstants
  <1>2. /\ Instant(y, ForwardDay, ForwardTime) \in Nat
        /\ Instant(y, BackwardDay, BackwardTime) \in Nat
    BY <1>1, InstantMonotone
  <1>3. year \in Nat /\ y <= year
    <2>1. Date(t + offset) \in Nat
      BY <1>1, CalendarDay
    <2>2. year \in Nat
      BY <2>1, CalendarConstants, DivMod DEF Year
    <2>3. Instant(y, ForwardDay, ForwardTime) <= t + offset
      BY <1>1, <1>2
    <2> QED
      BY <1>1, <2>2, <2>3, InstantInYear
  <1>4. NewOffset(t, offset) = IF offset > 0 /\ t >= backward THEN 0
                               ELSE IF offset = 0 /\ t >= forward THEN Hour
                               ELSE offset
    BY DEF NewOffset
  <1>5. CASE offset = 0
    <2>1. t + offset = t
      BY <1>5
    <2>2. Year(t) <= y
      BY <1>1, InstantInYear
    <2>3. year = y
      BY <1>3, <2>1, <2>2
    <2>4. t >= forward
      BY <1>2, <2>3
    <2> HIDE DEF forward, backward
    <2> QED
      BY <1>4, <1>5, <2>4
  <1>6. CASE offset = Hour
    <2> HIDE DEF year
    <2>1. /\ backward \in Nat
          /\ Instant(y, BackwardDay, BackwardTime) <= backward
      BY <1>1, <1>3, InstantMonotone
    <2> HIDE DEF forward, backward
    <2>2. ~(t >= backward)
      BY <1>2, <2>1
    <2> QED
      BY <1>1, <1>4, <1>6, <2>2
  <1> QED
    BY <1>5, <1>6

-----------------------------------------------------------------------------
(***************************************************************************)
(* Types of the tasks' variables.                                          *)
(***************************************************************************)
NtpTask ==
  [pc : {"off", "request", "receive", "sleep"}, first_run : BOOLEAN,
   wake : 0 .. MaxTime + Hour]

ScheduleTask ==
  [pc : {"off", "sync", "loop"},
   sunset : [date : Nat, time : Nat] \cup {Never},
   state : {"None", "Raise", "Lower"}, read : Nat \cup {Unset}]

History ==
  [update : Nat \cup {Unset}, date : Nat \cup {Unset}, raises : Nat,
   steady : BOOLEAN]

TaskInv == ntp \in NtpTask /\ sched \in ScheduleTask /\ hist \in History

\* The tasks before and as main_fallible spawns them.
LEMMA SpawnTypes ==
  /\ NtpOff \in NtpTask /\ ScheduleOff \in ScheduleTask
  /\ \A c : SpawnNtp(c) \in NtpTask
  /\ SpawnSchedule \in ScheduleTask
  /\ \A u \in Nat \cup {Unset} : NoHistory(u) \in History
  <1>1. NtpOff \in NtpTask
    <2>1. 0 \in 0 .. MaxTime + Hour
      BY Constants, CalendarConstants
    <2> QED
      BY <2>1 DEF NtpOff, NtpTask
  <1>2. ASSUME NEW c
        PROVE  SpawnNtp(c) \in NtpTask
    <2> DEFINE first == ~c.configured
    <2>1. SpawnNtp(c) = [NtpOff EXCEPT !.pc = "request", !.first_run = first]
      BY DEF SpawnNtp
    <2>2. first \in BOOLEAN
      OBVIOUS
    <2> HIDE DEF first
    <2> QED
      BY <1>1, <2>1, <2>2 DEF NtpTask
  <1>3. ScheduleOff \in ScheduleTask /\ SpawnSchedule \in ScheduleTask
    BY DEF ScheduleOff, SpawnSchedule, ScheduleTask
  <1>4. \A u \in Nat \cup {Unset} : NoHistory(u) \in History
    BY DEF NoHistory, History
  <1> QED
    BY <1>1, <1>2, <1>3, <1>4

\* What schedule_task keeps after a check.
LEMMA CheckTypes ==
  ASSUME ClockInv, TaskInv
  PROVE  /\ CachedSunset(Local) \in [date : Nat, time : Nat] \cup {Never}
         /\ \A sunset, time : Action(sunset, time) \in {"Raise", "Lower"}
         /\ \A command : Sent(command) \in History
  <1>1. Local \in Nat /\ Date(Local) \in Nat
    BY LocalType, CalendarDay
  <1>2. CalculateSunset(Local) \in [date : Nat, time : Nat]
    BY <1>1, SunsetType DEF CalculateSunset
  <1>3. CachedSunset(Local) \in [date : Nat, time : Nat] \cup {Never}
    BY <1>2 DEF CachedSunset, TaskInv, ScheduleTask
  <1>4. \A sunset, time : Action(sunset, time) \in {"Raise", "Lower"}
    BY DEF Action
  <1>5. ASSUME NEW command
        PROVE  Sent(command) \in History
    <2> DEFINE day == IF hist.date = Date(Local) THEN hist
                      ELSE [NoHistory(hist.update) EXCEPT !.date = Date(Local)]
    <2>1. hist.update \in Nat \cup {Unset} /\ hist \in History
      BY DEF TaskInv, History
    <2>2. [NoHistory(hist.update) EXCEPT !.date = Date(Local)] \in History
      BY <1>1, <2>1, SpawnTypes DEF History
    <2>3. day \in History
      BY <2>1, <2>2
    <2>4. Sent(command) = IF command = "Raise"
                          THEN [day EXCEPT !.raises = day.raises + 1] ELSE day
      BY DEF Sent
    <2> HIDE DEF day
    <2> QED
      BY <2>3, <2>4 DEF History
  <1> QED
    BY <1>3, <1>4, <1>5

\* The tasks' variables keep their types.
LEMMA TaskInvariant == Spec => []TaskInv
<1>1. Init => TaskInv
  BY SpawnTypes DEF Init, TaskInv
<1>2. ClockInv /\ ClockInv' /\ TaskInv /\ [Next]_vars => TaskInv'
  <2> SUFFICES ASSUME ClockInv, ClockInv', TaskInv, [Next]_vars
               PROVE  TaskInv'
    OBVIOUS
  <2>0. /\ ntp \in NtpTask /\ sched \in ScheduleTask /\ hist \in History
        /\ real + Hour \in 0 .. MaxTime + Hour
        /\ real \in Nat
    BY Constants, CalendarConstants DEF TaskInv, ClockInv
  <2>1. CASE NtpRequest \/ NtpWakes
    <3>1. ntp' \in NtpTask
      BY <2>0, <2>1 DEF NtpRequest, NtpWakes, NtpTask
    <3> QED
      BY <2>0, <2>1, <3>1 DEF NtpRequest, NtpWakes, TaskInv
  <2>2. CASE NtpError
    <3>1. ntp' \in NtpTask
      BY <2>0, <2>2 DEF NtpError, NtpTask
    <3> QED
      BY <2>0, <2>2, <3>1 DEF NtpError, TaskInv
  <2>3. CASE NtpUpdate
    <3>1. ntp' \in NtpTask
      BY <2>0, <2>3, Zenon DEF NtpUpdate, NtpTask
    <3>2. hist' \in History
      <4> DEFINE steady == /\ hist.steady
                           /\ config'.offset = config.offset
                           /\ real >= Now
      <4>1. hist' = [hist EXCEPT !.update = real, !.steady = steady]
        BY <2>3, UpdateOffset
      <4>2. steady \in BOOLEAN
        BY <2>0 DEF History
      <4> HIDE DEF steady
      <4> QED
        BY <2>0, <4>1, <4>2 DEF History
    <3> QED
      BY <2>0, <2>3, <3>1, <3>2 DEF NtpUpdate, TaskInv
  <2>4. CASE ScheduleStart
    <3>1. sched' \in ScheduleTask
      BY <2>0, <2>4 DEF ScheduleStart, ScheduleTask
    <3> QED
      BY <2>0, <2>4, <3>1 DEF ScheduleStart, TaskInv
  <2>5. CASE ScheduleCheck
    <3>1. PICK sunset, action, command :
            /\ sunset = CachedSunset(Local)
            /\ action = Action(sunset, TimeOfDay(Local))
            /\ sched' = [sched EXCEPT !.sunset = sunset, !.state = action,
                                      !.read = Local]
            /\ hist' = Sent(command)
      BY <2>5 DEF ScheduleCheck
    <3>2. /\ sunset \in [date : Nat, time : Nat] \cup {Never}
          /\ action \in {"Raise", "Lower"} /\ Local \in Nat
          /\ hist' \in History
      BY <3>1, CheckTypes, LocalType
    <3>3. sched' \in ScheduleTask
      BY <2>0, <3>1, <3>2 DEF ScheduleTask
    <3> QED
      BY <2>0, <2>5, <3>2, <3>3 DEF ScheduleCheck, TaskInv
  <2>6. CASE TimeStep \/ Configures \/ UNCHANGED vars
    <3>1. UNCHANGED <<ntp, sched, hist>>
      BY <2>6, TimePasses DEF Configures, vars
    <3> QED
      BY <2>0, <3>1 DEF TaskInv
  <2>7. CASE DeepSleep
    <3>1. hist.update \in Nat \cup {Unset}
      BY <2>0 DEF History
    <3> QED
      BY <2>7, <3>1, SpawnTypes DEF DeepSleep, Restart, TaskInv
  <2>8. CASE PowerCycle
    BY <2>8, SpawnTypes DEF PowerCycle, Restart, TaskInv
  <2>9. CASE Spawns
    BY <2>0, <2>9, SpawnTypes DEF Spawns, TaskInv
  <2> QED
    BY <2>1, <2>2, <2>3, <2>4, <2>5, <2>6, <2>7, <2>8, <2>9
       DEF Next, TimeStep
<1> QED
  BY <1>1, <1>2, ClockInvariant, PTL DEF Spec

(***************************************************************************)
(* Type correctness, however long the device runs: the offset is UTC or    *)
(* one hour and the registers hold words.                                  *)
(***************************************************************************)
THEOREM TypeCorrect == Spec => []TypeOK
<1>1. ClockInv /\ TaskInv => TypeOK
  <2> SUFFICES ASSUME ClockInv, TaskInv
               PROVE  TypeOK
    OBVIOUS
  <2>1. rtc \in 0 .. MaxTime
    BY Constants DEF ClockInv
  <2>2. config \in [configured : BOOLEAN, offset : {0, Hour},
                    ntp_synchronized : BOOLEAN]
    BY ConfigType
  <2> QED
    BY <2>1, <2>2 DEF ClockInv, TaskInv, TypeOK, Words, NtpTask, ScheduleTask,
                      History
<1> QED
  BY <1>1, ClockInvariant, TaskInvariant, PTL

(***************************************************************************)
(* Summer time holds from the first update of the summer to the last, for  *)
(* every calendar and whatever offset the years before have left.          *)
(***************************************************************************)
THEOREM SummerTimeHolds == Spec => []SummerOffset
<1>0. ASSUME NEW year \in 0 .. Year(MaxTime)
      PROVE  /\ year \in Nat
             /\ Instant(year, ForwardDay, ForwardTime) \in Nat
             /\ Instant(year, BackwardDay, BackwardTime) \in Nat
             /\ Hour \in Nat
  <2>1. Year(MaxTime) \in Nat
    BY Constants, CalendarDay, CalendarConstants, DivMod DEF Year
  <2>2. /\ year \in Nat /\ ForwardDay \in Nat /\ ForwardTime \in Nat
        /\ BackwardDay \in Nat /\ BackwardTime \in Nat /\ Hour \in Nat
    BY <2>1, CalendarConstants
  <2>3. year <= year
    BY <2>2
  <2>4. /\ Instant(year, ForwardDay, ForwardTime) \in Nat
        /\ Instant(year, BackwardDay, BackwardTime) \in Nat
    BY <2>2, <2>3, InstantMonotone
  <2> QED
    BY <2>2, <2>4
<1>1. Init => SummerOffset
  <2> SUFFICES ASSUME Init
               PROVE  SummerOffset
    OBVIOUS
  <2>1. hist.update = -1
    BY DEF Init, NoHistory, Unset
  <2> QED
    BY <1>0, <2>1 DEF SummerOffset
<1>2. ClockInv /\ TaskInv /\ SummerOffset /\ [Next]_vars => SummerOffset'
  <2> SUFFICES ASSUME ClockInv, TaskInv, SummerOffset, [Next]_vars
               PROVE  SummerOffset'
    OBVIOUS
  <2>1. CASE UNCHANGED <<config.offset, hist.update>>
    BY <2>1 DEF SummerOffset
  <2>2. CASE NtpUpdate
    <3>1. /\ hist'.update = real
          /\ config'.offset = NewOffset(real, config.offset)
      BY <2>2, UpdateOffset DEF TaskInv, History
    <3>2. real \in Nat /\ config.offset \in {0, Hour}
      BY Constants, OffsetType DEF ClockInv
    <3>3. ASSUME NEW year \in 0 .. Year(MaxTime),
                 real >= Instant(year, ForwardDay, ForwardTime),
                 real < Instant(year, BackwardDay, BackwardTime) - Hour
          PROVE  NewOffset(real, config.offset) = Hour
      <4>1. /\ year \in Nat
            /\ Instant(year, ForwardDay, ForwardTime) <= real
            /\ real < Instant(year, BackwardDay, BackwardTime)
        BY <1>0, <3>2, <3>3
      <4> QED
        BY <3>2, <4>1, SummerUpdate
    <3> QED
      BY <3>1, <3>3 DEF SummerOffset
  <2>3. CASE PowerCycle
    <3>1. hist'.update = -1
      BY <2>3 DEF PowerCycle, Restart, NoHistory, Unset
    <3> QED
      BY <1>0, <3>1 DEF SummerOffset
  <2>4. CASE ScheduleCheck
    <3>1. PICK command : hist' = Sent(command) /\ UNCHANGED config
      BY <2>4 DEF ScheduleCheck
    <3>2. hist'.update = hist.update
      BY <3>1 DEF Sent, NoHistory, TaskInv, History
    <3> QED
      BY <2>1, <3>1, <3>2
  <2>5. CASE DeepSleep
    <3>1. UNCHANGED config
      BY <2>5 DEF DeepSleep
    <3>2. hist'.update = hist.update
      BY <2>5 DEF DeepSleep, Restart, NoHistory
    <3> QED
      BY <2>1, <3>1, <3>2
  <2>6. CASE \/ Spawns \/ NtpRequest \/ NtpError \/ NtpWakes
             \/ ScheduleStart \/ TimeStep \/ UNCHANGED vars
    <3>1. UNCHANGED <<config, hist>>
      BY <2>6, TimePasses DEF Spawns, NtpRequest, NtpError, NtpWakes,
                              ScheduleStart, vars
    <3> QED
      BY <2>1, <3>1
  <2>7. CASE Configures
    <3>1. UNCHANGED <<config.offset, hist>>
      BY <2>7, Configured DEF Configures, ClockInv
    <3> QED
      BY <2>1, <3>1
  <2> QED
    BY <2>2, <2>3, <2>4, <2>5, <2>6, <2>7 DEF Next, TimeStep
<1> QED
  BY <1>1, <1>2, ClockInvariant, TaskInvariant, PTL DEF Spec

-----------------------------------------------------------------------------
(***************************************************************************)
(* What schedule_task, once spawned, keeps between two checks: the sunset  *)
(* belongs to the date it is kept with, that date is the one of the time   *)
(* last read, and the state is what that time called for.                  *)
(***************************************************************************)
SunsetOfDate(sunset) == sunset.time = Sunset[DayOfYear(sunset.date)]

DayInv ==
  /\ main = "run" \/ sched = ScheduleOff
  /\ IF sched.pc = "loop" THEN config.ntp_synchronized
                          ELSE sched.read = Unset
  /\ sched.sunset # Never => SunsetOfDate(sched.sunset)
  /\ sched.read # Unset =>
       /\ sched.sunset # Never
       /\ sched.sunset.date = Date(sched.read)
       /\ sched.state = Action(sched.sunset, TimeOfDay(sched.read))

(***************************************************************************)
(* A check leaves the sunset of the date it has read, kept or calculated,  *)
(* and the state this sunset asks for; a command is sent if it is new.     *)
(***************************************************************************)
LEMMA CheckStep ==
  ASSUME ClockInv, TaskInv, DayInv, ScheduleCheck
  PROVE  /\ sched.pc = "loop" /\ sched'.pc = "loop"
         /\ sched'.read = Local
         /\ sched'.sunset # Never
         /\ sched'.sunset.date = Date(Local)
         /\ SunsetOfDate(sched'.sunset)
         /\ sched.sunset.date = Date(Local) => sched'.sunset = sched.sunset
         /\ sched'.state = Action(sched'.sunset, TimeOfDay(Local))
         /\ hist' = Sent(IF sched.state # sched'.state THEN sched'.state
                         ELSE "None")
         /\ UNCHANGED config /\ Local' = Local
  <1> DEFINE sunset == CachedSunset(Local)
             action == Action(sunset, TimeOfDay(Local))
  <1>1. /\ sched.pc = "loop"
        /\ sched' = [sched EXCEPT !.sunset = sunset, !.state = action,
                                  !.read = Local]
        /\ hist' = Sent(IF sched.state # action THEN action ELSE "None")
        /\ UNCHANGED <<real, rtc, boot, config>>
    BY DEF ScheduleCheck
  <1>2. Local \in Nat /\ Date(Local) \in Nat
    BY LocalType, CalendarDay
  <1>3. /\ sunset.date = Date(Local) /\ SunsetOfDate(sunset)
        /\ sched.sunset.date = Date(Local) => sunset = sched.sunset
    <2>1. CASE sched.sunset.date # Date(Local)
      BY <2>1 DEF CachedSunset, CalculateSunset, SunsetOfDate
    <2>2. CASE sched.sunset.date = Date(Local)
      <3>1. sched.sunset # Never
        BY <1>2, <2>2 DEF Never, Unset
      <3> QED
        BY <2>2, <3>1 DEF CachedSunset, DayInv
    <2> QED
      BY <2>1, <2>2
  <1>4. sunset # Never
    BY <1>2, <1>3 DEF Never, Unset
  <1> HIDE DEF sunset
  <1>5. /\ sched'.pc = "loop" /\ sched'.read = Local
        /\ sched'.sunset = sunset /\ sched'.state = action
    <2> HIDE DEF action
    <2> QED
      BY <1>1 DEF TaskInv, ScheduleTask
  <1>6. Local' = Local
    BY <1>1 DEF Local, Now, Registers!TimeUs, Registers!BootTimeUs
  <1> QED
    BY <1>1, <1>3, <1>4, <1>5, <1>6

\* schedule_task keeps the day's sunset and state.
LEMMA DayInvariant == Spec => []DayInv
<1>1. Init => DayInv
  BY DEF Init, ScheduleOff, DayInv
<1>2. ClockInv /\ TaskInv /\ DayInv /\ [Next]_vars => DayInv'
  <2> SUFFICES ASSUME ClockInv, TaskInv, DayInv, [Next]_vars
               PROVE  DayInv'
    OBVIOUS
  <2>0. sched.pc # "off" => main = "run"
    BY DEF DayInv, ScheduleOff
  <2>1. CASE DeepSleep \/ PowerCycle
    BY <2>1 DEF DeepSleep, PowerCycle, Restart, ScheduleOff, DayInv
  <2>2. CASE ScheduleCheck
    <3>1. config.ntp_synchronized /\ UNCHANGED config
      BY <2>2, CheckStep DEF DayInv
    <3>2. main' = "run"
      BY <2>0, <2>2 DEF ScheduleCheck
    <3> QED
      BY <2>2, <3>1, <3>2, CheckStep DEF DayInv, SunsetOfDate
  <2>3. CASE ScheduleStart
    <3>1. /\ sched'.pc = "loop" /\ config.ntp_synchronized
          /\ UNCHANGED <<config, sched.sunset, sched.read, sched.state>>
      BY <2>3 DEF ScheduleStart, TaskInv, ScheduleTask
    <3>2. main' = "run"
      BY <2>0, <2>3 DEF ScheduleStart
    <3> QED
      BY <3>1, <3>2 DEF DayInv, SunsetOfDate
  <2>4. CASE NtpUpdate
    <3>1. config'.ntp_synchronized /\ UNCHANGED <<main, sched>>
      BY <2>4, UpdateStep DEF NtpUpdate
    <3> QED
      BY <3>1 DEF DayInv, SunsetOfDate
  <2>5. CASE NtpRequest \/ NtpError \/ NtpWakes \/ TimeStep \/ UNCHANGED vars
    <3>1. UNCHANGED <<config, main, sched>>
      BY <2>5, TimePasses DEF NtpRequest, NtpError, NtpWakes, vars
    <3> QED
      BY <3>1 DEF DayInv, SunsetOfDate
  <2>6. CASE Configures
    <3>1. sched = ScheduleOff /\ UNCHANGED sched
      BY <2>6 DEF Configures, DayInv
    <3> QED
      BY <3>1 DEF DayInv, ScheduleOff
  <2>7. CASE Spawns
    <3>1. main' = "run" /\ sched' = SpawnSchedule
      BY <2>7 DEF Spawns
    <3> QED
      BY <3>1 DEF DayInv, SpawnSchedule, ScheduleOff
  <2> QED
    BY <2>1, <2>2, <2>3, <2>4, <2>5, <2>6, <2>7 DEF Next, TimeStep
<1> QED
  BY <1>1, <1>2, ClockInvariant, TaskInvariant, PTL DEF Spec

(***************************************************************************)
(* schedule_task follows the day, for every calendar and every sunset: the *)
(* kept sunset never outlives its date and the state never its reading.    *)
(***************************************************************************)
THEOREM ScheduleFollowsTheDay == Spec => []FollowsTheDay
<1>1. ClockInv /\ TaskInv /\ DayInv => FollowsTheDay
  <2> SUFFICES ASSUME ClockInv, TaskInv, DayInv,
                      sched.pc = "loop", sched.read = Local
               PROVE  sched.state = "Raise" <=>
                        /\ RaiseTime <= TimeOfDay(Local)
                        /\ TimeOfDay(Local) < Sunset[DayOfYear(Date(Local))]
    BY DEF FollowsTheDay
  <2>1. Local \in Nat /\ Local # Unset
    BY LocalType
  <2>2. /\ sched.sunset.time = Sunset[DayOfYear(Date(Local))]
        /\ sched.state = Action(sched.sunset, TimeOfDay(Local))
    BY <2>1 DEF DayInv, SunsetOfDate
  <2>3. /\ TimeOfDay(Local) \in Int /\ RaiseTime \in Int
        /\ Sunset[DayOfYear(Date(Local))] \in Int
    BY <2>1, CalendarDay, SunsetType, CalendarConstants
  <2> QED
    BY <2>2, <2>3 DEF Action
<1> QED
  BY <1>1, ClockInvariant, TaskInvariant, DayInvariant, PTL

(***************************************************************************)
(* One raise a day.  On a day without a change of the offset and without   *)
(* an update that sets the clock back, local time does not go back behind  *)
(* the last reading, so a blind that has been raised is either still up or *)
(* the sunset has passed.                                                  *)
(***************************************************************************)
RaisedToday ==
  /\ hist.raises = 1
  /\ sched.read # Unset
  /\ \/ sched.state = "Raise"
     \/ sched.sunset.time <= TimeOfDay(sched.read)

RaiseInv ==
  /\ hist.date # Unset => sched.read # Unset /\ hist.date = Date(sched.read)
  /\ hist.steady =>
       /\ sched.read # Unset => sched.read <= Local
       /\ hist.raises = 0 \/ RaisedToday

\* What a check adds to the history.
LEMMA SentRecord ==
  ASSUME ClockInv, TaskInv, NEW command
  PROVE  /\ Sent(command).date = Date(Local)
         /\ hist.date # Date(Local) =>
              Sent(command).raises = IF command = "Raise" THEN 1 ELSE 0
         /\ hist.date = Date(Local) =>
              /\ Sent(command).steady = hist.steady
              /\ Sent(command).raises = IF command = "Raise"
                                        THEN hist.raises + 1 ELSE hist.raises
  <1>1. CASE hist.date = Date(Local)
    <2>1. Sent(command) = IF command = "Raise"
                          THEN [hist EXCEPT !.raises = hist.raises + 1]
                          ELSE hist
      BY <1>1 DEF Sent
    <2>2. /\ Sent(command).date = hist.date
          /\ Sent(command).raises = IF command = "Raise"
                                    THEN hist.raises + 1 ELSE hist.raises
      BY <2>1 DEF TaskInv, History
    <2>3. Sent(command).steady = hist.steady
      <3>1. [hist EXCEPT !.raises = hist.raises + 1].steady = hist.steady
        BY Zenon DEF TaskInv, History
      <3> QED
        BY <2>1, <3>1, Zenon
    <2> QED
      BY <1>1, <2>2, <2>3
  <1>2. CASE hist.date # Date(Local)
    <2> DEFINE day == [NoHistory(hist.update) EXCEPT !.date = Date(Local)]
    <2>1. day.date = Date(Local) /\ day.raises = 0 /\ day \in History
      BY LocalType, CalendarDay, SpawnTypes DEF NoHistory, TaskInv, History
    <2>2. Sent(command) = IF command = "Raise"
                          THEN [day EXCEPT !.raises = day.raises + 1] ELSE day
      BY <1>2 DEF Sent
    <2> HIDE DEF day
    <2>3. /\ Sent(command).date = Date(Local)
          /\ Sent(command).raises = IF command = "Raise" THEN 1 ELSE 0
      BY <2>1, <2>2 DEF History
    <2> QED
      BY <1>2, <2>3, Zenon
  <1> QED
    BY <1>1, <1>2, Zenon

(***************************************************************************)
(* A check that does not start a new day raises the blind at most if it    *)
(* has not been raised on this day.                                        *)
(***************************************************************************)
LEMMA CheckRaisesOnce ==
  ASSUME ClockInv, TaskInv, DayInv, RaiseInv, ScheduleCheck,
         hist.date = Date(Local), hist.steady
  PROVE  hist'.raises = 0 \/ RaisedToday'
  <1> DEFINE now == TimeOfDay(Local)
             sunset == sched.sunset.time
             command == IF sched.state # sched'.state THEN sched'.state
                        ELSE "None"
  <1>1. Local \in Nat /\ Date(Local) \in Nat /\ Date(Local) # Unset
    BY LocalType, CalendarDay DEF Unset
  <1>2. /\ sched.read \in Nat /\ Date(sched.read) = Date(Local)
        /\ sched.read <= Local
        /\ sched.read # Unset /\ sched.sunset # Never
    BY <1>1 DEF RaiseInv, DayInv, TaskInv, ScheduleTask
  <1>3. TimeOfDay(sched.read) <= now
    BY <1>1, <1>2, SameDay
  <1>4. /\ sched'.sunset = sched.sunset /\ sched'.read = Local
        /\ sched'.state = Action(sched.sunset, now)
        /\ sched.state = Action(sched.sunset, TimeOfDay(sched.read))
        /\ hist' = Sent(command)
    BY <1>2, CheckStep DEF DayInv
  <1>5. /\ now \in Nat /\ TimeOfDay(sched.read) \in Nat
        /\ sunset \in Nat /\ RaiseTime \in Nat
    BY <1>1, <1>2, CalendarDay, CalendarConstants DEF TaskInv, ScheduleTask
  <1>6. hist'.raises = IF command = "Raise" THEN hist.raises + 1
                       ELSE hist.raises
    BY <1>4, SentRecord
  <1>7. hist.raises = 0 \/ RaisedToday
    BY DEF RaiseInv
  <1> HIDE DEF now, sunset
  <1>8. /\ sched'.state = "Raise" <=> RaiseTime <= now /\ now < sunset
        /\ sched.state = "Raise" <=> /\ RaiseTime <= TimeOfDay(sched.read)
                                     /\ TimeOfDay(sched.read) < sunset
    BY <1>4, <1>5 DEF Action, sunset
  <1>9. RaisedToday' <=> /\ hist'.raises = 1
                         /\ sched'.state = "Raise" \/ sunset <= now
    BY <1>1, <1>2, <1>4 DEF RaisedToday, now, sunset, Unset
  <1>10. CASE hist.raises = 0
    BY <1>6, <1>9, <1>10
  <1>11. CASE RaisedToday
    <2>1. /\ hist.raises = 1
          /\ sched.state = "Raise" \/ sunset <= TimeOfDay(sched.read)
      BY <1>11 DEF RaisedToday, sunset
    <2>2. command # "Raise" /\ (sched'.state = "Raise" \/ sunset <= now)
      BY <1>3, <1>5, <1>8, <2>1
    <2> QED
      BY <1>6, <1>9, <2>1, <2>2
  <1> QED
    BY <1>7, <1>10, <1>11

\* The history agrees with what schedule_task has read and done.
LEMMA RaiseInvariant == Spec => []RaiseInv
<1>1. Init => RaiseInv
  BY DEF Init, ScheduleOff, NoHistory, RaiseInv
<1>2. ClockInv /\ ClockInv' /\ TaskInv /\ DayInv /\ RaiseInv /\ [Next]_vars
        => RaiseInv'
  <2> SUFFICES ASSUME ClockInv, ClockInv', TaskInv, DayInv, RaiseInv,
                      [Next]_vars
               PROVE  RaiseInv'
    OBVIOUS
  <2>0. /\ Local \in Nat /\ Local # Unset
        /\ sched.read \in Nat \cup {Unset}
    BY LocalType DEF TaskInv, ScheduleTask
  <2>1. CASE DeepSleep \/ PowerCycle
    <3>1. /\ sched'.read = Unset
          /\ hist'.date = Unset /\ hist'.raises = 0
      BY <2>1 DEF DeepSleep, PowerCycle, Restart, ScheduleOff, NoHistory
    <3> QED
      BY <3>1 DEF RaiseInv
  <2>2. CASE ScheduleCheck
    <3>1. /\ hist'.date = Date(Local) /\ sched'.read = Local /\ Local' = Local
      BY <2>2, CheckStep, SentRecord
    <3>2. hist'.date # Unset =>
            sched'.read # Unset /\ hist'.date = Date(sched'.read)
      BY <2>0, <3>1
    <3>3. sched'.read # Unset => sched'.read <= Local'
      BY <2>0, <3>1
    <3>4. hist'.steady => hist'.raises = 0 \/ RaisedToday'
      <4>1. CASE hist.date = Date(Local)
        <5>1. hist'.steady = hist.steady
          BY <2>2, <4>1, CheckStep, SentRecord
        <5> QED
          BY <2>2, <4>1, <5>1, CheckRaisesOnce
      <4>2. CASE hist.date # Date(Local)
        <5> DEFINE command == IF sched.state # sched'.state THEN sched'.state
                              ELSE "None"
        <5>1. hist'.raises = IF command = "Raise" THEN 1 ELSE 0
          BY <2>2, <4>2, CheckStep, SentRecord
        <5>2. command = "Raise" => sched'.state = "Raise"
          OBVIOUS
        <5> QED
          BY <2>0, <3>1, <5>1, <5>2 DEF RaisedToday
      <4> QED
        BY <4>1, <4>2
    <3> QED
      BY <3>2, <3>3, <3>4, Zenon DEF RaiseInv
  <2>3. CASE ScheduleStart
    <3>1. /\ UNCHANGED <<sched.read, sched.sunset, sched.state, hist>>
          /\ UNCHANGED <<rtc, boot, config>>
      BY <2>3 DEF ScheduleStart, TaskInv, ScheduleTask
    <3>2. Local' = Local
      BY <3>1 DEF Local, Now, Registers!TimeUs, Registers!BootTimeUs
    <3> QED
      BY <3>1, <3>2 DEF RaiseInv, RaisedToday
  <2>4. CASE NtpUpdate
    <3>1. UNCHANGED <<sched, hist.date, hist.raises>>
      BY <2>4, UpdateOffset DEF NtpUpdate, TaskInv, History
    <3>2. hist'.steady => /\ hist.steady
                          /\ config'.offset = config.offset
                          /\ real >= Now
      BY <2>4, UpdateOffset, Zenon DEF TaskInv, History
    <3>3. ASSUME config'.offset = config.offset, real >= Now
          PROVE  Local' \in Nat /\ Local' >= Local
      <4>1. Now' = real /\ Now \in Nat /\ config.offset \in Nat /\ real \in Nat
        BY <2>4, Reading, UpdateOffset, OffsetType, Constants,
           CalendarConstants DEF ClockInv
      <4> QED
        BY <3>3, <4>1 DEF Local
    <3> QED
      BY <2>0, <3>1, <3>2, <3>3 DEF RaiseInv, RaisedToday
  <2>5. CASE Tick \/ RtcGains
    <3>1. Local' = Local + 1 /\ UNCHANGED <<sched, hist>>
      BY <2>5, LocalTicks DEF Tick, RtcGains
    <3> QED
      BY <2>0, <3>1 DEF RaiseInv, RaisedToday
  <2>6. CASE NtpRequest \/ NtpError \/ NtpWakes \/ RtcLoses \/ UNCHANGED vars
    <3>1. UNCHANGED <<sched, hist, rtc, boot, config>>
      BY <2>6 DEF NtpRequest, NtpError, NtpWakes, RtcLoses, vars
    <3>2. Local' = Local
      BY <3>1 DEF Local, Now, Registers!TimeUs, Registers!BootTimeUs
    <3> QED
      BY <3>1, <3>2 DEF RaiseInv, RaisedToday
  <2>7. CASE Configures \/ Spawns
    <3>1. sched.read = Unset /\ sched'.read = Unset /\ UNCHANGED hist
      BY <2>7 DEF Configures, Spawns, SpawnSchedule, ScheduleOff, DayInv
    <3> QED
      BY <3>1 DEF RaiseInv, RaisedToday
  <2> QED
    BY <2>1, <2>2, <2>3, <2>4, <2>5, <2>6, <2>7 DEF Next
<1> QED
  BY <1>1, <1>2, ClockInvariant, TaskInvariant, DayInvariant, PTL DEF Spec

(***************************************************************************)
(* On a day without a restart, without a change of the offset and without  *)
(* an update that sets the clock back schedule_task sends at most one      *)
(* Raise, wherever the sunset lies.                                        *)
(***************************************************************************)
THEOREM AtMostOneRaise == Spec => []OneRaiseADay
<1>1. RaiseInv => OneRaiseADay
  BY DEF RaiseInv, RaisedToday, OneRaiseADay
<1> QED
  BY <1>1, RaiseInvariant, PTL

-----------------------------------------------------------------------------
(***************************************************************************)
(* Winter.  Quotients of larger numbers are larger.                        *)
(***************************************************************************)
LEMMA QuotientMonotone ==
  ASSUME NEW d \in Nat \ {0}, NEW a \in Nat, NEW b \in Nat, a <= b
  PROVE  a \div d <= b \div d
  <1> DEFINE q == a \div d
             r == a % d
  <1>1. q \in Nat /\ r \in 0 .. d - 1 /\ a = d * q + r
    BY DivMod
  <1> HIDE DEF q, r
  <1>2. q * d = d * q /\ d * q \in Nat
    BY <1>1, ProductNat
  <1>3. q * d <= b
    BY <1>1, <1>2
  <1> QED
    BY <1>1, <1>3, QuotientAtLeast DEF q

\* In one year the clocks go forward before they go back.
LEMMA ForwardBeforeBackward ==
  ASSUME NEW y \in Nat
  PROVE  /\ Instant(y, ForwardDay, ForwardTime) \in Nat
         /\ Instant(y, BackwardDay, BackwardTime) \in Nat
         /\ Instant(y, ForwardDay, ForwardTime)
              <= Instant(y, BackwardDay, BackwardTime)
  <1> DEFINE a == y * YearLength
             f == a + ForwardDay
             b == a + BackwardDay
  <1>1. a \in Nat
    BY CalendarConstants, ProductNat
  <1>2. f \in Nat /\ b \in Nat /\ f + 1 <= b
    BY <1>1, CalendarConstants
  <1>3. /\ Instant(y, ForwardDay, ForwardTime) = f * DayLength + ForwardTime
        /\ Instant(y, BackwardDay, BackwardTime) = b * DayLength + BackwardTime
    BY DEF Instant
  <1> HIDE DEF f, b
  <1>4. (f + 1) * DayLength <= b * DayLength
    BY <1>2, CalendarConstants, ProductMonotone
  <1>5. /\ (f + 1) * DayLength = f * DayLength + DayLength
        /\ f * DayLength \in Nat /\ b * DayLength \in Nat
    BY <1>2, CalendarConstants, ProductNat
  <1> QED
    BY <1>3, <1>4, <1>5, CalendarConstants

(***************************************************************************)
(* From the last Sunday in October to the end of the year, in UTC and in   *)
(* summer time.                                                            *)
(***************************************************************************)
Winter(t) == t >= Instant(Year(t + Hour), BackwardDay, BackwardTime)

\* In the winter an update turns the offset over, whatever it was.
LEMMA WinterUpdate ==
  ASSUME NEW t \in Nat, NEW offset \in {0, Hour}, Winter(t)
  PROVE  NewOffset(t, offset) = Hour - offset
  <1> DEFINE y == Year(t + Hour)
             forward == Instant(y, ForwardDay, ForwardTime)
             backward == Instant(y, BackwardDay, BackwardTime)
  <1>1. /\ BackwardDay \in 0 .. YearLength - 1
        /\ BackwardTime \in 0 .. DayLength - 1
        /\ DayLength \in Nat \ {0} /\ YearLength \in Nat \ {0}
        /\ Hour \in Nat \ {0} /\ t + Hour \in Nat /\ t <= t + Hour
    BY CalendarConstants
  <1>2. /\ Date(t) \in Nat /\ Date(t + Hour) \in Nat
        /\ Date(t) <= Date(t + Hour)
    BY <1>1, CalendarDay, QuotientMonotone DEF Date
  <1>3. y \in Nat /\ Year(t) \in Nat /\ Year(t) <= y
    BY <1>1, <1>2, DivMod, QuotientMonotone DEF Year
  <1>4. t >= backward
    BY DEF Winter
  <1> HIDE DEF y
  <1>5. /\ forward \in Nat /\ backward \in Nat /\ forward <= backward
    BY <1>3, ForwardBeforeBackward
  <1>6. y <= Year(t)
    BY <1>1, <1>3, <1>4, <1>5, InstantInYear
  <1>7. Year(t + offset) = y
    <2>1. CASE offset = 0
      <3>1. t + offset = t
        BY <2>1
      <3> QED
        BY <1>3, <1>6, <3>1
    <2>2. CASE offset = Hour
      BY <2>2 DEF y
    <2> QED
      BY <2>1, <2>2
  <1>8. NewOffset(t, offset) = IF offset > 0 /\ t >= backward THEN 0
                               ELSE IF offset = 0 /\ t >= forward THEN Hour
                               ELSE offset
    BY <1>7 DEF NewOffset
  <1> HIDE DEF forward, backward
  <1> QED
    BY <1>1, <1>4, <1>5, <1>8

(***************************************************************************)
(* What ntp_task really does after the clocks have gone back: every update *)
(* changes the offset, to one hour and to UTC in turn, in every calendar.  *)
(***************************************************************************)
THEOREM WinterOffsetAlternates ==
  Spec => [][NtpUpdate /\ Winter(real) =>
               config'.offset = Hour - config.offset]_vars
<1>1. ClockInv /\ [Next]_vars =>
        [NtpUpdate /\ Winter(real) =>
           config'.offset = Hour - config.offset]_vars
  <2> SUFFICES ASSUME ClockInv, NtpUpdate, Winter(real)
               PROVE  config'.offset = Hour - config.offset
    OBVIOUS
  <2>1. real \in Nat /\ config.offset \in {0, Hour}
    BY Constants, OffsetType DEF ClockInv
  <2> QED
    BY <2>1, UpdateOffset, WinterUpdate
<1> QED
  BY <1>1, ClockInvariant, PTL DEF Spec

(***************************************************************************)
(* The hour before the time at which ntp_task compares: in the summer 2am  *)
(* local time, when the clocks go back, is BackwardTime - Hour in UTC.     *)
(***************************************************************************)
LastHour(t) ==
  \E year \in Nat :
    /\ Instant(year, ForwardDay, ForwardTime) <= t
    /\ Instant(year, BackwardDay, BackwardTime) - Hour <= t
    /\ t < Instant(year, BackwardDay, BackwardTime)

(***************************************************************************)
(* ntp_task puts the clocks back late: it compares the local time of 2am   *)
(* with UTC, so that an update in the hour after the change still gives    *)
(* the summer offset, in every calendar.                                   *)
(***************************************************************************)
THEOREM ClocksGoBackLate ==
  Spec => [][NtpUpdate /\ LastHour(real) => config'.offset = Hour]_vars
<1>1. ClockInv /\ [Next]_vars =>
        [NtpUpdate /\ LastHour(real) => config'.offset = Hour]_vars
  <2> SUFFICES ASSUME ClockInv, NtpUpdate, LastHour(real)
               PROVE  config'.offset = Hour
    OBVIOUS
  <2>1. real \in Nat /\ config.offset \in {0, Hour}
    BY Constants, OffsetType DEF ClockInv
  <2> QED
    BY <2>1, UpdateOffset, SummerUpdate DEF LastHour
<1> QED
  BY <1>1, ClockInvariant, PTL DEF Spec

(***************************************************************************)
(* The safety half of ScheduleResumes: once the server has answered the    *)
(* clock counts as synchronized until power is lost, so that the wait of a *)
(* freshly spawned schedule_task ends.                                     *)
(***************************************************************************)
StaysSynchronized == hist.update # Unset => config.ntp_synchronized

\* An answer is not forgotten by a restart through deep sleep.
THEOREM OneAnswerIsEnough == Spec => []StaysSynchronized
<1>1. Init => StaysSynchronized
  BY DEF Init, NoHistory, StaysSynchronized
<1>2. ClockInv /\ TaskInv /\ StaysSynchronized /\ [Next]_vars
        => StaysSynchronized'
  <2> SUFFICES ASSUME ClockInv, TaskInv, StaysSynchronized, [Next]_vars
               PROVE  StaysSynchronized'
    OBVIOUS
  <2>1. CASE NtpUpdate
    BY <2>1, UpdateStep DEF StaysSynchronized
  <2>2. CASE PowerCycle
    BY <2>2 DEF PowerCycle, Restart, NoHistory, StaysSynchronized
  <2>3. CASE DeepSleep
    <3>1. UNCHANGED config
      BY <2>3 DEF DeepSleep
    <3>2. hist'.update = hist.update
      BY <2>3 DEF DeepSleep, Restart, NoHistory
    <3> QED
      BY <3>1, <3>2 DEF StaysSynchronized
  <2>4. CASE ScheduleCheck
    <3>1. PICK command : hist' = Sent(command) /\ UNCHANGED config
      BY <2>4 DEF ScheduleCheck
    <3>2. hist'.update = hist.update
      BY <3>1 DEF Sent, NoHistory, TaskInv, History
    <3> QED
      BY <3>1, <3>2 DEF StaysSynchronized
  <2>5. CASE \/ Spawns \/ NtpRequest \/ NtpError \/ NtpWakes
             \/ ScheduleStart \/ TimeStep \/ UNCHANGED vars
    <3>1. UNCHANGED <<config, hist>>
      BY <2>5, TimePasses DEF Spawns, NtpRequest, NtpError, NtpWakes,
                              ScheduleStart, vars
    <3> QED
      BY <3>1 DEF StaysSynchronized
  <2>6. CASE Configures
    <3>1. UNCHANGED <<config.ntp_synchronized, hist>>
      BY <2>6, Configured DEF Configures, ClockInv
    <3> QED
      BY <3>1 DEF StaysSynchronized
  <2> QED
    BY <2>1, <2>2, <2>3, <2>4, <2>5, <2>6 DEF Next, TimeStep
<1> QED
  BY <1>1, <1>2, ClockInvariant, TaskInvariant, PTL DEF Spec

=============================================================================
