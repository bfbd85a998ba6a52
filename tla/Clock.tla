------------------------------- MODULE Clock -------------------------------
(***************************************************************************)
(* What time the device thinks it is, and what it then does with the       *)
(* blind: ntp_task (src/src/bin/blind.rs with src/src/ntp.rs) sets the     *)
(* time registers of SystemTime and the offset from UTC, schedule_task     *)
(* turns local time and sunset into Raise and Lower.  main_fallible spawns *)
(* both tasks afresh on every restart, once it has got that far; registers *)
(* and ClockConfig lie in RTC memory, which survives deep sleep and is     *)
(* cleared by a power cycle.                                               *)
(*                                                                         *)
(* A year has few days and a day few units of time: only the order of the  *)
(* hours that matter and of the days the clocks change is kept.            *)
(***************************************************************************)
EXTENDS Integers

CONSTANTS
  DayLength,      \* units of time in a day
  YearLength,     \* days in a year
  Hour,           \* the summer offset, and ntp_task's pause
  RaiseTime,      \* 12:30
  ForwardDay,     \* day of the year of the last Sunday in March
  ForwardTime,    \* 1:00
  BackwardDay,    \* day of the year of the last Sunday in October
  BackwardTime,   \* 2:00
  Sunset,         \* UTC time of day of the sunset, by day of the year
  FirstPowerOn,   \* Unix time at which the device is first powered
  MaxTime,        \* bound: Unix time
  MaxDrift,       \* bound: what the RTC gains or loses between two updates
  Half            \* U64Max + 1 is Half squared, see SystemTime

ASSUME ClockAssumption ==
  /\ DayLength \in Nat \ {0}
  /\ YearLength \in Nat \ {0}
  /\ Hour \in 1 .. DayLength - 1
  /\ {RaiseTime, ForwardTime, BackwardTime} \subseteq 0 .. DayLength - 1
  /\ {ForwardDay, BackwardDay} \subseteq 0 .. YearLength - 1
  /\ ForwardDay < BackwardDay
  /\ Sunset \in [0 .. YearLength - 1 -> 0 .. DayLength - 1]
  /\ FirstPowerOn \in Nat \ {0}
  /\ MaxTime \in Nat /\ FirstPowerOn <= MaxTime
  /\ MaxDrift \in Nat
  /\ Half \in Nat \ {0, 1} /\ MaxTime + MaxDrift < Half * Half

VARIABLES
  real,    \* the true Unix time
  rtc,     \* the calibrated RTC time
  drift,   \* what the RTC has gained since the registers were set
  boot,    \* the registers store2 and store3
  config,  \* ClockConfig: configured, offset_seconds, ntp_synchronized
  main,    \* main_fallible: "start", "resolve" the NTP server, "run"
  ntp,     \* ntp_task: program counter, first_run, time it wakes at
  sched,   \* schedule_task: program counter, sunset, state, time last read
  hist     \* history: last update; raises today, and was the day steady?

vars == <<real, rtc, drift, boot, config, main, ntp, sched, hist>>

Registers ==
  INSTANCE SystemTime WITH
    Scale <- 1, Cal <- 1, MaxTicks <- MaxTime, Times <- 1 .. MaxTime,
    ticks <- rtc,
    origin <- IF config.ntp_synchronized THEN real + drift - rtc ELSE 0

Unset == -1
Never == [date |-> Unset, time |-> Unset]

(***************************************************************************)
(* The calendar: SystemTime::datetime is the clock in the local offset.    *)
(***************************************************************************)
Date(t) == t \div DayLength
TimeOfDay(t) == t % DayLength
Year(t) == Date(t) \div YearLength
DayOfYear(date) == date % YearLength
Instant(year, day, time) == (year * YearLength + day) * DayLength + time

Now == Registers!TimeUs(boot, rtc)
Local == Now + config.offset

-----------------------------------------------------------------------------
(***************************************************************************)
(* main_fallible.  Before and between these two steps it waits for WiFi,   *)
(* asks for the build date and resolves the name of the NTP server: each   *)
(* may take any time, hang, or fail and send the device to sleep again.    *)
(* Nobody reads the clock before it is configured.                         *)
(***************************************************************************)
PowerOnConfig ==
  [configured |-> FALSE, offset |-> 0, ntp_synchronized |-> FALSE]

Configure(c) ==
  IF c.configured THEN c ELSE [c EXCEPT !.offset = 0, !.configured = TRUE]

NtpOff == [pc |-> "off", first_run |-> FALSE, wake |-> 0]
ScheduleOff ==
  [pc |-> "off", sunset |-> Never, state |-> "None", read |-> Unset]

SpawnNtp(c) == [NtpOff EXCEPT !.pc = "request", !.first_run = ~c.configured]
SpawnSchedule == [ScheduleOff EXCEPT !.pc = "sync"]

NoHistory(update) ==
  [update |-> update, date |-> Unset, raises |-> 0, steady |-> TRUE]

Init ==
  /\ real = FirstPowerOn
  /\ rtc = 0
  /\ drift = 0
  /\ boot = Registers!PowerOnBoot
  /\ config = PowerOnConfig
  /\ main = "start"
  /\ ntp = NtpOff
  /\ sched = ScheduleOff
  /\ hist = NoHistory(Unset)

Configures ==
  /\ main = "start"
  /\ main' = "resolve"
  /\ config' = Configure(config)
  /\ UNCHANGED <<real, rtc, drift, boot, ntp, sched, hist>>

Spawns ==
  /\ main = "resolve"
  /\ main' = "run"
  /\ ntp' = SpawnNtp(config)
  /\ sched' = SpawnSchedule
  /\ UNCHANGED <<real, rtc, drift, boot, config, hist>>

-----------------------------------------------------------------------------
(***************************************************************************)
(* ntp_task.  The request leaves and the answer, if any, arrives any time  *)
(* later: ntp_request has no timeout.  With the answer everything up to    *)
(* the next sleep happens in one step.  Errors only log and sleep.         *)
(***************************************************************************)
NtpRequest ==
  /\ ntp.pc = "request"
  /\ ntp' = [ntp EXCEPT !.pc = "receive"]
  /\ UNCHANGED <<real, rtc, drift, boot, config, main, sched, hist>>

(***************************************************************************)
(* The offset that sntpc measures against the server moves the clock       *)
(* forward or back; on a first run the server's time is taken instead.     *)
(* Network delays are symmetric here.                                      *)
(***************************************************************************)
MeasuredOffset == real - Now

NewTimeMutant ==
  IF ~ntp.first_run
  THEN IF MeasuredOffset < 0 THEN Now ELSE Now + MeasuredOffset
  ELSE real

NewTime ==
  IF ~ntp.first_run
  THEN IF MeasuredOffset < 0 THEN Now - (-MeasuredOffset)
                             ELSE Now + MeasuredOffset
  ELSE real

(***************************************************************************)
(* The change of offset, from the time just set and the current offset.    *)
(***************************************************************************)
NewOffsetMutant(now, offset) ==
  LET year == Year(now + offset)
  IN  IF offset > 0 /\ now >= Instant(year, ForwardDay, ForwardTime)
      THEN 0
      ELSE IF offset = 0 /\ now >= Instant(year, ForwardDay, ForwardTime)
      THEN Hour
      ELSE offset

NewOffsetSumMutant(now, offset) ==
  LET year == Year(now + offset)
  IN  IF offset > 0 /\ now >= Instant(year, BackwardDay, BackwardTime)
      THEN 0
      ELSE IF now >= Instant(year, ForwardDay, ForwardTime)
      THEN offset + Hour
      ELSE offset

NewOffset(now, offset) ==
  LET year == Year(now + offset)
  IN  IF offset > 0 /\ now >= Instant(year, BackwardDay, BackwardTime)
      THEN 0
      ELSE IF offset = 0 /\ now >= Instant(year, ForwardDay, ForwardTime)
      THEN Hour
      ELSE offset

NtpUpdate ==
  /\ ntp.pc = "receive"
  /\ boot' = Registers!Store(Registers!NewBootTime(NewTime, rtc))
  /\ LET now == Registers!TimeUs(boot', rtc)
         offset == NewOffset(now, config.offset)
     IN  /\ config' = [config EXCEPT !.offset = offset,
                                     !.ntp_synchronized = TRUE]
         /\ hist' = [hist EXCEPT !.update = real,
                                 !.steady = /\ @
                                            /\ offset = config.offset
                                            /\ now >= Now]
  /\ drift' = 0
  /\ ntp' = [pc |-> "sleep", first_run |-> FALSE, wake |-> real + Hour]
  /\ UNCHANGED <<real, rtc, main, sched>>

NtpError ==
  /\ ntp.pc = "receive"
  /\ ntp' = [ntp EXCEPT !.pc = "sleep", !.wake = real + Hour]
  /\ UNCHANGED <<real, rtc, drift, boot, config, main, sched, hist>>

NtpWakes ==
  /\ ntp.pc = "sleep"
  /\ real >= ntp.wake
  /\ ntp' = [ntp EXCEPT !.pc = "request"]
  /\ UNCHANGED <<real, rtc, drift, boot, config, main, sched, hist>>

-----------------------------------------------------------------------------
(***************************************************************************)
(* schedule_task.  It wakes every minute, far more often than a unit of    *)
(* time passes: it reads the clock again whenever the clock has changed.   *)
(***************************************************************************)
ScheduleStart ==
  /\ sched.pc = "sync"
  /\ config.ntp_synchronized
  /\ sched' = [sched EXCEPT !.pc = "loop"]
  /\ UNCHANGED <<real, rtc, drift, boot, config, main, ntp, hist>>

CalculateSunset(t) ==
  [date |-> Date(t), time |-> Sunset[DayOfYear(Date(t))]]

CachedSunsetMutant(t) ==
  IF sched.sunset = Never THEN CalculateSunset(t) ELSE sched.sunset

CachedSunset(t) ==
  IF sched.sunset.date # Date(t) THEN CalculateSunset(t) ELSE sched.sunset

Action(sunset, time) ==
  IF sunset.time <= time \/ time < RaiseTime THEN "Lower" ELSE "Raise"

Sent(command) ==
  LET day == IF hist.date = Date(Local) THEN hist
             ELSE [NoHistory(hist.update) EXCEPT !.date = Date(Local)]
  IN  IF command = "Raise" THEN [day EXCEPT !.raises = @ + 1] ELSE day

ScheduleCheckMutant ==
  /\ sched.pc = "loop"
  /\ sched.read # Local
  /\ LET sunset == CachedSunset(Local)
         action == Action(sunset, TimeOfDay(Local))
     IN  /\ sched' = [sched EXCEPT !.sunset = sunset, !.read = Local]
         /\ hist' = Sent(IF sched.state # action THEN action ELSE "None")
  /\ UNCHANGED <<real, rtc, drift, boot, config, main, ntp>>

ScheduleCheck ==
  /\ sched.pc = "loop"
  /\ sched.read # Local
  /\ LET sunset == CachedSunset(Local)
         action == Action(sunset, TimeOfDay(Local))
     IN  /\ sched' = [sched EXCEPT !.sunset = sunset, !.state = action,
                                   !.read = Local]
         /\ hist' = Sent(IF sched.state # action THEN action ELSE "None")
  /\ UNCHANGED <<real, rtc, drift, boot, config, main, ntp>>

-----------------------------------------------------------------------------
(***************************************************************************)
(* Time passes once the tasks whose timers have expired have run.  While   *)
(* the RTC counts the time that was set it may gain and lose, up to        *)
(* MaxDrift and never more than the time that has passed since the last    *)
(* update; counting from a power on it does not reach the Unix time.  The  *)
(* timers do not use it.                                                   *)
(***************************************************************************)
TimersRun ==
  /\ ~(ntp.pc = "sleep" /\ real >= ntp.wake)
  /\ sched.pc = "sync" => ~config.ntp_synchronized
  /\ sched.pc = "loop" => sched.read = Local

Tick ==
  /\ real < MaxTime
  /\ TimersRun
  /\ real' = real + 1
  /\ rtc' = rtc + 1
  /\ UNCHANGED <<drift, boot, config, main, ntp, sched, hist>>

RtcGains ==
  /\ config.ntp_synchronized
  /\ drift < MaxDrift /\ drift < real - hist.update /\ rtc + 1 < real
  /\ TimersRun
  /\ rtc' = rtc + 1
  /\ drift' = drift + 1
  /\ UNCHANGED <<real, boot, config, main, ntp, sched, hist>>

RtcLoses ==
  /\ config.ntp_synchronized /\ -MaxDrift < drift /\ real < MaxTime
  /\ TimersRun
  /\ real' = real + 1
  /\ drift' = drift - 1
  /\ UNCHANGED <<rtc, boot, config, main, ntp, sched, hist>>

(***************************************************************************)
(* A restart through deep sleep, from main_fallible's errors or a handler, *)
(* and one through a loss of power.                                        *)
(***************************************************************************)
Restart(update) ==
  /\ main' = "start"
  /\ ntp' = NtpOff
  /\ sched' = ScheduleOff
  /\ hist' = NoHistory(update)

DeepSleepMutant ==
  /\ Restart(hist.update)
  /\ config' = [config EXCEPT !.ntp_synchronized = FALSE]
  /\ UNCHANGED <<real, rtc, drift, boot>>

DeepSleep ==
  /\ Restart(hist.update)
  /\ UNCHANGED <<real, rtc, drift, boot, config>>

PowerCycleMutant ==
  /\ Restart(Unset)
  /\ rtc' = 0
  /\ drift' = 0
  /\ boot' = Registers!PowerOnBoot
  /\ config' = [PowerOnConfig EXCEPT
                  !.ntp_synchronized = config.ntp_synchronized]
  /\ UNCHANGED real

PowerCycle ==
  /\ Restart(Unset)
  /\ rtc' = 0
  /\ drift' = 0
  /\ boot' = Registers!PowerOnBoot
  /\ config' = PowerOnConfig
  /\ UNCHANGED real

Next ==
  \/ Configures
  \/ Spawns
  \/ NtpRequest
  \/ NtpUpdate
  \/ NtpError
  \/ NtpWakes
  \/ ScheduleStart
  \/ ScheduleCheck
  \/ Tick
  \/ RtcGains
  \/ RtcLoses
  \/ DeepSleep
  \/ PowerCycle

Spec == Init /\ [][Next]_vars

(***************************************************************************)
(* Fairness: the timer of schedule_task's wait for the clock fires.  No    *)
(* start-up need get as far as the tasks, the NTP server need not answer,  *)
(* and restarts are not fair.                                              *)
(***************************************************************************)
FairSpec == Spec /\ WF_vars(ScheduleStart)

-----------------------------------------------------------------------------
(***************************************************************************)
(* Every variable keeps the type of the value it models; the offset is     *)
(* UTC or one hour.                                                        *)
(***************************************************************************)
TypeOK ==
  /\ real \in FirstPowerOn .. MaxTime
  /\ rtc \in 0 .. MaxTime
  /\ drift \in -MaxDrift .. MaxDrift
  /\ boot \in [store2 : 0 .. Half - 1, store3 : 0 .. Half - 1]
  /\ config \in [configured : BOOLEAN, offset : {0, Hour},
                 ntp_synchronized : BOOLEAN]
  /\ main \in {"start", "resolve", "run"}
  /\ ntp \in [pc : {"off", "request", "receive", "sleep"},
              first_run : BOOLEAN, wake : 0 .. MaxTime + Hour]
  /\ sched \in [pc : {"off", "sync", "loop"},
                sunset : [date : Nat, time : Nat] \cup {Never},
                state : {"None", "Raise", "Lower"},
                read : Nat \cup {Unset}]
  /\ hist \in [update : Nat \cup {Unset}, date : Nat \cup {Unset},
               raises : Nat, steady : BOOLEAN]

(***************************************************************************)
(* Whoever sees ntp_synchronized may trust the clock: the flag and the     *)
(* registers survive and are lost together, whatever restarts happen, and  *)
(* every update takes all of the RTC's error away, whether it had gained   *)
(* or lost: the clock is off by what it has drifted since the last one.    *)
(***************************************************************************)
ClockIsRight == config.ntp_synchronized => Now = real + drift

(***************************************************************************)
(* ntp_task and the restarts use the time registers as SystemTime allows:  *)
(* set to the true time, left alone, or cleared by a power cycle.          *)
(***************************************************************************)
ImplementsSystemTime == Registers!Spec

(***************************************************************************)
(* Summer time holds from the first update in the summer to the last one,  *)
(* in every year and also when the device was off or asleep in between.    *)
(* Summer ends at 2am summer time, BackwardTime less an hour in UTC.       *)
(***************************************************************************)
SummerOffset ==
  \A year \in 0 .. Year(MaxTime) :
    /\ hist.update >= Instant(year, ForwardDay, ForwardTime)
    /\ hist.update < Instant(year, BackwardDay, BackwardTime) - Hour
    => config.offset = Hour

(***************************************************************************)
(* schedule_task's cached sunset and state give what today's date and the  *)
(* time it has just read call for, over midnight, over New Year and when   *)
(* an update has moved the local date, forward or back.                    *)
(***************************************************************************)
FollowsTheDay ==
  sched.pc = "loop" /\ sched.read = Local =>
    (sched.state = "Raise" <=>
       /\ RaiseTime <= TimeOfDay(Local)
       /\ TimeOfDay(Local) < Sunset[DayOfYear(Date(Local))])

(***************************************************************************)
(* On a day without a restart, on which no update changes the offset or    *)
(* sets a fast clock back, the blind is sent up at most once.              *)
(***************************************************************************)
OneRaiseADay == hist.steady => hist.raises <= 1

(***************************************************************************)
(* Between two losses of power one answer from the NTP server is enough:   *)
(* a schedule_task that a later start-up spawns stops waiting for the      *)
(* clock, or is restarted, even if all later requests are lost and         *)
(* ntp_request waits for ever.                                             *)
(***************************************************************************)
ScheduleResumes ==
  hist.update # Unset /\ sched.pc = "sync" ~> sched.pc # "sync"

(***************************************************************************)
(* ntp_task's comment: "the clocks go [...] back 1 hour at 2am on the last *)
(* Sunday in October".  After an update later than that the offset is UTC. *)
(***************************************************************************)
ClocksGoBack ==
  \A year \in 0 .. Year(MaxTime) :
    /\ Year(hist.update) = year
    /\ hist.update >= Instant(year, BackwardDay, BackwardTime)
    => config.offset = 0

(***************************************************************************)
(* schedule_task's comment "It's after sunset" on its first case: a blind  *)
(* that is lowered in the afternoon is lowered after sunset.               *)
(***************************************************************************)
AfterSunset ==
  /\ sched.pc = "loop" /\ sched.read = Local
  /\ sched.state = "Lower" /\ RaiseTime <= TimeOfDay(Local)
  => Sunset[DayOfYear(Date(real))] <= TimeOfDay(real)

=============================================================================
