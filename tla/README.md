# Blind controller: TLA+ specifications and proofs

The firmware in `src/` drives a window blind with a stepper motor from an ESP32:
it raises and lowers it at set times of day, takes commands over HTTP, keeps its
clock by NTP, stores its WiFi credentials in flash and updates itself over the
air. This directory models the parts whose correctness depends on the order of
events, on restarts and on arithmetic at the edge of a word, checks them with
TLC on small instances and proves the most important properties with TLAPS for
all values of the constants.

## 1. The system

All tasks run on one embassy executor: they interleave at `await`, and nowhere
else. State lives in RAM (lost on every restart), in RTC memory and registers
(lost on a power cycle, kept over deep sleep) and in flash (kept).

| Component | Source | State | Operations | Hard part |
|---|---|---|---|---|
| Web handlers | `bin/blind.rs` `web_task`, `build_app` | a request being served | `/raise`, `/lower`, `/forward/<n>`, `/backward/<n>`, `/reboot` | wait for room in the channel |
| Schedule | `bin/blind.rs` `schedule_task` | last action sent, cached sunset | check every minute, send | clock jumps, blocking send |
| Motor | `bin/blind.rs` `motor_task` | `raised`, step loop | receive, skip, step | moves take seconds, restart in the middle |
| Clock | `system_time.rs` | `CLOCK_CONFIG`, registers store2/3 | get, set, configure | wrap-around, which memory survives what |
| NTP | `ntp.rs`, `ntp_task` | `first_run` | request, adjust, change of offset | late or lost answers, summer time |
| Credentials | `nvs.rs`, `main_fallible` | one flash sector | save, load, revoke | power loss between and inside writes |
| Update | `ota.rs`, `main_fallible` | otadata entries, two app partitions | prepare, write, commit | power loss, what the bootloader makes of it |
| HTTP client | `http.rs` | buffers behind a mutex | `req`, `req_buffered` | redirects, bodies that end early |
| WiFi | `wifi.rs` | cached access point and IP address | connect, shut down | stale caches, lost link |
| Start-up | `bin/blind.rs` `main` | - | the sequence of the above; any error means deep sleep | loops of failing boots |

How they interact: `main_fallible` loads the credentials, connects, updates if a
newer release is out, then spawns the tasks. Handlers and schedule send
`StepCommand`s through one `Channel` of ten to the motor. `ntp_task` writes the
time registers and the offset, which `schedule_task` and `/time` read. `/reboot`
and every start-up error go through deep sleep back to the bootloader.

What makes each correct: the motor's idea of the blind matches the blind and the
last command wins; the device can always boot and never downloads
anything older than it has run;
it gets on the network again whatever its caches hold; a download is the bytes of
one body in order, or an error;
credentials read back are a whole pair; the clock is right, but for the RTC's
drift since the last update, when it says so; the
schedule follows the local day. `PROJECT.json` lists the hazards line by line.

## 2. The modules

| Module | Models | Instances | Proofs |
|---|---|---|---|
| `Blind` | handlers, channel, schedule, motor, pins, restarts | `MCBlind` | `BlindProofs` |
| `Ota` | update and bootloader over the flash | `MCOta` | `OtaProofs` |
| `Nvs` | credentials in a flash sector | `MCNvs` | `NvsProofs` |
| `CredentialStore` | abstract: a register holding one pair or nothing | through `Nvs` | through `NvsProofs` |
| `SystemTime` | time registers and calibration | `MCSystemTime` | `SystemTimeProofs` |
| `Clock` | NTP, offset, sunset and schedule over `SystemTime` | `MCClock` | `ClockProofs` |
| `Wifi` | connection task, its caches, the wait for it, restarts on failure | `MCWifi` | `WifiProofs` |
| `Http` | one call of `req` or `req_buffered` | `MCHttp` | `HttpProofs` |
| `Fetch` | abstract: a prefix of one body, then success or failure | through `Http` | through `HttpProofs` |

**Blind.** One action per stretch between awaits. `WebRequest`/`WebSend` are a
handler before and after `sender.send`; `ScheduleCheck` sets `state` *before*
`ScheduleSend` waits for room, as the code does; `StartMove` runs from `receive`
to the first toggle, `Step` is one turn of the `for` loop and `SteppingDone` its
end. The time of day is abstracted to `due`, what the match in `schedule_task`
would yield now, and changes at will. `position` counts rising edges of the step
pin, which is what the driver moves on. `hist` is a history variable: where the
blind was at boot, what jogs have asked for, the last move the channel accepted.
`Reboot` needs a free handler and keeps `ntp_synchronized`; `PowerCycle` does not.
After a restart mid-pulse the step pin goes high with the driver disabled, so the
blind does not move.

**Ota.** One action per step of `main_fallible` that can fail or be cut off. Firmware
is a release number in the order of `BUILD_DATE`; an image is a number of chunks,
each carrying its release. `UpdateSlot` and `CurrentSlot`/`NextSeq` are
`update_slot` and `set_current_slot`, kept apart because the code computes the
slot twice and asserts that the results agree. The commit is two steps, erase and
program, since `FlashStorage::write` replaces a sector. The bootloader is
external: it is modelled from ESP-IDF's documented choice (highest valid `ota_seq`,
partition `(ota_seq - 1) % 2`, the other one if the image is bad, entry 0
initialised when both are empty), with rollback as a constant because the
repository does not fix the bootloader's configuration. `Clobbered` lets a device whose
running partition was overwritten halt.

**Nvs.** All fields share one sector, and a write reads, erases and programs it.
Each of the six writes of a save is therefore `SaveErase` then a program step,
and `TornSectors` lists what a power loss in between leaves: a prefix of the
fields, possibly a partial string, ones after it. Reading back gives an error
(length 255 does not fit), garbage (not UTF-8, upon which the partition is marked
invalid) or a pair. `Readable` is the refinement mapping to `CredentialStore`.

**SystemTime.** `u64` arithmetic with 32-bit halves, scaled down to the constant
`Half`. `RtcTimeUs` is the split multiplication of `get_rtc_time_cal_us`,
`NewBootTime` and `TimeUs` the two sides of the wrap. `origin` is a history
variable: the Unix time at which the RTC would have read zero. `set_time_us(0)` is
left out: it reads back as `u64::MAX` until the RTC advances, but no caller can
pass the year 1970.

**Clock.** `ntp_task` from the arrival of an answer to its next sleep is one action,
because there is no await in between. The answer may come at any later time, be
an error, or never come. `main` is how far `main_fallible` has got: `Configures`
stands for everything up to the configuration of the clock (WiFi, the build date,
an update), `Spawns` for resolving the name of the NTP server and spawning the
tasks. Neither need ever happen. Deep sleep, which every error on the way and `/reboot`
lead to, keeps registers and `CLOCK_CONFIG` and goes back to the start; a power cycle
clears everything. `drift` is what the RTC has gained (`RtcGains`) or lost (`RtcLoses`)
against the true time since it was last set, so that `NewTime` has to set the clock
forward or back. `schedule_task` wakes every minute, so time
(`Tick`) passes only after it has seen the current reading. The calendar is
compressed: only the order of raise time, sunset, the changes of the clocks and
New Year matters to the code. `INSTANCE SystemTime` supplies the registers and is
also the abstract specification that `Clock` is shown to implement.

**Wifi.** `task` is where `connection_fallible` awaits, `main` where `main_fallible`
is: before `connect`, waiting for the link, then for an address, making its
requests, serving. `rtc` is what `connect`, the task and `wait_for_connection` keep
in RTC memory: the network, its access point and authentication, the address and
how often it was used. It survives deep sleep (`RequestFails`, `Reboot`) and not
`PowerCycle`; `Reboot` and `PowerCycle` may bring firmware for another network. The
cached channel is left out: it only tells the driver where to look first.
The driver, the access points and DHCP are external: an access point may be replaced, change
its authentication or vanish, a network may be renumbered, a link may drop and
the driver may answer with an error where the code handles one. `main_fallible`'s
requests (build date, image, name of the NTP server) are one step: it succeeds
if the link and the address are right, and otherwise ends in deep sleep. The
owner of the handle is any caller of `wifi.rs`: the blind controller never shuts
its WiFi down, but the module offers it. `Shutdown` happens only once serving, and
one restart signal per start is enough: shutting down consumes the handle, so the
task waits for that signal at most once.

**Http.** `site` maps each URL to what its server answers: a body with its framing, a
redirection, or another status. It does not change during a call. `Call` is
`to_url_string`; `Succeeds`, `FailsWithStatus` and `Redirects` are the arms of the
match on the status; `ReadToEnd` is the end of `req`, `FillBuf` one turn of the loop
of `req_buffered` with its callback, which writes to the partition and fails
when that is full. Wherever reqwless can fail it may. A body whose end is the
closing of the connection may be cut short unnoticed, and that is part of what
`Fetch` promises: success is the whole body *unless* the server frames it that way.
`Ota` relies on no more than that promise: `DownloadCutShort` is the unnoticed case.

**Start-up** is no module of its own. Each part of `main_fallible` belongs to the
module whose state it uses, and all of them share the shape "an error means deep
sleep and another start".

## 3. The runs

| Run | Shows |
|---|---|
| `blind_safety` | six invariants of handlers, schedule and motor in all interleavings |
| `blind_liveness` | moves end, requests are answered, a blind that the last boot found up comes to rest where the schedule wants it |
| `blind_restart` | *violated*: a Raise is skipped only when the blind is up |
| `ota_faults` | bootable, slots agree, a committed entry is the active one, nothing older than what the device has run is downloaded, partition 0 is never written; a device that is rebooted ends on the newest release if that fits a partition, and every device gets to serve unless it does not, or the running image was overwritten and nobody cycles the power |
| `ota_running` | *violated*: an update never overwrites the running firmware |
| `nvs_power` | refinement of `CredentialStore`; a completed save persists |
| `system_time` | the clock reads back exactly |
| `clock_years` | right when synchronized but for the drift since the last update, summer offset, schedule follows the day; once spawned again after a restart it need not wait for another answer |
| `wifi_caches` | caches stay consistent, shutting down is safe and ends, the device gets online again unless it is stranded in one of six named ways |
| `http_fetch` | refinement of `Fetch`, no panic, the call ends unless redirects run in a circle |
| `clock_winter` | *violated*: after an update made once the clocks have gone back the offset is UTC |
| `clock_sunset` | *violated*: an afternoon's lowering is after sunset |

The four violated properties state what a comment or a log line of the
firmware says; `PROJECT.json` quotes each under `findings`. The state that
`ota_running` finds has a second consequence: the sequence number the update gets
is odd, so the bootloader goes back to partition 0, and the update that the index
page calls pending never runs. So a device can go from release 2 back to release 1, although
`DownloadsGoForward` holds: it never *downloads* anything older than the newest it has run.
`CommitIsActive` is about the otadata entries only, and holds in that state too.

`ScheduleFollowed` is about the position of the blind and therefore about boots that find it
at its top: after any other the motor's flag follows the schedule and the blind does
not, which is what `blind_restart` shows. `SummerOffset` ends at 2am summer time, 01:00
UTC; the code compares with 02:00 UTC and is an hour late (`ClocksGoBackLate`).
`OneRaiseADay` leaves out days with a restart, a change of the offset or an update that sets a fast
clock back: on those the blind can be lowered and raised a second time.

`GetsOnline` and `Terminates` hold because they name their exceptions. These
are what the code really does: an access point that was replaced is never scanned
for again until power is lost; a link lost after connecting is not noticed; an
error of the driver ends the task while `main` waits; redirects have no limit.
No text of the repository promises otherwise.

**Bounds.** `blind_safety`: two handlers (the pool's size), a channel of two slots,
a travel of 4 steps of 2 toggles with a ramp of 3, words of 32 so that a jog of 17
wraps, three requests and one restart. Eight toggles against a ramp of three give
fast toggles in the middle; the channel fills while the motor moves; a second
restart reaches nothing new because the first returns all RAM to its boot state.
`blind_liveness` shrinks the channel to one slot, so that every sender waits.
`ota_faults`: four releases, so that there are two updates in a row and a last one
that does not fit; partitions of two chunks let a power loss leave half an image;
sequence numbers run out at 6; three faults combine a torn download with a
torn commit.
`wifi_caches`: two networks, one with an access point that can be replaced or lose
its encryption, one whose scan does not report authentication; cached addresses
expire after two uses, so that a start can find them fresh, in use and used
up; two addresses and three faults let a network change its access point and its
addresses and the device lose power or its link. `http_fetch`: three URLs answer in
every way and redirect in every way (chains, circles, too long, missing); bodies
of 0, 1, 3 and 5 bytes are below, at and past what `req` takes (1), the
buffer (2), the partition (3) and the default length (5).
`nvs_power`: three pairs (two share a name, two names share a length) and three
power losses. `system_time`: words of 3 bits, every time at every count; 30 ticks
overflow the low word three times. `clock_years`: years of two days of six units,
from before one summer to inside the next; an RTC off by one unit, as much as the
summer offset, is enough to move a reading over raise time, sunset, midnight and New
Year; restarts are unbounded. The two violated runs leave drift out (`MaxDrift = 0`). Every bound is a
named constant (`Max...`) in a guard, and none appears in what is proved except
as an arbitrary number.

**Fairness.** `Blind!FairSpec`: weak fairness for the motor and the schedule's
polling, because the executor polls every woken task and timers always fire.
Strong fairness for senders: each time the motor takes a command the channel wakes
its waiting senders and the run queue is first in, first out, so a sender is not
passed over for ever. `Ota!FairSpec`: weak fairness for the progress of
`main_fallible`; everything that stops it is a fault or a restart and counted.
`Wifi!FairSpec`: weak fairness for `main`, the connection task, the owner who waits for
the acknowledgement, and DHCP, which `net_task` keeps asking. A request that has
lost its link is exempt: nothing in the code times out a connection that
is already open. `Http!FairSpec`: weak fairness for the steps of the call; a server
that stays silent on an open connection is outside it, as `http.rs` sets no
timeout. In `wifi_caches` deadlock is not checked, because a device whose task
has ended, or that nobody asks anything, does stop.
`Clock!FairSpec`: weak fairness for `schedule_task`'s wait for the clock, a
loop over a timer; `ScheduleResumes` holds although no later NTP request need ever be answered. Start-up
is not fair, as WiFi, servers and names can hang or fail for ever: the property is
about a `schedule_task` that has been spawned, until the next restart.
Requests, the time of day, the NTP server, releases, restarts and faults are
never fair.

**Mutants.** Definitions named `...Mutant` stand beside the one they vary and are used by
no specification: each is a plausible slip in that code (a dropped guard, a
missing reset, a swapped test) that one of the properties must catch.

## 4. The proofs

All theorems are for arbitrary constants satisfying the `ASSUME` of their module.

- `BlindProofs`. `TypeCorrect` and, on top of it, `PulseInv` (the parity of the step
  pin is that of `motor.i`, and `motor.n` is even) give `PulsesAreWhole` and
  `RampIsSymmetric`, also for moves shorter than the ramp, where `i < 100` decides
  before `n - 100` is evaluated. `TravelIsAccounted` is inductive given the
  pulses. `CourseInv` (without jogs a move is a full travel in the direction of
  the flag) gives `TravelIsBounded`. `LastCommandIsFollowed` is inductive over the
  queue: appending makes the new command last, removing the head changes the
  flag only to what that head asks for. `Microsteps` must be even, which 2 is.
- `OtaProofs`. `OtaInv`: the image flashed by cable stays in slot 0, entry 0 is
  what the bootloader wrote on the first boot, entry 1 is never Valid and updates
  go to slot 1. From it `AlwaysBootable`, `SlotsAlwaysAgree`, `TypeCorrect` and
  `CableImageIsKept`: updates do not alternate between the partitions, and what keeps
  the device bootable is that slot 0 is never written. `NewerInv`, that from the
  check on something newer than what runs is published and the image requested
  is no older than that, gives `OnlyForward`; since the bootloader may go back, it also says that
  everything in flash and everything ever run has been published. `PendingInv`, that from the commit to
  the next restart entry 1 is the one just written, and `NextSeqHigher`, that its
  number is above the bootloader's own, give `CommittedIsActive`. All of these hold with and without
  rollback; the runs set `Rollback` to FALSE.
- `NvsProofs`. `NvsInv` says which fields are already written at write number `k`, in
  flash or in the buffer, and that a valid MAGIC implies all of them. `WriteStep`,
  `TornClear` and `TornPair` show that each write and each torn sector maps to
  `Forget`, `Save` or a stutter, hence `StoreImplemented`; `SavePersists` adds that nothing is
  erased while a completed save is on record. `TypeCorrect` is part of `NvsInv`.
- `SystemTimeProofs`. `RtcTimeIsExact`: splitting the product loses nothing as long
  as the result fits 64 bits. `StoreIsLossless`: two words hold a `u64`. `TimeInv`: the
  stored boot time is `origin`, or `origin + U64Max` when that is negative, and
  then the clock is past zero, which is what makes `rtc > wrapped` the right test.
  From it `ClockIsExact` and `TypeCorrect`.
- `ClockProofs`. `ClockInv`: the boot time is `real + drift - rtc` once synchronized and zero
  before, and the clock is configured before a task runs. From it `SynchronizedClockIsRight`, and with the step lemmas
  `SystemTimeImplemented`. `TaskInv` types the two tasks (`TypeCorrect`).
  `SummerTimeHolds` rests on the calendar: `InstantInYear` and `InstantMonotone`
  place the two changes in their own year and in order, so that an update between
  them leaves one hour whichever offset it finds, even when that offset puts
  the local time into the next year (`SummerUpdate`). The same lemmas prove what the
  finding in `clock_winter` shows on one calendar: after the clocks have gone back
  every update turns the offset over (`WinterOffsetAlternates`), and in the hour before
  02:00 UTC it still leaves summer time (`ClocksGoBackLate`).
  `DayInv`, that the kept sunset is the one of its date, that date the one of the last
  reading and the state what that reading called for, gives
  `ScheduleFollowsTheDay`. `RaiseInv` adds that on a steady day local time has not
  gone back behind the last reading, and that after a raise the blind is still up or
  the sunset has passed: `AtMostOneRaise`. An update that keeps the offset and does not set
  the clock back can only move local time forward.
  `OneAnswerIsEnough` is the safety half of `ScheduleResumes`.
- `WifiProofs`. `CacheInv`: a cached access point is one of the cached *network*, with the
  authentication that one reported. It has to cover the states between
  `connect`, which clears only the access point, and the first poll of the task,
  which clears the authentication: hence its exception for leftovers of another
  network. It needs `AirInv`, that a scan for a network finds one of its access
  points. `LinkInv`, that only a task past `connect_async` has a link, gives
  `NotConnectedAtTop`; `HandleInv`, that the task waits with the radio off from
  its acknowledgement on, gives `ShutdownMeansOff`.
- `HttpProofs`. `OnChain`: the URL being requested is in the least set closed under
  redirects. `Waiting` and `Reading`: nothing is out before the body is read, and then
  what the callback got is the first `pos` bytes of it and `tot = pos`, which the
  callback keeps below `Limit`. `NoPanic` needs `LimitAssumption`, that a
  partition and a buffer together are smaller than the 20 MiB that stand for a
  missing length. With these every step of the client is a step of `Fetch` or a
  stutter (`Refinement`).

Only model-checked: everything temporal under fairness (`MotorReturns`,
`RequestsAnswered`, `ScheduleFollowed`, `EventuallyUpdated`, `EventuallyServes`,
`ShutdownCompletes`, `GetsOnline`, `Terminates`, `ScheduleResumes`), which is outside what
TLAPS proves: it rests on `ENABLED`. Every invariant, action property and
refinement that a passing run checks is also a theorem.

## 5. Not modelled, and what the models assume

- TLS, DNS and TCP: a request works, fails or, without its link, hangs. A second
  HTTP call at the same time: `BUFFERS` serialises them, and the program makes one
  at a time.
- A server that changes its answers during one call.
- Flash writes other than the interrupted one do not fail or tear; erased flash
  reads as ones; CRC-32 over four bytes is injective.
- Images carry a digest that the bootloader verifies.
- NTP answers are exact: network delay is symmetric, the server right. The RTC's drift
  between two updates is at most `MaxDrift` and at most the time that has passed, and an RTC
  that counts from power on does not overtake the Unix time. The drift of an RTC
  that was never set, which nobody reads, is left out. Timers do not drift.
- The layout of RTC memory does not change between two firmwares.
- A handler is not cancelled while it waits for the channel (picoserve's
  timeouts cover reading and writing only).
- Logging, random numbers, the partition macro, build scripts, CI and CAD.

## 6. Plan

1. Core, done: `Blind`, `Ota`, `Nvs`, `SystemTime`, `Clock`, their runs and first theorems.
2. Network, done: `Wifi`, `Http` with `Fetch`, and the liveness of start-up in `Ota`
   when the newest image does not fit.
3. Theorems, done: every invariant, action property and refinement of the passing
   runs, and what `ntp_task` does in the winter.
4. An abstract schedule (the blind is down or up as the day says) that `Clock` and
   `Blind` together implement.
