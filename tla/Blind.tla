------------------------------- MODULE Blind -------------------------------
(***************************************************************************)
(* The cooperative tasks of src/src/bin/blind.rs that move the blind, from *)
(* the moment main_fallible has spawned them:                              *)
(*                                                                         *)
(*   web_task (a pool of HTTP handlers) --+                                *)
(*                                        +--> Channel --> motor_task      *)
(*   schedule_task (time of day) ---------+                                *)
(*                                                                         *)
(* together with the stepper they drive and with the restarts (the /reboot *)
(* page, a power cycle) that wipe every task's RAM but not the position of *)
(* the blind.  Every await point of the tasks separates two actions.       *)
(***************************************************************************)
EXTENDS Integers, Sequences

CONSTANTS
  WebTasks,     \* handler tasks; WEB_TASK_POOL_SIZE = 2 in the code
  Capacity,     \* slots of the command channel; 10 in the code
  BlindHeight,  \* steps from top to bottom; 4450 in the code
  Microsteps,   \* toggles of the step pin per step; 2 in the code
  UsizeMod,     \* 2^32 on the ESP32: usize arithmetic wraps (release profile)
  Ramp,         \* slow toggles at either end of a move; 100 in the code
  StepCounts,   \* the n of /forward/<n> and /backward/<n>
  MaxRequests,  \* bound: HTTP requests for a move
  MaxReboots    \* bound: restarts

(***************************************************************************)
(* Microsteps is even: a step is a whole number of pulses.                 *)
(***************************************************************************)
ASSUME BlindAssumption ==
  /\ Capacity \in Nat \ {0}
  /\ BlindHeight \in Nat
  /\ Microsteps \in Nat /\ Microsteps % 2 = 0
  /\ UsizeMod \in Nat \ {0} /\ UsizeMod % 2 = 0
  /\ Ramp \in Nat
  /\ StepCounts \subseteq 0 .. UsizeMod - 1
  /\ MaxRequests \in Nat
  /\ MaxReboots \in Nat

VARIABLES
  queue,     \* the Channel<_, StepCommand, 10>, oldest command first
  web,       \* command each handler is sending, or NoCommand
  sched,     \* schedule_task: program counter, and its local `state`
  synced,    \* CLOCK_CONFIG.ntp_synchronized
  due,       \* what schedule_task's match on the time of day yields now
  motor,     \* motor_task: program counter and its locals raised, i, n
  pins,      \* levels of tmc_en (active low), tmc_dir and tmc_step
  position,  \* the blind, in rising edges of tmc_step above its top
  hist,      \* history: position at boot, and moves accepted since
  requests,  \* requests made so far, for the bound
  reboots    \* restarts so far, for the bound

vars == <<queue, web, sched, synced, due, motor, pins, position, hist,
          requests, reboots>>

Moves == {"Raise", "Lower"}
Jogs == {"Forward", "Backward"}
StepCommand == [op : Moves] \cup [op : Jogs, n : StepCounts]
NoCommand == [op |-> "None"]

Flip(level) == IF level = "High" THEN "Low" ELSE "High"

(***************************************************************************)
(* What a command asks of the stepper: the direction, and the number of    *)
(* toggles of the step pin, `n * microsteps` in wrapping usize arithmetic. *)
(***************************************************************************)
Direction(cmd) == IF cmd.op \in {"Forward", "Raise"} THEN "High" ELSE "Low"

Steps(cmd) == IF cmd.op \in Moves THEN BlindHeight ELSE cmd.n

TogglesMutant(cmd) == (Steps(cmd) * Microsteps + 1) % UsizeMod

Toggles(cmd) == (Steps(cmd) * Microsteps) % UsizeMod

Sign(level) == IF level = "High" THEN 1 ELSE -1

FullTravel == Toggles([op |-> "Lower"])

(***************************************************************************)
(* The pause after toggle i of n.  `n - 100` would wrap for n < 100; the   *)
(* test on i in front of it short-circuits those cases.                    *)
(***************************************************************************)
SpeedMutant(i, n) == IF i >= (n - Ramp) % UsizeMod THEN "slow" ELSE "fast"

Speed(i, n) ==
  IF i < Ramp \/ i >= (n - Ramp) % UsizeMod THEN "slow" ELSE "fast"

(***************************************************************************)
(* The state main_fallible leaves behind when it has spawned the tasks.    *)
(***************************************************************************)
BootWeb == [w \in WebTasks |-> NoCommand]
BootSched == [pc |-> "sync", state |-> "None"]
BootMotor == [pc |-> "receive", raised |-> TRUE, i |-> 0, n |-> 0]
BootPins == [en |-> "High", dir |-> "High", step |-> "High"]
BootHist(p) == [origin |-> p, jog |-> 0, jogged |-> FALSE, last |-> "Raise"]

Init ==
  /\ queue = << >>
  /\ web = BootWeb
  /\ sched = BootSched
  /\ synced = FALSE
  /\ due \in Moves
  /\ motor = BootMotor
  /\ pins = BootPins
  /\ position = 0
  /\ hist = BootHist(0)
  /\ requests = 0
  /\ reboots = 0

(***************************************************************************)
(* Channel.send: waits for a free slot, then appends.  The history notes   *)
(* the last Raise or Lower that the channel has accepted.                  *)
(***************************************************************************)
Send(cmd) ==
  /\ Len(queue) < Capacity
  /\ queue' = Append(queue, cmd)
  /\ hist' = IF cmd.op \in Moves THEN [hist EXCEPT !.last = cmd.op] ELSE hist

-----------------------------------------------------------------------------
(***************************************************************************)
(* web_task.  A handler takes a request for a move and stays in            *)
(* sender.send until the channel has room; only then does it answer.  The  *)
(* pages / and /time read state only.                                      *)
(***************************************************************************)
WebRequest(w, cmd) ==
  /\ web[w] = NoCommand
  /\ requests < MaxRequests
  /\ web' = [web EXCEPT ![w] = cmd]
  /\ requests' = requests + 1
  /\ UNCHANGED <<queue, sched, synced, due, motor, pins, position, hist,
                 reboots>>

WebSend(w) ==
  /\ web[w] # NoCommand
  /\ Send(web[w])
  /\ web' = [web EXCEPT ![w] = NoCommand]
  /\ UNCHANGED <<sched, synced, due, motor, pins, position, requests,
                 reboots>>

-----------------------------------------------------------------------------
(***************************************************************************)
(* schedule_task.  It polls ntp_synchronized, then compares the action due *)
(* at this time of day with the last one it sent.  An error while reading  *)
(* the clock only logs and sleeps, which changes nothing here; so does a   *)
(* check that finds nothing new.                                           *)
(***************************************************************************)
NtpSynchronizes ==
  /\ ~synced
  /\ synced' = TRUE
  /\ UNCHANGED <<queue, web, sched, due, motor, pins, position, hist,
                 requests, reboots>>

TimePasses ==
  /\ due' \in Moves \ {due}
  /\ UNCHANGED <<queue, web, sched, synced, motor, pins, position, hist,
                 requests, reboots>>

ScheduleStart ==
  /\ sched.pc = "sync"
  /\ synced
  /\ sched' = [sched EXCEPT !.pc = "check"]
  /\ UNCHANGED <<queue, web, synced, due, motor, pins, position, hist,
                 requests, reboots>>

ScheduleCheckMutant ==
  /\ sched.pc = "check"
  /\ sched.state # due
  /\ sched' = [sched EXCEPT !.pc = "send"]
  /\ UNCHANGED <<queue, web, synced, due, motor, pins, position, hist,
                 requests, reboots>>

ScheduleCheck ==
  /\ sched.pc = "check"
  /\ sched.state # due
  /\ sched' = [pc |-> "send", state |-> due]
  /\ UNCHANGED <<queue, web, synced, due, motor, pins, position, hist,
                 requests, reboots>>

ScheduleSendMutant ==
  /\ sched.pc = "send"
  /\ sched' = [sched EXCEPT !.pc = "check"]
  /\ \/ Send([op |-> sched.state])
     \/ Len(queue) = Capacity /\ UNCHANGED <<queue, hist>>
  /\ UNCHANGED <<web, synced, due, motor, pins, position, requests, reboots>>

ScheduleSend ==
  /\ sched.pc = "send"
  /\ Send([op |-> sched.state])
  /\ sched' = [sched EXCEPT !.pc = "check"]
  /\ UNCHANGED <<web, synced, due, motor, pins, position, requests, reboots>>

-----------------------------------------------------------------------------
(***************************************************************************)
(* motor_task.  It receives one command at a time, drops a Raise or Lower  *)
(* that its flag says is already done, and otherwise toggles the step pin. *)
(* The driver moves the blind one microstep on each rising edge.           *)
(***************************************************************************)
RedundantMutant(cmd) == cmd.op = (IF motor.raised THEN "Lower" ELSE "Raise")

Redundant(cmd) == cmd.op = (IF motor.raised THEN "Raise" ELSE "Lower")

SkipCommandMutant ==
  /\ motor.pc = "receive"
  /\ queue # << >>
  /\ Redundant(Head(queue))
  /\ UNCHANGED vars

SkipCommand ==
  /\ motor.pc = "receive"
  /\ queue # << >>
  /\ Redundant(Head(queue))
  /\ queue' = Tail(queue)
  /\ UNCHANGED <<web, sched, synced, due, motor, pins, position, hist,
                 requests, reboots>>

(***************************************************************************)
(* StartMove runs from the receive to the first toggle.  The history adds  *)
(* up what Forward and Backward commands have asked for.                   *)
(***************************************************************************)
StartMoveWith(cmd, flag) ==
  /\ motor.pc = "receive"
  /\ queue # << >>
  /\ cmd = Head(queue)
  /\ ~Redundant(cmd)
  /\ queue' = Tail(queue)
  /\ motor' = [pc |-> "step", raised |-> flag, i |-> 0, n |-> Toggles(cmd)]
  /\ pins' = [pins EXCEPT !.dir = Direction(cmd), !.en = "Low"]
  /\ hist' = IF cmd.op \in Moves THEN hist
             ELSE [hist EXCEPT !.jogged = TRUE,
                     !.jog = @ + Sign(Direction(cmd)) * Toggles(cmd)]
  /\ UNCHANGED <<web, sched, synced, due, position, requests, reboots>>

StartMoveMutant == \E cmd \in StepCommand : StartMoveWith(cmd, motor.raised)

StartMove ==
  \E cmd \in StepCommand :
    StartMoveWith(cmd, IF cmd.op \in Moves THEN ~motor.raised
                                           ELSE motor.raised)

StepMutant ==
  /\ motor.pc = "step"
  /\ motor.i <= motor.n
  /\ motor' = [motor EXCEPT !.i = @ + 1]
  /\ pins' = [pins EXCEPT !.step = Flip(@)]
  /\ position' = IF pins.step = "Low" THEN position + Sign(pins.dir)
                                      ELSE position
  /\ UNCHANGED <<queue, web, sched, synced, due, hist, requests, reboots>>

Step ==
  /\ motor.pc = "step"
  /\ motor.i < motor.n
  /\ motor' = [motor EXCEPT !.i = @ + 1]
  /\ pins' = [pins EXCEPT !.step = Flip(@)]
  /\ position' = IF pins.step = "Low" THEN position + Sign(pins.dir)
                                      ELSE position
  /\ UNCHANGED <<queue, web, sched, synced, due, hist, requests, reboots>>

SteppingDone ==
  /\ motor.pc = "step"
  /\ motor.i = motor.n
  /\ motor' = [motor EXCEPT !.pc = "receive", !.i = 0, !.n = 0]
  /\ pins' = [pins EXCEPT !.en = "High"]
  /\ UNCHANGED <<queue, web, sched, synced, due, position, hist, requests,
                 reboots>>

-----------------------------------------------------------------------------
(***************************************************************************)
(* A restart: the /reboot handler enters deep sleep from whichever task is *)
(* free, or power is lost.  RAM is lost with the queue, the handlers and   *)
(* the motor's flag; ntp_synchronized lives in RTC memory, which only a    *)
(* power cycle clears.  The blind stays where it is: the edge that brings  *)
(* a low step pin back up finds the driver disabled.  The step ends when   *)
(* main_fallible has spawned the tasks again; Wifi, Ota and Clock model    *)
(* what comes before that, and that it may fail.                           *)
(***************************************************************************)
Restart(keepsRtc) ==
  /\ reboots < MaxReboots
  /\ reboots' = reboots + 1
  /\ queue' = << >>
  /\ web' = BootWeb
  /\ sched' = BootSched
  /\ motor' = BootMotor
  /\ pins' = BootPins
  /\ hist' = BootHist(position)
  /\ synced' = (keepsRtc /\ synced)
  /\ UNCHANGED <<due, position, requests>>

Reboot == (\E w \in WebTasks : web[w] = NoCommand) /\ Restart(TRUE)

PowerCycle == Restart(FALSE)

-----------------------------------------------------------------------------
Next ==
  \/ \E w \in WebTasks, cmd \in StepCommand : WebRequest(w, cmd)
  \/ \E w \in WebTasks : WebSend(w)
  \/ NtpSynchronizes
  \/ TimePasses
  \/ ScheduleStart
  \/ ScheduleCheck
  \/ ScheduleSend
  \/ SkipCommand
  \/ StartMove
  \/ Step
  \/ SteppingDone
  \/ Reboot
  \/ PowerCycle

Spec == Init /\ [][Next]_vars

(***************************************************************************)
(* Fairness.  The executor polls every task that is ready, and a timer     *)
(* always wakes the task that sleeps on it: weak fairness for the motor    *)
(* and for the schedule's polling loop.  A sender that found the channel   *)
(* full is woken again each time a slot frees and the run queue is first   *)
(* in first out, so it is not passed over for ever: strong fairness.       *)
(* Requests, restarts, the time of day and the NTP server are the          *)
(* environment's and are not fair.                                         *)
(***************************************************************************)
MotorTask == SkipCommand \/ StartMove \/ Step \/ SteppingDone

Fairness ==
  /\ WF_vars(MotorTask)
  /\ WF_vars(ScheduleStart)
  /\ WF_vars(ScheduleCheck)
  /\ SF_vars(ScheduleSend)
  /\ \A w \in WebTasks : SF_vars(WebSend(w))

FairSpec == Spec /\ Fairness

-----------------------------------------------------------------------------
(***************************************************************************)
(* Every variable keeps the type of the Rust value it models: the channel  *)
(* holds at most Capacity commands and the pins are logic levels.          *)
(***************************************************************************)
Level == {"High", "Low"}

TypeOK ==
  /\ queue \in Seq(StepCommand) /\ Len(queue) <= Capacity
  /\ web \in [WebTasks -> StepCommand \cup {NoCommand}]
  /\ sched \in [pc : {"sync", "check", "send"}, state : Moves \cup {"None"}]
  /\ sched.pc = "send" => sched.state \in Moves
  /\ synced \in BOOLEAN
  /\ due \in Moves
  /\ motor \in [pc : {"receive", "step"}, raised : BOOLEAN,
                i : Nat, n : Nat]
  /\ pins \in [en : Level, dir : Level, step : Level]
  /\ position \in Int
  /\ hist \in [origin : Int, jog : Int, jogged : BOOLEAN, last : Moves]
  /\ requests \in 0 .. MaxRequests
  /\ reboots \in 0 .. MaxReboots

(***************************************************************************)
(* motor_task leaves the driver disabled and the step pin at its idle      *)
(* level whenever it waits for a command: every move is a whole number of  *)
(* pulses, so no half pulse carries over into the next move.               *)
(***************************************************************************)
WholePulses ==
  motor.pc = "receive" => pins.en = "High" /\ pins.step = "High"

(***************************************************************************)
(* The motor's `raised` flag accounts for the blind exactly.  In half      *)
(* pulses since boot, the distance moved plus the distance the current     *)
(* move still has to go is what the jogs asked for, plus a full lowering   *)
(* if and only if the flag says lowered: whatever mix of handlers and      *)
(* schedule filled the channel, no Raise or Lower is applied twice.        *)
(***************************************************************************)
Moved == 2 * (position - hist.origin)
         + (IF pins.step = "Low" THEN Sign(pins.dir) ELSE 0)

ToGo == Sign(pins.dir) * (motor.n - motor.i)

TravelAccounted ==
  Moved + ToGo = hist.jog - (IF motor.raised THEN 0 ELSE FullTravel)

(***************************************************************************)
(* Until somebody jogs it, the blind stays between where it was at boot    *)
(* and one full travel below, in every state of every move.                *)
(***************************************************************************)
WithinTravel ==
  ~hist.jogged =>
    /\ 2 * (position - hist.origin) <= 0
    /\ -FullTravel <= 2 * (position - hist.origin)

(***************************************************************************)
(* The Raise or Lower the channel accepted last, from the schedule or from *)
(* a handler, decides: it is the last one waiting in the channel, or the   *)
(* motor's flag already agrees with it.                                    *)
(***************************************************************************)
LastCommandWins ==
  \/ /\ \A i \in 1 .. Len(queue) : queue[i].op \notin Moves
     /\ motor.raised <=> (hist.last = "Raise")
  \/ \E i \in 1 .. Len(queue) :
       /\ queue[i].op = hist.last
       /\ \A j \in i + 1 .. Len(queue) : queue[j].op \notin Moves

(***************************************************************************)
(* The first and the last Ramp toggles of a move are slow and all others   *)
(* fast, for every length of move: those shorter than Ramp never get to    *)
(* the unsigned `n - 100`.                                                 *)
(***************************************************************************)
RampProfile ==
  motor.pc = "step" /\ motor.i < motor.n =>
    (Speed(motor.i, motor.n) = "slow"
       <=> motor.i < Ramp \/ motor.n - motor.i <= Ramp)

(***************************************************************************)
(* motor_task finishes every move and comes back to receive.               *)
(***************************************************************************)
MotorReturns == []<>(motor.pc = "receive")

(***************************************************************************)
(* A handler that is sending a command gets it into the channel and        *)
(* answers, however full the channel was, unless a restart ends it.        *)
(***************************************************************************)
RequestsAnswered ==
  \A w \in WebTasks : (web[w] # NoCommand) ~> (web[w] = NoCommand)

(***************************************************************************)
(* Left alone by users, the blind follows the schedule: if the last boot   *)
(* found it at its top, the clock is synchronized and the action due no    *)
(* longer changes, the blind comes to rest at the top or a full travel     *)
(* below, as is due, also when the action changed while a send was waiting *)
(* or a move was under way.  After a boot with the blind anywhere else     *)
(* only the motor's flag follows, see AlreadyRaised.                       *)
(***************************************************************************)
AtRest(m) ==
  /\ motor.pc = "receive"
  /\ 2 * position = IF m = "Raise" THEN 0 ELSE -FullTravel

ScheduleFollowed ==
  \A m \in Moves :
    ([](requests = 0) /\ <>[](synced /\ due = m /\ hist.origin = 0))
      => <>[]AtRest(m)

(***************************************************************************)
(* What the log line "Already raised, skipping raise command" says of the  *)
(* blind: a Raise is skipped only when the blind is at its top.            *)
(***************************************************************************)
AlreadyRaised ==
  [][SkipCommand /\ Head(queue).op = "Raise" => position = 0]_vars

=============================================================================
