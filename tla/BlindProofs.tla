---------------------------- MODULE BlindProofs ----------------------------
(***************************************************************************)
(* Proofs about Blind for every pool of handlers, channel capacity, blind  *)
(* height, ramp and set of step counts.                                    *)
(***************************************************************************)
EXTENDS Blind, TLAPS

-----------------------------------------------------------------------------
(***************************************************************************)
(* The bounds, without the arithmetic of the other assumptions.            *)
(***************************************************************************)
LEMMA Bounds ==
  /\ Capacity \in Nat \ {0}
  /\ MaxRequests \in Nat
  /\ MaxReboots \in Nat
BY BlindAssumption

(***************************************************************************)
(* Division with remainder.                                                *)
(***************************************************************************)
LEMMA DivMod ==
  ASSUME NEW x \in Int, NEW u \in Nat \ {0}
  PROVE  x = u * (x \div u) + (x % u) /\ x % u \in 0 .. u - 1
OBVIOUS

(***************************************************************************)
(* An even number is twice an integer.                                     *)
(***************************************************************************)
LEMMA EvenHalf ==
  ASSUME NEW x \in Int, x % 2 = 0
  PROVE  \E k \in Int : x = 2 * k
OBVIOUS

(***************************************************************************)
(* Twice an integer is even.                                               *)
(***************************************************************************)
LEMMA DoubleEven ==
  ASSUME NEW x \in Int, NEW k \in Int, x = 2 * k
  PROVE  x % 2 = 0
OBVIOUS

(***************************************************************************)
(* `n * microsteps` in wrapping arithmetic is even.                        *)
(***************************************************************************)
LEMMA EvenProduct ==
  ASSUME NEW k \in Nat, NEW m \in Nat, m % 2 = 0,
         NEW u \in Nat \ {0}, u % 2 = 0
  PROVE  ((k * m) % u) % 2 = 0
<1>1. PICK a \in Int : m = 2 * a
  BY EvenHalf
<1>2. PICK b \in Int : u = 2 * b
  BY EvenHalf
<1> DEFINE q == (k * m) \div u
           r == (k * m) % u
<1>3. k * m \in Nat
  BY SMT
<1>4. q \in Int /\ r \in Int /\ k * m = u * q + r
  BY <1>3, DivMod
<1> HIDE DEF q, r
<1>5. r = 2 * (k * a - b * q)
  BY <1>1, <1>2, <1>4
<1>6. k * a - b * q \in Int
  BY <1>4
<1> QED
  BY <1>5, <1>6, <1>4, DoubleEven DEF r

(***************************************************************************)
(* The number of toggles of a move is an even usize.                       *)
(***************************************************************************)
LEMMA TogglesEven ==
  ASSUME NEW cmd \in StepCommand
  PROVE  Toggles(cmd) \in 0 .. UsizeMod - 1 /\ Toggles(cmd) % 2 = 0
<1>1. Steps(cmd) \in Nat
  <2>1. CASE cmd \in [op : Moves]
    BY <2>1, BlindAssumption DEF Steps
  <2>2. CASE cmd \in [op : Jogs, n : StepCounts]
    <3>1. cmd.op \notin Moves /\ cmd.n \in StepCounts
      BY <2>2 DEF Jogs, Moves
    <3>2. StepCounts \subseteq Nat
      BY BlindAssumption
    <3> QED
      BY <3>1, <3>2 DEF Steps
  <2> QED
    BY <2>1, <2>2 DEF StepCommand
<1> DEFINE k == Steps(cmd)
<1>2. k * Microsteps \in Int
  BY <1>1, BlindAssumption
<1> HIDE DEF k
<1>3. k \in Nat
  BY <1>1 DEF k
<1>4. (k * Microsteps) % UsizeMod \in 0 .. UsizeMod - 1
  BY <1>2, DivMod, BlindAssumption
<1>5. ((k * Microsteps) % UsizeMod) % 2 = 0
  BY <1>3, EvenProduct, BlindAssumption
<1> QED
  BY <1>4, <1>5 DEF Toggles, k

(***************************************************************************)
(* Every Raise and every Lower is a move of FullTravel toggles.            *)
(***************************************************************************)
LEMMA FullTravelMoves ==
  ASSUME NEW cmd \in StepCommand, cmd.op \in Moves
  PROVE  Toggles(cmd) = FullTravel
BY DEF Toggles, FullTravel, Steps, Moves

(***************************************************************************)
(* A full travel is a number of toggles.                                   *)
(***************************************************************************)
LEMMA FullTravelNat == FullTravel \in Nat
<1>1. [op |-> "Lower"] \in StepCommand
  BY DEF StepCommand, Moves
<1> QED
  BY <1>1, TogglesEven, BlindAssumption DEF FullTravel

-----------------------------------------------------------------------------
(***************************************************************************)
(* Type correctness: in particular the channel never holds more than       *)
(* Capacity commands, whatever handlers and schedule do.                   *)
(***************************************************************************)
THEOREM TypeCorrect == Spec => []TypeOK
<1>1. Init => TypeOK
  <2> SUFFICES ASSUME Init
               PROVE  TypeOK
    OBVIOUS
  <2>1. queue \in Seq(StepCommand) /\ Len(queue) <= Capacity
    BY Bounds DEF Init
  <2>2. web \in [WebTasks -> StepCommand \cup {NoCommand}]
    BY DEF Init, BootWeb
  <2>3. motor \in [pc : {"receive", "step"}, raised : BOOLEAN, i : Nat, n : Nat]
    BY DEF Init, BootMotor
  <2>4. requests \in 0 .. MaxRequests /\ reboots \in 0 .. MaxReboots
    BY Bounds DEF Init
  <2>5. /\ sched \in [pc : {"sync", "check", "send"}, state : Moves \cup {"None"}]
        /\ sched.pc = "send" => sched.state \in Moves
    BY DEF Init, BootSched
  <2>6. pins \in [en : Level, dir : Level, step : Level]
    BY DEF Init, BootPins, Level
  <2>7. hist \in [origin : Int, jog : Int, jogged : BOOLEAN, last : Moves]
    BY DEF Init, BootHist, Moves
  <2>8. synced \in BOOLEAN
    BY Zenon DEF Init
  <2>9. due \in Moves /\ position \in Int
    BY SMT DEF Init
  <2> QED
    BY <2>1, <2>2, <2>3, <2>4, <2>5, <2>6, <2>7, <2>8, <2>9 DEF TypeOK
<1>2. TypeOK /\ [Next]_vars => TypeOK'
  <2> SUFFICES ASSUME TypeOK, [Next]_vars
               PROVE  TypeOK'
    OBVIOUS
  <2> USE DEF TypeOK
  <2>1. ASSUME NEW w \in WebTasks, NEW cmd \in StepCommand, WebRequest(w, cmd)
        PROVE  TypeOK'
    BY <2>1, Bounds DEF WebRequest
  <2>2. ASSUME NEW w \in WebTasks, WebSend(w)
        PROVE  TypeOK'
    <3>1. web[w] \in StepCommand
      BY <2>2 DEF WebSend
    <3>2. queue' \in Seq(StepCommand) /\ Len(queue') <= Capacity
      BY <2>2, <3>1, Bounds DEF WebSend, Send
    <3>3. hist' \in [origin : Int, jog : Int, jogged : BOOLEAN, last : Moves]
      BY <2>2, <3>1 DEF WebSend, Send
    <3> QED
      BY <2>2, <3>2, <3>3 DEF WebSend
  <2>3. CASE NtpSynchronizes
    BY <2>3 DEF NtpSynchronizes
  <2>4. CASE TimePasses
    BY <2>4 DEF TimePasses
  <2>5. CASE ScheduleStart
    BY <2>5 DEF ScheduleStart
  <2>6. CASE ScheduleCheck
    BY <2>6 DEF ScheduleCheck
  <2>7. CASE ScheduleSend
    <3>1. [op |-> sched.state] \in StepCommand
      BY <2>7 DEF ScheduleSend, StepCommand
    <3>2. queue' \in Seq(StepCommand) /\ Len(queue') <= Capacity
      BY <2>7, <3>1, Bounds DEF ScheduleSend, Send
    <3>3. hist' \in [origin : Int, jog : Int, jogged : BOOLEAN, last : Moves]
      BY <2>7, <3>1 DEF ScheduleSend, Send
    <3> QED
      BY <2>7, <3>2, <3>3 DEF ScheduleSend
  <2>8. CASE SkipCommand
    <3>1. queue' \in Seq(StepCommand) /\ Len(queue') <= Capacity
      BY <2>8, Bounds DEF SkipCommand
    <3> QED
      BY <2>8, <3>1 DEF SkipCommand
  <2>9. CASE StartMove
    <3>0. motor.raised \in BOOLEAN
      OBVIOUS
    <3>1. PICK cmd \in StepCommand, flag \in BOOLEAN : StartMoveWith(cmd, flag)
      BY <2>9, <3>0, Zenon DEF StartMove
    <3>2. Toggles(cmd) \in Nat
      BY TogglesEven
    <3>3. queue' \in Seq(StepCommand) /\ Len(queue') <= Capacity
      BY <3>1, Bounds DEF StartMoveWith
    <3>4. hist' \in [origin : Int, jog : Int, jogged : BOOLEAN, last : Moves]
      <4> DEFINE d == hist.jog + Sign(Direction(cmd)) * Toggles(cmd)
      <4>1. d \in Int
        BY <3>2 DEF Sign
      <4>2. hist' = hist \/ hist' = [hist EXCEPT !.jogged = TRUE, !.jog = d]
        BY <3>1 DEF StartMoveWith
      <4> HIDE DEF d
      <4> QED
        BY <4>1, <4>2
    <3>5. pins' \in [en : Level, dir : Level, step : Level]
      BY <3>1 DEF StartMoveWith, Direction, Level
    <3> QED
      BY <3>1, <3>2, <3>3, <3>4, <3>5 DEF StartMoveWith
  <2>10. CASE Step
    <3>1. motor' \in [pc : {"receive", "step"}, raised : BOOLEAN,
                      i : Nat, n : Nat]
      BY <2>10 DEF Step
    <3>2. pins' \in [en : Level, dir : Level, step : Level]
      BY <2>10 DEF Step, Flip, Level
    <3>3. position' \in Int
      BY <2>10 DEF Step, Sign
    <3> QED
      BY <2>10, <3>1, <3>2, <3>3 DEF Step
  <2>11. CASE SteppingDone
    BY <2>11 DEF SteppingDone, Level
  <2>12. ASSUME NEW rtc \in BOOLEAN, Restart(rtc)
         PROVE  TypeOK'
    BY <2>12, Bounds DEF Restart, BootWeb, BootSched, BootMotor, BootPins, BootHist,
                 Moves, Level
  <2>13. CASE UNCHANGED vars
    BY <2>13 DEF vars
  <2> QED
    BY <2>1, <2>2, <2>3, <2>4, <2>5, <2>6, <2>7, <2>8, <2>9, <2>10, <2>11,
       <2>12, <2>13 DEF Next, Reboot, PowerCycle
<1> QED
  BY <1>1, <1>2, PTL DEF Spec

-----------------------------------------------------------------------------
(***************************************************************************)
(* Steps that leave the motor, its pins and the blind alone: every step of *)
(* the handlers, the schedule, the clock, and a skipped command.           *)
(***************************************************************************)
Quiet ==
  /\ UNCHANGED <<motor, pins, position>>
  /\ hist'.origin = hist.origin
  /\ hist'.jog = hist.jog
  /\ hist'.jogged = hist.jogged

(***************************************************************************)
(* Only the motor and a restart disturb what the blind's invariants read.  *)
(***************************************************************************)
LEMMA MotorCases ==
  ASSUME TypeOK, [Next]_vars
  PROVE  Quiet \/ StartMove \/ Step \/ SteppingDone
           \/ \E rtc \in BOOLEAN : Restart(rtc)
<1> USE DEF Quiet
<1>1. ASSUME NEW cmd, Send(cmd)
      PROVE  /\ hist'.origin = hist.origin
             /\ hist'.jog = hist.jog
             /\ hist'.jogged = hist.jogged
  BY <1>1 DEF Send, TypeOK
<1>2. ASSUME NEW w \in WebTasks, NEW cmd \in StepCommand, WebRequest(w, cmd)
      PROVE  Quiet
  BY <1>2 DEF WebRequest
<1>3. ASSUME NEW w \in WebTasks, WebSend(w)
      PROVE  Quiet
  BY <1>1, <1>3 DEF WebSend
<1>4. CASE NtpSynchronizes \/ TimePasses
  BY <1>4 DEF NtpSynchronizes, TimePasses
<1>5. CASE ScheduleStart \/ ScheduleCheck
  BY <1>5 DEF ScheduleStart, ScheduleCheck
<1>6. CASE ScheduleSend
  BY <1>1, <1>6 DEF ScheduleSend
<1>7. CASE SkipCommand
  BY <1>7 DEF SkipCommand
<1>8. CASE UNCHANGED vars
  BY <1>8 DEF vars
<1> HIDE DEF Quiet
<1> QED
  BY <1>2, <1>3, <1>4, <1>5, <1>6, <1>7, <1>8 DEF Next, Reboot, PowerCycle

(***************************************************************************)
(* The progress of a move: i counts up to an even n, the step pin is low   *)
(* after an odd number of toggles, and outside a move all is at rest.      *)
(***************************************************************************)
PulseInv ==
  /\ motor.i <= motor.n
  /\ motor.n % 2 = 0
  /\ motor.n < UsizeMod
  /\ pins.step = "Low" <=> motor.i % 2 = 1
  /\ motor.pc = "receive" => motor.i = 0 /\ motor.n = 0 /\ pins.en = "High"

(***************************************************************************)
(* The motor_task loop keeps PulseInv: `for i in 0..n` over an even n.     *)
(***************************************************************************)
LEMMA PulseInvariant == Spec => []PulseInv
<1>1. Init => PulseInv
  <2>1. UsizeMod > 0
    BY BlindAssumption
  <2> QED
    BY <2>1 DEF Init, PulseInv, BootMotor, BootPins
<1>2. TypeOK /\ PulseInv /\ [Next]_vars => PulseInv'
  <2> SUFFICES ASSUME TypeOK, PulseInv, [Next]_vars
               PROVE  PulseInv'
    OBVIOUS
  <2>1. CASE Quiet
    BY <2>1 DEF Quiet, PulseInv
  <2>2. CASE StartMove
    <3>1. PICK cmd \in StepCommand : \E flag : StartMoveWith(cmd, flag)
      BY <2>2, Zenon DEF StartMove
    <3>2. pins.step # "Low"
      BY <3>1 DEF StartMoveWith, PulseInv
    <3>3. /\ motor'.pc = "step" /\ motor'.i = 0 /\ motor'.n = Toggles(cmd)
          /\ pins'.step = pins.step
      BY <3>1 DEF StartMoveWith, TypeOK
    <3>4. motor'.n \in 0 .. UsizeMod - 1 /\ motor'.n % 2 = 0
      BY <3>3, TogglesEven
    <3>5. UsizeMod \in Nat
      BY BlindAssumption
    <3> QED
      BY <3>2, <3>3, <3>4, <3>5 DEF PulseInv
  <2>3. CASE Step
    <3>1. /\ motor'.pc = "step" /\ motor'.i = motor.i + 1 /\ motor'.n = motor.n
          /\ motor.i < motor.n
          /\ pins'.step = Flip(pins.step)
      BY <2>3 DEF Step, TypeOK
    <3>2. motor.i \in Nat /\ motor.n \in Nat /\ pins.step \in Level
      BY DEF TypeOK
    <3>3. motor'.i % 2 = 1 <=> motor.i % 2 # 1
      BY <3>1, <3>2
    <3>4. pins'.step = "Low" <=> pins.step # "Low"
      BY <3>1, <3>2 DEF Flip, Level
    <3> QED
      BY <3>1, <3>2, <3>3, <3>4 DEF PulseInv
  <2>4. CASE SteppingDone
    <3>1. /\ motor.i = motor.n
          /\ motor'.pc = "receive" /\ motor'.i = 0 /\ motor'.n = 0
          /\ pins'.en = "High" /\ pins'.step = pins.step
      BY <2>4 DEF SteppingDone, TypeOK
    <3>2. pins.step # "Low"
      BY <3>1 DEF PulseInv, TypeOK
    <3>3. UsizeMod > 0
      BY BlindAssumption
    <3> QED
      BY <3>1, <3>2, <3>3 DEF PulseInv
  <2>5. ASSUME NEW rtc \in BOOLEAN, Restart(rtc)
        PROVE  PulseInv'
    <3>1. UsizeMod > 0
      BY BlindAssumption
    <3> QED
      BY <2>5, <3>1 DEF Restart, BootMotor, BootPins, PulseInv
  <2> QED
    BY MotorCases, <2>1, <2>2, <2>3, <2>4, <2>5
<1> QED
  BY <1>1, <1>2, TypeCorrect, PTL DEF Spec

(***************************************************************************)
(* Whenever motor_task waits for a command the driver is disabled and the  *)
(* step pin is at its idle level.                                          *)
(***************************************************************************)
THEOREM PulsesAreWhole == Spec => []WholePulses
<1>1. TypeOK /\ PulseInv => WholePulses
  BY DEF TypeOK, PulseInv, WholePulses, Level
<1> QED
  BY <1>1, TypeCorrect, PulseInvariant, PTL

(***************************************************************************)
(* The ramp is symmetric for every length of move: where `n - 100` would   *)
(* wrap, the test on i in front of it has already decided.                 *)
(***************************************************************************)
THEOREM RampIsSymmetric == Spec => []RampProfile
<1>1. TypeOK /\ PulseInv => RampProfile
  <2> SUFFICES ASSUME TypeOK, PulseInv, motor.pc = "step", motor.i < motor.n
               PROVE  Speed(motor.i, motor.n) = "slow"
                        <=> motor.i < Ramp \/ motor.n - motor.i <= Ramp
    BY DEF RampProfile
  <2>1. /\ motor.i \in Nat /\ motor.n \in Nat /\ Ramp \in Nat
        /\ UsizeMod \in Nat \ {0} /\ motor.n < UsizeMod
    BY BlindAssumption DEF TypeOK, PulseInv
  <2>2. CASE motor.i < Ramp
    BY <2>2 DEF Speed
  <2>3. CASE ~(motor.i < Ramp)
    <3>1. (motor.n - Ramp) % UsizeMod = motor.n - Ramp
      BY <2>1, <2>3
    <3> QED
      BY <2>1, <2>3, <3>1 DEF Speed
  <2> QED
    BY <2>2, <2>3
<1> QED
  BY <1>1, TypeCorrect, PulseInvariant, PTL

-----------------------------------------------------------------------------
(***************************************************************************)
(* What the accounts need of a move under way while nobody has jogged the  *)
(* blind: it is a full travel in the direction of the motor's flag.        *)
(***************************************************************************)
CourseInv ==
  ~hist.jogged =>
    /\ hist.jog = 0
    /\ motor.pc = "step" =>
         /\ motor.n = FullTravel
         /\ pins.dir = IF motor.raised THEN "High" ELSE "Low"

(***************************************************************************)
(* What the start of a move does to the motor's flag and to the accounts,  *)
(* for both kinds of command.                                              *)
(***************************************************************************)
MoveStarted(cmd) ==
  /\ motor.pc = "receive" /\ motor'.pc = "step"
  /\ motor'.i = 0 /\ motor'.n = Toggles(cmd)
  /\ pins'.dir = Direction(cmd) /\ pins'.step = pins.step
  /\ position' = position /\ hist'.origin = hist.origin
  /\ \/ /\ cmd.op \in Moves
        /\ cmd.op = (IF motor.raised THEN "Lower" ELSE "Raise")
        /\ motor'.raised = ~motor.raised
        /\ hist' = hist
     \/ /\ cmd.op \notin Moves
        /\ motor'.raised = motor.raised
        /\ hist'.jogged = TRUE
        /\ hist'.jog = hist.jog + Sign(Direction(cmd)) * Toggles(cmd)

(***************************************************************************)
(* StartMove is MoveStarted for some command.                              *)
(***************************************************************************)
LEMMA StartMoveCases ==
  ASSUME TypeOK, StartMove
  PROVE  \E cmd \in StepCommand : MoveStarted(cmd)
<1> USE DEF MoveStarted
<1>1. PICK cmd \in StepCommand :
        StartMoveWith(cmd, IF cmd.op \in Moves THEN ~motor.raised
                                               ELSE motor.raised)
  BY DEF StartMove
<1>2. /\ motor.pc = "receive" /\ motor'.pc = "step"
      /\ motor'.i = 0 /\ motor'.n = Toggles(cmd)
      /\ pins'.dir = Direction(cmd) /\ pins'.step = pins.step
      /\ position' = position /\ hist'.origin = hist.origin
  BY <1>1 DEF StartMoveWith, TypeOK
<1>3. CASE cmd.op \in Moves
  <2>1. motor'.raised = ~motor.raised /\ hist' = hist
    BY <1>1, <1>3 DEF StartMoveWith
  <2>2. cmd.op = (IF motor.raised THEN "Lower" ELSE "Raise")
    BY <1>1, <1>3 DEF StartMoveWith, Redundant, Moves
  <2> QED
    BY <1>2, <1>3, <2>1, <2>2
<1>4. CASE cmd.op \notin Moves
  <2>1. motor'.raised = motor.raised
    BY <1>1, <1>4 DEF StartMoveWith
  <2>2. /\ hist'.jogged = TRUE
        /\ hist'.jog = hist.jog + Sign(Direction(cmd)) * Toggles(cmd)
    BY <1>1, <1>4 DEF StartMoveWith, TypeOK
  <2> QED
    BY <1>2, <1>4, <2>1, <2>2
<1> QED
  BY <1>3, <1>4

(***************************************************************************)
(* The flag accounts for the blind: distance moved plus distance to go is  *)
(* what the jogs asked for, plus a full lowering if the flag says so.      *)
(***************************************************************************)
THEOREM TravelIsAccounted == Spec => []TravelAccounted
<1>1. Init => TravelAccounted
  BY DEF Init, TravelAccounted, Moved, ToGo, BootMotor, BootPins, BootHist,
         Sign
<1>2. TypeOK /\ PulseInv /\ TravelAccounted /\ [Next]_vars => TravelAccounted'
  <2> SUFFICES ASSUME TypeOK, PulseInv, TravelAccounted, [Next]_vars
               PROVE  TravelAccounted'
    OBVIOUS
  <2>1. CASE Quiet
    BY <2>1 DEF Quiet, TravelAccounted, Moved, ToGo
  <2>2. CASE StartMove
    <3>1. PICK cmd \in StepCommand : MoveStarted(cmd)
      BY <2>2, StartMoveCases
    <3> USE DEF MoveStarted
    <3> DEFINE t == Toggles(cmd)
               d == position - hist.origin
    <3>2. t \in Int /\ d \in Int /\ FullTravel \in Int /\ hist.jog \in Int
      BY TogglesEven, FullTravelNat DEF TypeOK
    <3>3. 2 * d = hist.jog - (IF motor.raised THEN 0 ELSE FullTravel)
      BY <3>1, <3>2 DEF PulseInv, TravelAccounted, Moved, ToGo, Sign
    <3>4. Moved' = 2 * d
      <4>1. pins'.step # "Low"
        BY <3>1 DEF PulseInv
      <4> QED
        BY <3>1, <3>2, <4>1 DEF Moved
    <3>5. ToGo' = Sign(Direction(cmd)) * t
      BY <3>1, <3>2 DEF ToGo, Sign
    <3> HIDE DEF t, d
    <3>6. CASE cmd.op \in Moves
      <4>1. t = FullTravel
        BY <3>6, FullTravelMoves DEF t
      <4>2. CASE motor.raised
        <5>1. ~motor'.raised /\ hist'.jog = hist.jog /\ cmd.op = "Lower"
          BY <3>1, <3>6, <4>2
        <5>2. ToGo' = -t
          BY <3>5, <3>2, <5>1 DEF Direction, Sign
        <5> QED
          BY <5>1, <5>2, <4>1, <4>2, <3>2, <3>3, <3>4 DEF TravelAccounted
      <4>3. CASE ~motor.raised
        <5>1. motor'.raised /\ hist'.jog = hist.jog /\ cmd.op = "Raise"
          BY <3>1, <3>6, <4>3
        <5>2. ToGo' = t
          BY <3>5, <3>2, <5>1 DEF Direction, Sign
        <5> QED
          BY <5>1, <5>2, <4>1, <4>3, <3>2, <3>3, <3>4 DEF TravelAccounted
      <4> QED
        BY <4>2, <4>3
    <3>7. CASE cmd.op \notin Moves
      <4>1. motor'.raised = motor.raised /\ hist'.jog = hist.jog + ToGo'
        BY <3>1, <3>5, <3>7 DEF t
      <4>2. ToGo' \in Int
        BY <3>2, <3>5 DEF Sign
      <4> QED
        BY <4>1, <4>2, <3>2, <3>3, <3>4 DEF TravelAccounted
    <3> QED
      BY <3>6, <3>7
  <2>3. CASE Step
    <3>1. /\ motor'.i = motor.i + 1 /\ motor'.n = motor.n
          /\ motor'.raised = motor.raised /\ hist' = hist
          /\ pins'.dir = pins.dir /\ pins'.step = Flip(pins.step)
          /\ position' = IF pins.step = "Low" THEN position + Sign(pins.dir)
                                              ELSE position
      BY <2>3 DEF Step, TypeOK
    <3>2. /\ motor.i \in Int /\ motor.n \in Int /\ position \in Int
          /\ hist.origin \in Int /\ Sign(pins.dir) \in {-1, 1}
          /\ pins.step \in {"High", "Low"}
      BY DEF TypeOK, Sign, Level
    <3>3. Moved' = Moved + Sign(pins.dir)
      <4>1. CASE pins.step = "Low"
        BY <4>1, <3>1, <3>2 DEF Moved, Flip
      <4>2. CASE pins.step = "High"
        BY <4>2, <3>1, <3>2 DEF Moved, Flip
      <4> QED
        BY <3>2, <4>1, <4>2
    <3>4. ToGo' = ToGo - Sign(pins.dir)
      BY <3>1, <3>2 DEF ToGo
    <3>5. Moved \in Int /\ ToGo \in Int
      BY <3>2 DEF Moved, ToGo
    <3>6. Moved' + ToGo' = Moved + ToGo
      BY <3>2, <3>3, <3>4, <3>5
    <3> QED
      BY <3>1, <3>6 DEF TravelAccounted
  <2>4. CASE SteppingDone
    <3>1. /\ motor.i = motor.n /\ motor'.i = 0 /\ motor'.n = 0
          /\ motor'.raised = motor.raised /\ hist' = hist
          /\ pins'.dir = pins.dir /\ pins'.step = pins.step
          /\ position' = position
      BY <2>4 DEF SteppingDone, TypeOK
    <3>2. Moved' = Moved
      BY <3>1 DEF Moved
    <3>3. ToGo = 0 /\ ToGo' = 0
      BY <3>1 DEF ToGo, TypeOK, Sign
    <3> QED
      BY <3>1, <3>2, <3>3 DEF TravelAccounted
  <2>5. ASSUME NEW rtc \in BOOLEAN, Restart(rtc)
        PROVE  TravelAccounted'
    BY <2>5 DEF Restart, BootMotor, BootPins, BootHist, TravelAccounted,
                Moved, ToGo, Sign, TypeOK
  <2> QED
    BY MotorCases, <2>1, <2>2, <2>3, <2>4, <2>5
<1> QED
  BY <1>1, <1>2, TypeCorrect, PulseInvariant, PTL DEF Spec

(***************************************************************************)
(* CourseInv is kept by every step: a jog sets the history's flag for good *)
(* until the next restart.                                                 *)
(***************************************************************************)
LEMMA CourseInvariant == Spec => []CourseInv
<1>1. Init => CourseInv
  BY DEF Init, CourseInv, BootMotor, BootHist
<1>2. TypeOK /\ CourseInv /\ [Next]_vars => CourseInv'
  <2> SUFFICES ASSUME TypeOK, CourseInv, [Next]_vars
               PROVE  CourseInv'
    OBVIOUS
  <2>1. CASE Quiet
    BY <2>1 DEF Quiet, CourseInv
  <2>2. CASE StartMove
    <3>1. PICK cmd \in StepCommand : MoveStarted(cmd)
      BY <2>2, StartMoveCases
    <3>2. CASE cmd.op \in Moves
      <4>1. motor'.n = FullTravel /\ hist' = hist
        BY <3>1, <3>2, FullTravelMoves DEF MoveStarted
      <4>2. pins'.dir = IF motor'.raised THEN "High" ELSE "Low"
        BY <3>1, <3>2 DEF MoveStarted, Direction
      <4> QED
        BY <4>1, <4>2 DEF CourseInv
    <3>3. CASE cmd.op \notin Moves
      BY <3>1, <3>3 DEF MoveStarted, CourseInv
    <3> QED
      BY <3>2, <3>3
  <2>3. CASE Step
    BY <2>3 DEF Step, CourseInv, TypeOK
  <2>4. CASE SteppingDone
    BY <2>4 DEF SteppingDone, CourseInv, TypeOK
  <2>5. ASSUME NEW rtc \in BOOLEAN, Restart(rtc)
        PROVE  CourseInv'
    BY <2>5 DEF Restart, BootMotor, BootHist, CourseInv
  <2> QED
    BY MotorCases, <2>1, <2>2, <2>3, <2>4, <2>5
<1> QED
  BY <1>1, <1>2, TypeCorrect, PTL DEF Spec

(***************************************************************************)
(* Until somebody jogs it, the blind never leaves the travel between its   *)
(* position at boot and one full lowering below it.                        *)
(***************************************************************************)
THEOREM TravelIsBounded == Spec => []WithinTravel
<1>1. TypeOK /\ PulseInv /\ TravelAccounted /\ CourseInv => WithinTravel
  <2> SUFFICES ASSUME TypeOK, PulseInv, TravelAccounted, CourseInv,
                      ~hist.jogged
               PROVE  /\ 2 * (position - hist.origin) <= 0
                      /\ -FullTravel <= 2 * (position - hist.origin)
    BY DEF WithinTravel
  <2> DEFINE d == 2 * (position - hist.origin)
  <2>1. /\ d \in Int /\ FullTravel \in Nat
        /\ motor.i \in Nat /\ motor.n \in Nat /\ motor.i <= motor.n
        /\ pins.dir \in {"High", "Low"}
    BY FullTravelNat DEF TypeOK, PulseInv, Level
  <2>2. pins.step = "Low" => motor.i >= 1
    BY <2>1 DEF PulseInv
  <2>3. Moved + ToGo = -(IF motor.raised THEN 0 ELSE FullTravel)
    BY <2>1 DEF TravelAccounted, CourseInv
  <2>4. Moved = d + (IF pins.step = "Low" THEN Sign(pins.dir) ELSE 0)
    BY DEF Moved
  <2>5. ToGo = Sign(pins.dir) * (motor.n - motor.i)
    BY DEF ToGo
  <2> HIDE DEF d
  <2>6. CASE motor.pc = "receive"
    <3>1. motor.i = 0 /\ motor.n = 0 /\ pins.step # "Low"
      BY <2>6, <2>2 DEF PulseInv
    <3>2. Moved = d /\ ToGo = 0
      BY <2>1, <2>4, <2>5, <3>1 DEF Sign
    <3> QED
      BY <2>1, <2>3, <3>2 DEF d
  <2>7. CASE motor.pc = "step" /\ motor.raised
    <3>1. motor.n = FullTravel /\ Sign(pins.dir) = 1
      BY <2>7 DEF CourseInv, Sign
    <3>2. d + (IF pins.step = "Low" THEN 1 ELSE 0) + (FullTravel - motor.i) = 0
      BY <2>1, <2>3, <2>4, <2>5, <2>7, <3>1
    <3> QED
      BY <2>1, <2>2, <3>1, <3>2 DEF d
  <2>8. CASE motor.pc = "step" /\ ~motor.raised
    <3>1. motor.n = FullTravel /\ Sign(pins.dir) = -1
      BY <2>8 DEF CourseInv, Sign
    <3>2. d + (IF pins.step = "Low" THEN -1 ELSE 0) - (FullTravel - motor.i)
            = -FullTravel
      BY <2>1, <2>3, <2>4, <2>5, <2>8, <3>1
    <3> QED
      BY <2>1, <2>2, <3>1, <3>2 DEF d
  <2> QED
    BY <2>6, <2>7, <2>8 DEF TypeOK
<1> QED
  BY <1>1, TypeCorrect, PulseInvariant, TravelIsAccounted, CourseInvariant, PTL

-----------------------------------------------------------------------------
(***************************************************************************)
(* The last Raise or Lower the channel accepted is the last one waiting,   *)
(* or the motor's flag agrees with it: a command is never overtaken.       *)
(***************************************************************************)
THEOREM LastCommandIsFollowed == Spec => []LastCommandWins
<1>1. Init => LastCommandWins
  BY DEF Init, LastCommandWins, BootMotor, BootHist
<1>2. TypeOK /\ LastCommandWins /\ [Next]_vars => LastCommandWins'
  <2> SUFFICES ASSUME TypeOK, LastCommandWins, [Next]_vars
               PROVE  LastCommandWins'
    OBVIOUS
  <2>1. queue \in Seq(StepCommand)
    BY DEF TypeOK
  <2>2. ASSUME NEW cmd \in StepCommand, Send(cmd), motor' = motor
        PROVE  LastCommandWins'
    <3>1. /\ queue' \in Seq(StepCommand)
          /\ Len(queue') = Len(queue) + 1 /\ queue'[Len(queue) + 1] = cmd
          /\ \A i \in 1 .. Len(queue) : queue'[i] = queue[i]
      BY <2>1, <2>2 DEF Send
    <3>2. CASE cmd.op \in Moves
      <4>1. hist'.last = cmd.op
        BY <2>2, <3>2 DEF Send, TypeOK
      <4> QED
        BY <2>1, <3>1, <4>1 DEF LastCommandWins
    <3>3. CASE cmd.op \notin Moves
      <4>1. hist' = hist
        BY <2>2, <3>3 DEF Send
      <4> QED
        BY <2>1, <2>2, <3>1, <3>3, <4>1 DEF LastCommandWins
    <3> QED
      BY <3>2, <3>3
  <2>3. ASSUME queue # << >>, queue' = Tail(queue), hist'.last = hist.last,
               IF Head(queue).op \in Moves
                 THEN motor'.raised <=> (Head(queue).op = "Raise")
                 ELSE motor'.raised = motor.raised
        PROVE  LastCommandWins'
    <3>1. /\ queue' \in Seq(StepCommand) /\ Len(queue) \in Nat \ {0}
          /\ Len(queue') = Len(queue) - 1 /\ Head(queue) = queue[1]
          /\ \A i \in 1 .. Len(queue) - 1 : queue'[i] = queue[i + 1]
      BY <2>1, <2>3
    <3>2. CASE \A i \in 1 .. Len(queue) : queue[i].op \notin Moves
      BY <2>3, <3>1, <3>2 DEF LastCommandWins, TypeOK
    <3>3. CASE \E i \in 1 .. Len(queue) :
                 /\ queue[i].op = hist.last
                 /\ \A j \in i + 1 .. Len(queue) : queue[j].op \notin Moves
      <4>1. PICK i \in 1 .. Len(queue) :
              /\ queue[i].op = hist.last
              /\ \A j \in i + 1 .. Len(queue) : queue[j].op \notin Moves
        BY <3>3
      <4>2. CASE i = 1
        <5>1. Head(queue).op \in Moves /\ Head(queue).op = hist.last
          BY <3>1, <4>1, <4>2 DEF TypeOK
        <5>2. motor'.raised <=> (hist'.last = "Raise")
          BY <2>3, <5>1
        <5>3. \A j \in 1 .. Len(queue') : queue'[j].op \notin Moves
          BY <3>1, <4>1, <4>2
        <5> QED
          BY <5>2, <5>3 DEF LastCommandWins
      <4>3. CASE i # 1
        <5>1. i - 1 \in 1 .. Len(queue') /\ queue'[i - 1].op = hist'.last
          BY <2>3, <3>1, <4>1, <4>3
        <5>2. \A j \in (i - 1) + 1 .. Len(queue') : queue'[j].op \notin Moves
          BY <3>1, <4>1, <4>3
        <5> QED
          BY <5>1, <5>2 DEF LastCommandWins
      <4> QED
        BY <4>2, <4>3
    <3> QED
      BY <3>2, <3>3 DEF LastCommandWins
  <2>4. ASSUME queue' = queue, hist'.last = hist.last,
               motor'.raised = motor.raised
        PROVE  LastCommandWins'
    BY <2>4 DEF LastCommandWins
  <2>5. ASSUME NEW w \in WebTasks, NEW cmd \in StepCommand, WebRequest(w, cmd)
        PROVE  LastCommandWins'
    BY <2>4, <2>5 DEF WebRequest
  <2>6. ASSUME NEW w \in WebTasks, WebSend(w)
        PROVE  LastCommandWins'
    <3>1. web[w] \in StepCommand
      BY <2>6 DEF WebSend, TypeOK
    <3> QED
      BY <2>2, <2>6, <3>1 DEF WebSend
  <2>7. CASE NtpSynchronizes \/ TimePasses
    BY <2>4, <2>7 DEF NtpSynchronizes, TimePasses
  <2>8. CASE ScheduleStart \/ ScheduleCheck
    BY <2>4, <2>8 DEF ScheduleStart, ScheduleCheck
  <2>9. CASE ScheduleSend
    <3>1. [op |-> sched.state] \in StepCommand
      BY <2>9 DEF ScheduleSend, StepCommand, TypeOK
    <3> QED
      BY <2>2, <2>9, <3>1 DEF ScheduleSend
  <2>10. CASE SkipCommand
    <3>1. motor' = motor /\ hist' = hist
      BY <2>10 DEF SkipCommand
    <3>2. Head(queue).op \in Moves
            /\ (motor'.raised <=> (Head(queue).op = "Raise"))
      BY <2>10, <3>1 DEF SkipCommand, Redundant, Moves, TypeOK
    <3> QED
      BY <2>3, <2>10, <3>1, <3>2 DEF SkipCommand
  <2>11. CASE StartMove
    <3>1. PICK cmd \in StepCommand :
            StartMoveWith(cmd, IF cmd.op \in Moves THEN ~motor.raised
                                                   ELSE motor.raised)
      BY <2>11 DEF StartMove
    <3>2. /\ queue # << >> /\ queue' = Tail(queue) /\ cmd = Head(queue)
          /\ hist'.last = hist.last
      BY <3>1 DEF StartMoveWith, TypeOK
    <3>3. cmd.op \in Moves => (motor'.raised <=> (cmd.op = "Raise"))
      BY <3>1 DEF StartMoveWith, Redundant, Moves, TypeOK
    <3>4. cmd.op \notin Moves => motor'.raised = motor.raised
      BY <3>1 DEF StartMoveWith
    <3> QED
      BY <2>3, <3>2, <3>3, <3>4
  <2>12. CASE Step \/ SteppingDone
    BY <2>4, <2>12 DEF Step, SteppingDone, TypeOK
  <2>13. ASSUME NEW rtc \in BOOLEAN, Restart(rtc)
         PROVE  LastCommandWins'
    BY <2>13 DEF Restart, BootMotor, BootHist, LastCommandWins
  <2>14. CASE UNCHANGED vars
    BY <2>4, <2>14 DEF vars
  <2> QED
    BY <2>5, <2>6, <2>7, <2>8, <2>9, <2>10, <2>11, <2>12, <2>13, <2>14
       DEF Next, Reboot, PowerCycle
<1> QED
  BY <1>1, <1>2, TypeCorrect, PTL DEF Spec

=============================================================================
