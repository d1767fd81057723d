------------------------------ MODULE Pendulum ------------------------------
(***************************************************************************)
(* The firmware of the inverted pendulum (demos/inverted_pendulum/         *)
(* inverted_pendulum_tier1 and _tier2, src/main.cpp): start-up, then a     *)
(* loop that publishes the sensors, takes the latest velocity command and  *)
(* drives the stepper.  A watchdog counts the cycles without a command.    *)
(* The tiers differ in the codecs, and Tier 1 sets the clock at start-up.  *)
(*                                                                         *)
(* The command buffer is the atomic register that DoubleBuffer is shown to *)
(* implement; the read task stores a command and counts it in two steps.   *)
(* Commands come from a network that may lose, repeat, delay and reorder   *)
(* them, so any velocity may arrive at any time, or none ever again.       *)
(* Every call of the stepper driver and of the sensors may fail.           *)
(*                                                                         *)
(* The two sensors, the position of the stepper and the encoder of the     *)
(* pendulum, are calibrated and read one after the other while the rig     *)
(* moves.  The control thread of the client publishes whatever the state   *)
(* buffer holds, at any time once the client is up, also after main() has  *)
(* returned; state is what it would publish.                               *)
(***************************************************************************)
EXTENDS Integers

CONSTANTS Positions,      \* raw positions of a sensor
          Velocities,     \* velocities commands carry
          NaN,            \* the velocity that is not finite
          MinVel, MaxVel, \* slowest and fastest velocity the driver can step
          TimeoutCycles,  \* kCommandTimeoutCycles
          MaxCommands     \* bound: commands accepted in a behaviour

ASSUME PendulumAssumption ==
  /\ Positions # {} /\ Positions \subseteq Int
  /\ NaN \notin Int /\ Velocities \subseteq Int \cup {NaN}
  /\ MinVel \in Nat \ {0} /\ MaxVel \in Nat /\ MinVel <= MaxVel
  /\ TimeoutCycles \in Nat /\ MaxCommands \in Nat

VARIABLES
  stage,     \* where main() is
  clientUp,  \* the client is initialized and its read task runs
  latest,    \* the command buffer: number and velocity of the last command
  accepted,  \* accepted_command_count()
  storing,   \* the read task has stored a command it has not counted yet
  last,      \* last_command_count
  cycles,    \* cycles_since_command
  velocity,  \* stepper_angular_velocity
  motor,     \* what the stepper does: direction (0: stopped) and speed
  position,  \* raw positions of the sensors
  offset,    \* stepper_angle_offset, encoder_angle_offset
  angle,     \* stepper_angle, encoder_angle
  state,     \* the state buffer: the angles the control thread publishes
  (* history variables *)
  base,      \* last_command_count when the loop began
  source,    \* number of the command velocity was taken from
  quiet,     \* cycles completed since the last count, at most Silence
  driverOk   \* no driver call of the last cycle failed

vars == <<stage, clientUp, latest, accepted, storing, last, cycles, velocity,
          motor, position, offset, angle, state, base, source, quiet, driverOk>>
readTask == <<latest, accepted, storing>>
loop     == <<last, cycles, velocity, base, source>>
sensors  == <<position, offset, angle, state>>

Sensors == {"stepper", "encoder"}

(* Cycles after a command by which the watchdog has stopped the stepper:   *)
(* the one under way, the one that takes the command, TimeoutCycles of     *)
(* waiting and the one that stops.                                         *)
Silence == TimeoutCycles + 3

Init == /\ stage = "devices" /\ clientUp = FALSE
        /\ latest = [num |-> 0, vel |-> 0]
        /\ accepted = 0 /\ storing = FALSE
        /\ last = 0 /\ cycles = 0 /\ velocity = 0
        /\ motor = [dir |-> 0, speed |-> 0]
        /\ position \in [Sensors -> Positions]
        /\ offset = [s \in Sensors |-> 0] /\ angle = offset /\ state = offset
        /\ base = 0 /\ source = 0 /\ quiet = 0 /\ driverOk = TRUE

LoopStages == {"sense", "sense_encoder", "write", "count", "read", "apply"}

-----------------------------------------------------------------------------
(* The read task: write_command_to_buffer(), then the count. *)

StoreCommand(v) ==
  /\ clientUp /\ ~storing /\ latest.num < MaxCommands
  /\ latest' = [num |-> latest.num + 1, vel |-> v]
  /\ storing' = TRUE
  /\ UNCHANGED <<stage, clientUp, accepted, loop, motor, sensors, quiet, driverOk>>

CountCommand ==
  /\ storing
  /\ storing' = FALSE
  /\ accepted' = accepted + 1
  /\ quiet' = 0
  /\ UNCHANGED <<stage, clientUp, latest, loop, motor, sensors, driverOk>>

(* External: the pendulum swings, or the stepper turns. *)
Move(s, p) ==
  /\ p # position[s] /\ position' = [position EXCEPT ![s] = p]
  /\ UNCHANGED <<stage, clientUp, readTask, loop, motor, offset, angle, state, quiet,
                 driverOk>>

-----------------------------------------------------------------------------
(* Start-up.  Each stage is passed, or main() returns; the two waits for   *)
(* the network also go round until their time is over.  With an address    *)
(* Tier 1 sets its clock and Tier 2 goes on to the client.                 *)

GoTo(next) == stage' \in {next, "returned"}

StartUp ==
  /\ \/ stage = "devices" /\ GoTo("wifi")
     \/ stage = "wifi" /\ (GoTo("ip") \/ stage' = "wifi")
     \/ stage = "ip" /\ (GoTo("ntp") \/ GoTo("client") \/ stage' = "ip")
     \/ stage = "enable" /\ GoTo("position")
  /\ UNCHANGED <<clientUp, readTask, loop, motor, sensors, quiet, driverOk>>

(* sync_time_from_ntp(): main() goes on whether or not the clock is set,   *)
(* so a state may carry a wrong stamp.                                     *)
SyncTime ==
  /\ stage = "ntp" /\ stage' = "client"
  /\ UNCHANGED <<clientUp, readTask, loop, motor, sensors, quiet, driverOk>>

(* client.init(50) *)
InitClient ==
  /\ stage = "client"
  /\ \/ stage' = "enable" /\ clientUp' = TRUE
     \/ stage' = "returned" /\ UNCHANGED clientUp
  /\ UNCHANGED <<readTask, loop, motor, sensors, quiet, driverOk>>

(* A sensor is where its angle is zero from now on. *)
Zero(s) == offset' = [offset EXCEPT ![s] = position[s]]

CalibrateStepper ==
  /\ stage = "position"
  /\ \/ stage' = "encoder" /\ Zero("stepper")
     \/ stage' = "returned" /\ UNCHANGED offset
  /\ UNCHANGED <<clientUp, readTask, loop, motor, position, angle, state, quiet, driverOk>>

(* The encoder offset, then the first accepted_command_count(). *)
Calibrate ==
  /\ stage = "encoder"
  /\ \/ /\ stage' = "sense" /\ Zero("encoder")
        /\ last' = accepted /\ base' = accepted
        /\ cycles' = 0
     \/ stage' = "returned" /\ UNCHANGED <<offset, last, base, cycles>>
  /\ UNCHANGED <<clientUp, readTask, velocity, source, motor, position, angle, state,
                 quiet, driverOk>>

-----------------------------------------------------------------------------
(* The control loop. *)

Measure(s) == angle' = [angle EXCEPT ![s] = position[s] - offset[s]]

(* Read a sensor, or keep its old angle if that fails. *)
SenseStepper ==
  /\ stage = "sense" /\ stage' = "sense_encoder"
  /\ Measure("stepper") \/ UNCHANGED angle
  /\ UNCHANGED <<clientUp, readTask, loop, motor, position, offset, state, quiet,
                 driverOk>>

(* Mutant of SenseEncoder: without the encoder the cycle writes no state. *)
SenseEncoderOrSkip ==
  /\ stage = "sense_encoder"
  /\ \/ stage' = "write" /\ Measure("encoder")
     \/ stage' = "count" /\ UNCHANGED angle
  /\ UNCHANGED <<clientUp, readTask, loop, motor, position, offset, state, quiet,
                 driverOk>>

SenseEncoder ==
  /\ stage = "sense_encoder" /\ stage' = "write"
  /\ Measure("encoder") \/ UNCHANGED angle
  /\ UNCHANGED <<clientUp, readTask, loop, motor, position, offset, state, quiet,
                 driverOk>>

(* write_state() *)
WriteState ==
  /\ stage = "write" /\ stage' = "count"
  /\ state' = angle
  /\ UNCHANGED <<clientUp, readTask, loop, motor, position, offset, angle, quiet,
                 driverOk>>

(* A new command has been counted: it will be read in this cycle. *)
NoteCommand == stage' = "read" /\ last' = accepted /\ cycles' = 0 /\ UNCHANGED velocity

(* Mutant of WaitOrStop: the count of cycles goes one too far. *)
WaitTooLong ==
  /\ stage' = "apply"
  /\ IF cycles <= TimeoutCycles
       THEN cycles' = cycles + 1 /\ UNCHANGED velocity
       ELSE velocity' = 0 /\ UNCHANGED cycles
  /\ UNCHANGED last

(* No new command: another cycle without one, or one too many. *)
WaitOrStop ==
  /\ stage' = "apply"
  /\ IF cycles < TimeoutCycles
       THEN cycles' = cycles + 1 /\ UNCHANGED velocity
       ELSE velocity' = 0 /\ UNCHANGED cycles
  /\ UNCHANGED last

(* Mutant of LoadCount: the command that ends a timeout is only counted. *)
LoadCountSwallows ==
  /\ stage = "count"
  /\ IF accepted = last THEN WaitOrStop
     ELSE IF cycles < TimeoutCycles THEN NoteCommand
     ELSE stage' = "apply" /\ last' = accepted /\ cycles' = 0 /\ UNCHANGED velocity
  /\ UNCHANGED <<clientUp, readTask, base, source, motor, sensors, quiet, driverOk>>

LoadCount ==
  /\ stage = "count"
  /\ IF accepted # last THEN NoteCommand ELSE WaitOrStop
  /\ UNCHANGED <<clientUp, readTask, base, source, motor, sensors, quiet, driverOk>>

ReadCommand ==
  /\ stage = "read" /\ stage' = "apply"
  /\ velocity' = latest.vel /\ source' = latest.num
  /\ UNCHANGED <<clientUp, readTask, last, cycles, base, motor, sensors, quiet, driverOk>>

(* set_stepper_angular_vel() *)
Abs(v) == IF v < 0 THEN -v ELSE v
CanStep(v) == v # NaN /\ Abs(v) \in MinVel .. MaxVel
Stopped == [motor EXCEPT !.dir = 0]
Running(v) == [dir |-> IF v > 0 THEN 1 ELSE -1, speed |-> Abs(v)]

(* All calls succeed. *)
DriveOk ==
  /\ motor' = IF CanStep(velocity) THEN Running(velocity) ELSE Stopped
  /\ driverOk' = TRUE

(* The stop or the new interval is refused, or the interval is taken and   *)
(* the run refused: the stepper goes on in its direction.                  *)
DriveFails ==
  /\ \/ UNCHANGED motor
     \/ CanStep(velocity) /\ motor' = [motor EXCEPT !.speed = Abs(velocity)]
  /\ driverOk' = FALSE

Cycle ==
  /\ stage = "apply" /\ stage' = "sense"
  /\ quiet' = IF quiet < Silence THEN quiet + 1 ELSE quiet
  /\ UNCHANGED <<clientUp, readTask, loop, sensors>>

(* Mutant of Apply: gives up on a driver that has refused once. *)
ApplyGivesUp == Cycle /\ IF driverOk THEN DriveOk \/ DriveFails
                                     ELSE UNCHANGED <<motor, driverOk>>

Apply == Cycle /\ (DriveOk \/ DriveFails)

Main == \/ StartUp \/ SyncTime \/ InitClient \/ CalibrateStepper \/ Calibrate
        \/ SenseStepper \/ SenseEncoder \/ WriteState
        \/ LoadCount \/ ReadCommand \/ Apply

Next == \/ Main
        \/ \E v \in Velocities : StoreCommand(v)
        \/ CountCommand
        \/ \E s \in Sensors, p \in Positions : Move(s, p)

Spec == Init /\ [][Next]_vars

(***************************************************************************)
(* The main thread and the read task are scheduled: they go on when they   *)
(* can.  The driver does not refuse for ever: a call made again and again  *)
(* succeeds now and then (external).  Nobody has to send a command.        *)
(***************************************************************************)
FairSpec == /\ Spec
            /\ WF_vars(Main) /\ WF_vars(CountCommand)
            /\ SF_vars(Apply /\ driverOk')

-----------------------------------------------------------------------------
(* Properties. *)

(* Every variable keeps the type the code gives it; cycles_since_command   *)
(* never exceeds kCommandTimeoutCycles.                                    *)
TypeOK ==
  /\ stage \in {"devices", "wifi", "ip", "ntp", "client", "enable", "position", "encoder",
                "returned"} \cup LoopStages
  /\ clientUp \in BOOLEAN /\ storing \in BOOLEAN /\ driverOk \in BOOLEAN
  /\ latest \in [num : 0 .. MaxCommands, vel : Velocities \cup {0}]
  /\ accepted \in 0 .. MaxCommands /\ last \in 0 .. MaxCommands
  /\ base \in 0 .. MaxCommands /\ source \in 0 .. MaxCommands
  /\ cycles \in 0 .. TimeoutCycles
  /\ velocity \in Velocities \cup {0}
  /\ motor \in [dir : {-1, 0, 1}, speed : 0 .. MaxVel]
  /\ position \in [Sensors -> Positions] /\ offset \in [Sensors -> Positions \cup {0}]
  /\ angle \in [Sensors -> Int] /\ state \in [Sensors -> Int]
  /\ quiet \in 0 .. Silence

(* "A stale command must stop the stepper rather than latch the last       *)
(* velocity forever" (main.cpp:38): Silence cycles after the last counted  *)
(* command the stepper stands still, unless the driver refused the stop in *)
(* the last cycle.                                                         *)
StaleCommandStops == quiet = Silence /\ driverOk => motor.dir = 0

(* No accepted command is lost between accepted_command_count() and        *)
(* read_command(): once the loop has taken note of the count it acts on    *)
(* the last command, or on one that is being stored.                       *)
LastCommandWins ==
  stage = "apply" /\ last > base =>
    /\ source >= last
    /\ (last = accepted /\ ~storing) => source = latest.num

(* When the commands end the stepper comes to rest for good, however often *)
(* the driver refuses: the stop is repeated in every cycle.                *)
EventuallyStops == <>[](motor.dir = 0)

(* Once the rig rests, what is published of a sensor becomes, and stays,   *)
(* its angle from its own calibration, however often the sensor fails as   *)
(* long as it does not fail for ever, and although the other sensor, the   *)
(* driver and the network may (main.cpp:212-228): the state is written in  *)
(* every cycle, with the old angle for a sensor that has failed.           *)
ReadingOf(s) == /\ stage = IF s = "stepper" THEN "sense" ELSE "sense_encoder"
                /\ stage' # stage /\ Measure(s)

StateFollowsRig ==
  \A s \in Sensors, p \in Positions :
    ([]<><<ReadingOf(s)>>_vars /\ <>[](position[s] = p))
      => <>[](state[s] = p - offset[s])
=============================================================================
