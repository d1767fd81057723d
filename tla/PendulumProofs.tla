--------------------------- MODULE PendulumProofs ---------------------------
(***************************************************************************)
(* The pendulum firmware, for every time-out, every number of commands and *)
(* every set of velocities and positions: a stale command stops the        *)
(* stepper, and the last command wins.                                     *)
(***************************************************************************)
EXTENDS Pendulum, TLAPS

(* The read task counts what it has stored; the loop is never ahead of it. *)
CountsAgree ==
  /\ latest.num = accepted + (IF storing THEN 1 ELSE 0)
  /\ base <= last /\ last <= accepted /\ source <= latest.num

(* Up to the calibration, and when main() has returned, nothing moves. *)
RestOutsideLoop ==
  stage \notin LoopStages => motor.dir = 0 /\ velocity = 0 /\ quiet = 0

(* Except between the count and the read, the velocity is from a command   *)
(* at least as new as the count.                                           *)
SourceIsNew == stage \in LoopStages \ {"read"} /\ last > base => source >= last

(* How far the watchdog has come: every quiet cycle but the one that was   *)
(* under way and the one that took the command has been counted, and when  *)
(* no more are counted the velocity is zero.                               *)
Watchdog ==
  /\ stage \in {"sense", "sense_encoder", "write", "count"} /\ quiet >= 2 =>
       /\ last = accepted
       /\ IF quiet < Silence THEN cycles >= quiet - 2
                             ELSE cycles = TimeoutCycles /\ velocity = 0
  /\ stage = "read" => quiet <= 1
  /\ stage \in {"read", "apply"} /\ quiet >= 1 => last = accepted
  /\ stage = "apply" /\ quiet >= 1 =>
       IF quiet < Silence - 1 THEN cycles >= quiet - 1
                              ELSE cycles = TimeoutCycles /\ velocity = 0

IInv == /\ TypeOK /\ CountsAgree /\ RestOutsideLoop /\ SourceIsNew
        /\ Watchdog /\ StaleCommandStops
-----------------------------------------------------------------------------
USE PendulumAssumption DEF PendulumAssumption

LEMMA InitIInv == Init => IInv
<1> SUFFICES ASSUME Init PROVE IInv
  OBVIOUS
<1>1. TypeOK
  <2>1. 0 \in 0 .. Silence /\ 0 \in 0 .. MaxCommands /\ 0 \in 0 .. TimeoutCycles /\ 0 \in 0 .. MaxVel
    BY DEF Silence
  <2>2. /\ latest \in [num : 0 .. MaxCommands, vel : Velocities \cup {0}]
        /\ motor \in [dir : {-1, 0, 1}, speed : 0 .. MaxVel]
    BY <2>1 DEF Init
  <2>3. clientUp \in BOOLEAN /\ storing \in BOOLEAN /\ driverOk \in BOOLEAN
    BY DEF Init
  <2>4. /\ offset \in [Sensors -> Positions \cup {0}] /\ angle \in [Sensors -> Int]
        /\ state \in [Sensors -> Int]
    BY DEF Init
  <2> QED
    BY <2>1, <2>2, <2>3, <2>4 DEF Init, TypeOK
<1>2. CountsAgree /\ RestOutsideLoop /\ SourceIsNew
  BY DEF Init, CountsAgree, RestOutsideLoop, SourceIsNew, LoopStages
<1>3. Watchdog /\ StaleCommandStops
  BY DEF Init, Watchdog, StaleCommandStops, Silence
<1> QED
  BY <1>1, <1>2, <1>3 DEF IInv

(* set_stepper_angular_vel(): what a drive leaves in the motor. *)
LEMMA DriveType ==
  ASSUME TypeOK, DriveOk \/ DriveFails
  PROVE  /\ motor' \in [dir : {-1, 0, 1}, speed : 0 .. MaxVel]
         /\ driverOk' \in BOOLEAN
<1>1. velocity = NaN \/ velocity \in Int
  BY DEF TypeOK
<1>2. CanStep(velocity) => /\ Abs(velocity) \in 0 .. MaxVel
                           /\ Running(velocity) \in [dir : {-1, 0, 1}, speed : 0 .. MaxVel]
  BY <1>1 DEF CanStep, Abs, Running
<1> QED
  BY <1>2 DEF TypeOK, DriveOk, DriveFails, Stopped

LEMMA ZeroStops == ASSUME TypeOK, velocity = 0, DriveOk PROVE motor'.dir = 0
<1>1. ~CanStep(0)
  BY DEF CanStep, Abs
<1> QED
  BY <1>1 DEF TypeOK, DriveOk, Stopped

LEMMA TypePreserved == TypeOK /\ CountsAgree /\ [Next]_vars => TypeOK'
<1> SUFFICES ASSUME TypeOK, CountsAgree, [Next]_vars PROVE TypeOK'
  OBVIOUS
<1> USE DEF TypeOK, LoopStages, readTask, loop, sensors
<1>1. CASE StartUp
  BY <1>1 DEF StartUp, GoTo
<1>2. CASE SyncTime
  BY <1>2 DEF SyncTime
<1>3. CASE InitClient
  BY <1>3 DEF InitClient
<1>z. ASSUME NEW s \in Sensors, Zero(s) PROVE offset' \in [Sensors -> Positions \cup {0}]
  BY <1>z DEF Zero
<1>m. ASSUME NEW s \in Sensors, Measure(s) PROVE angle' \in [Sensors -> Int]
  <2>1. position[s] \in Positions /\ offset[s] \in Positions \cup {0}
    BY DEF TypeOK
  <2>2. \A p, q : p \in Positions /\ q \in Positions \cup {0} => p - q \in Int
    OBVIOUS
  <2>3. position[s] - offset[s] \in Int
    BY ONLY <2>1, <2>2
  <2> QED
    BY <1>m, <2>3 DEF Measure
<1>b. "stepper" \in Sensors /\ "encoder" \in Sensors
  BY DEF Sensors
<1>4. CASE CalibrateStepper
  BY <1>4, <1>b, <1>z DEF CalibrateStepper
<1>5. CASE Calibrate
  <2>1. offset' \in [Sensors -> Positions \cup {0}]
    BY <1>5, <1>b, <1>z DEF Calibrate
  <2> QED
    BY <1>5, <2>1 DEF Calibrate
<1>6. CASE SenseStepper
  BY <1>6, <1>b, <1>m DEF SenseStepper
<1>7. CASE SenseEncoder
  BY <1>7, <1>b, <1>m DEF SenseEncoder
<1>8. CASE WriteState
  BY <1>8 DEF WriteState
<1>9. CASE LoadCount
  BY <1>9 DEF LoadCount, NoteCommand, WaitOrStop
<1>10. CASE ReadCommand
  BY <1>10 DEF ReadCommand
<1>11. CASE Apply
  <2>1. quiet' \in 0 .. Silence
    BY <1>11 DEF Apply, Cycle, Silence
  <2>2. motor' \in [dir : {-1, 0, 1}, speed : 0 .. MaxVel] /\ driverOk' \in BOOLEAN
    BY <1>11, DriveType DEF Apply
  <2> QED
    BY <1>11, <2>1, <2>2 DEF Apply, Cycle, Silence
<1>12. ASSUME NEW v \in Velocities, StoreCommand(v) PROVE TypeOK'
  BY <1>12 DEF StoreCommand
<1>13. CASE CountCommand
  <2>1. accepted + 1 \in 0 .. MaxCommands
    BY <1>13 DEF CountCommand, CountsAgree
  <2> QED
    <3>1. 0 \in 0 .. Silence
      BY DEF Silence
    <3> QED
      BY <1>13, <2>1, <3>1 DEF CountCommand
<1>14. ASSUME NEW s \in Sensors, NEW p \in Positions, Move(s, p) PROVE TypeOK'
  BY <1>14 DEF Move
<1>15. CASE UNCHANGED vars
  BY <1>15 DEF vars
<1> QED
  BY <1>1, <1>2, <1>3, <1>4, <1>5, <1>6, <1>7, <1>8, <1>9, <1>10, <1>11, <1>12,
     <1>13, <1>14, <1>15
     DEF Next, Main

LEMMA NextIInv == IInv /\ [Next]_vars => IInv'
<1> SUFFICES ASSUME IInv, [Next]_vars PROVE IInv'
  OBVIOUS
<1>0. TypeOK /\ TypeOK'
  BY TypePreserved DEF IInv
<1> DEFINE Loop == CountsAgree /\ RestOutsideLoop /\ SourceIsNew /\ Watchdog
<1>a. Loop /\ StaleCommandStops
  BY DEF IInv
<1> SUFFICES Loop' /\ StaleCommandStops'
  BY <1>0 DEF IInv
<1> USE <1>0, <1>a DEF TypeOK, LoopStages, readTask, loop, sensors, Silence
<1> DEFINE Same == motor' = motor /\ quiet' = quiet /\ driverOk' = driverOk
<1>s. ASSUME Same PROVE StaleCommandStops'
  BY <1>s DEF StaleCommandStops
<1> HIDE DEF Loop
<1>1. CASE StartUp
  <2>1. Loop'
    BY <1>1 DEF StartUp, GoTo, Loop, CountsAgree, RestOutsideLoop, SourceIsNew, Watchdog
  <2> QED
    BY <1>1, <1>s, <2>1 DEF StartUp
<1>2. CASE SyncTime
  <2>1. Loop'
    BY <1>2 DEF SyncTime, Loop, CountsAgree, RestOutsideLoop, SourceIsNew, Watchdog
  <2> QED
    BY <1>2, <1>s, <2>1 DEF SyncTime
<1>3. CASE InitClient
  <2>1. Loop'
    BY <1>3 DEF InitClient, Loop, CountsAgree, RestOutsideLoop, SourceIsNew, Watchdog
  <2> QED
    BY <1>3, <1>s, <2>1 DEF InitClient
<1>4. CASE CalibrateStepper
  <2>1. Loop'
    BY <1>4 DEF CalibrateStepper, Loop, CountsAgree, RestOutsideLoop, SourceIsNew, Watchdog
  <2> QED
    BY <1>4, <1>s, <2>1 DEF CalibrateStepper
<1>5. CASE Calibrate
  <2>1. Loop'
    BY <1>5 DEF Calibrate, Loop, CountsAgree, RestOutsideLoop, SourceIsNew, Watchdog
  <2> QED
    BY <1>5, <1>s, <2>1 DEF Calibrate
<1>6. CASE SenseStepper
  <2>1. Loop'
    BY <1>6 DEF SenseStepper, Loop, CountsAgree, RestOutsideLoop, SourceIsNew, Watchdog
  <2> QED
    BY <1>6, <1>s, <2>1 DEF SenseStepper
<1>7. CASE SenseEncoder
  <2>1. Loop'
    BY <1>7 DEF SenseEncoder, Loop, CountsAgree, RestOutsideLoop, SourceIsNew, Watchdog
  <2> QED
    BY <1>7, <1>s, <2>1 DEF SenseEncoder
<1>8. CASE WriteState
  <2>1. Loop'
    BY <1>8 DEF WriteState, Loop, CountsAgree, RestOutsideLoop, SourceIsNew, Watchdog
  <2> QED
    BY <1>8, <1>s, <2>1 DEF WriteState
<1>9. CASE LoadCount
  <2>1. ASSUME accepted # last PROVE Loop'
    BY <1>9, <2>1 DEF LoadCount, NoteCommand, Loop, CountsAgree, RestOutsideLoop,
                      SourceIsNew, Watchdog
  <2>2. ASSUME accepted = last PROVE Loop'
    BY <1>9, <2>2 DEF LoadCount, WaitOrStop, Loop, CountsAgree, RestOutsideLoop,
                      SourceIsNew, Watchdog
  <2> QED
    BY <1>9, <1>s, <2>1, <2>2 DEF LoadCount
<1>10. CASE ReadCommand
  <2>1. Loop'
    BY <1>10 DEF ReadCommand, Loop, CountsAgree, RestOutsideLoop, SourceIsNew, Watchdog
  <2> QED
    BY <1>10, <1>s, <2>1 DEF ReadCommand
<1>11. CASE Apply
  <2>1. Loop'
    BY <1>11 DEF Apply, Cycle, Loop, CountsAgree, RestOutsideLoop, SourceIsNew, Watchdog
  <2>2. StaleCommandStops'
    <3>1. CASE DriveFails
      BY <3>1 DEF DriveFails, StaleCommandStops
    <3>2. CASE DriveOk
      <4>1. quiet' = Silence => velocity = 0
        BY <1>11 DEF Apply, Cycle, Loop, Watchdog
      <4> QED
        BY <3>2, <4>1, ZeroStops DEF StaleCommandStops
    <3> QED
      BY <1>11, <3>1, <3>2 DEF Apply
  <2> QED
    BY <2>1, <2>2
<1>12. ASSUME NEW v \in Velocities, StoreCommand(v) PROVE Loop' /\ StaleCommandStops'
  <2>1. Loop'
    BY <1>12 DEF StoreCommand, Loop, CountsAgree, RestOutsideLoop, SourceIsNew, Watchdog
  <2> QED
    BY <1>12, <1>s, <2>1 DEF StoreCommand
<1>13. CASE CountCommand
  <2>1. Loop'
    BY <1>13 DEF CountCommand, Loop, CountsAgree, RestOutsideLoop, SourceIsNew, Watchdog
  <2>2. StaleCommandStops'
    BY <1>13 DEF CountCommand, StaleCommandStops
  <2> QED
    BY <2>1, <2>2
<1>14. ASSUME NEW s \in Sensors, NEW p \in Positions, Move(s, p)
       PROVE  Loop' /\ StaleCommandStops'
  <2>1. Loop'
    BY <1>14 DEF Move, Loop, CountsAgree, RestOutsideLoop, SourceIsNew, Watchdog
  <2> QED
    BY <1>14, <1>s, <2>1 DEF Move
<1>15. CASE UNCHANGED vars
  <2>1. Loop'
    BY <1>15 DEF vars, Loop, CountsAgree, RestOutsideLoop, SourceIsNew, Watchdog
  <2> QED
    BY <1>15, <1>s, <2>1 DEF vars
<1> QED
  BY <1>1, <1>2, <1>3, <1>4, <1>5, <1>6, <1>7, <1>8, <1>9, <1>10, <1>11, <1>12,
     <1>13, <1>14, <1>15
     DEF Next, Main

(* The counts and the watchdog of main() are related as IInv says,         *)
(* whatever arrives from the network and whatever fails.                   *)
THEOREM Inductive == Spec => []IInv
BY InitIInv, NextIInv, PTL DEF Spec

(* Every variable of main() keeps its type; cycles_since_command never     *)
(* exceeds kCommandTimeoutCycles.                                          *)
THEOREM TypeCorrect == Spec => []TypeOK
<1>1. IInv => TypeOK
  BY DEF IInv
<1> QED
  BY <1>1, Inductive, PTL

(* A stale command stops the stepper for every kCommandTimeoutCycles: at   *)
(* most three cycles more than that after the last counted command it      *)
(* stands still, unless the driver has just refused.                       *)
THEOREM StaleStops == Spec => []StaleCommandStops
<1>1. IInv => StaleCommandStops
  BY DEF IInv
<1> QED
  BY <1>1, Inductive, PTL

(* No command is lost between accepted_command_count() and read_command(), *)
(* although the read task may store and count between the two.             *)
THEOREM CommandWins == Spec => []LastCommandWins
<1>1. IInv => LastCommandWins
  BY DEF IInv, TypeOK, CountsAgree, SourceIsNew, LastCommandWins
<1> QED
  BY <1>1, Inductive, PTL
=============================================================================
