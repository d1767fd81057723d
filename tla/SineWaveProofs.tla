--------------------------- MODULE SineWaveProofs ---------------------------
(***************************************************************************)
(* The sine wave demo, for every offset, every default amplitude and every *)
(* number of activations and restarts: the phase begins with the           *)
(* activation, the component sends what was last computed, and the board   *)
(* keeps its default until a command has come.                             *)
(***************************************************************************)
EXTENDS SineWave, TLAPS

(* Only an active component has an active controller, and the phase clock  *)
(* of an active controller was started by its first update().              *)
ControllerInv ==
  controller = "active" => component = "active" /\ start_time = first

(* The command is NaN only until the component is activated. *)
CommandInv ==
  /\ command = computed \/ (command = NaN /\ computed = 0)
  /\ component = "active" => command = computed

(* Without a command other than zero the board is as it started. *)
BoardInv == ~got => buffer = 0 /\ ~cmd_recv /\ wave_amp = Default

IInv == TypeOK /\ ControllerInv /\ CommandInv /\ BoardInv /\ PhaseFollowsActivation
-----------------------------------------------------------------------------
USE SineWaveAssumption DEF SineWaveAssumption

LEMMA ValueType == ASSUME NEW t \in Phases, NEW s \in Phases PROVE Value(t - s) \in Values
<1>1. (t - s) % 4 \in Phases
  BY DEF Phases
<1>2. \A p \in Phases : p % 4 = p
  BY DEF Phases
<1>3. Value(t - s) = Value((t - s) % 4)
  BY <1>1, <1>2 DEF Value
<1> QED
  BY <1>1, <1>3 DEF Values

LEMMA ValuesAreNumbers == Values \subseteq Int /\ NaN \notin Values /\ None \notin Phases
<1>1. \A t \in Phases : t % 4 \in Int
  BY DEF Phases
<1>2. \A t \in Int : Sine(t) \in Int
  BY DEF Sine
<1>3. Values \subseteq Int
  BY <1>1, <1>2 DEF Values, Value
<1>4. Phases \subseteq Int
  BY DEF Phases
<1> QED
  BY <1>3, <1>4

LEMMA InitIInv == Init => IInv
<1> SUFFICES ASSUME Init PROVE IInv
  OBVIOUS
<1>1. TypeOK
  <2>1. cmd_recv \in BOOLEAN /\ got \in BOOLEAN
    BY DEF Init
  <2>2. 0 \in Values /\ 0 \in Phases /\ 0 \in 0 .. MaxResets
    BY DEF Values, Phases
  <2> QED
    BY <2>1, <2>2 DEF Init, TypeOK
<1>2. ControllerInv /\ CommandInv /\ BoardInv /\ PhaseFollowsActivation
  BY DEF Init, ControllerInv, CommandInv, BoardInv, PhaseFollowsActivation
<1> QED
  BY <1>1, <1>2 DEF IInv

LEMMA UpdateComputes ==
  ASSUME IInv, update
  PROVE  /\ start_time' \in Phases /\ first' = start_time'
         /\ \/ /\ command' = Value(now - first') /\ computed' = command'
               /\ command' \in Values /\ controller' = controller
            \/ controller' = "inactive" /\ UNCHANGED <<command, computed>>
<1>1. now \in Phases /\ start_time \in Phases \cup {None} /\ start_time = first
  BY DEF IInv, TypeOK, ControllerInv, update
<1>2. start_time' \in Phases /\ first' = start_time'
  BY <1>1 DEF update
<1>3. Value(now - start_time') \in Values
  BY <1>1, <1>2, ValueType
<1> QED
  BY <1>2, <1>3 DEF update

LEMMA TypePreserved == IInv /\ [Next]_vars => TypeOK'
<1> SUFFICES ASSUME IInv, [Next]_vars PROVE TypeOK'
  OBVIOUS
<1>0. TypeOK /\ CommandInv
  BY DEF IInv
<1> USE <1>0 DEF TypeOK, host, board
<1>1. CASE on_configure \/ on_activate \/ on_deactivate
  BY <1>1 DEF on_configure, on_activate, on_deactivate
<1>2. CASE ActivateHardware
  <2>1. 0 \in Values
    BY DEF Values
  <2> QED
    BY <1>2, <2>1 DEF ActivateHardware
<1>3. CASE DeactivateHardware
  BY <1>3 DEF DeactivateHardware
<1>4. CASE update
  <2>1. /\ start_time' \in Phases /\ first' \in Phases
        /\ command' \in Values \cup {NaN} /\ computed' \in Values
        /\ controller' \in {"unconfigured", "inactive", "active"}
    BY <1>4, UpdateComputes
  <2> QED
    BY <1>4, <2>1 DEF update
<1>5. CASE NoUpdate
  BY <1>5 DEF NoUpdate
<1>6. CASE write
  <2>1. (now + 1) % 4 \in Phases
    BY DEF Phases
  <2>2. wire' \subseteq Values
    BY <1>6 DEF write, CommandInv
  <2> QED
    BY <1>6, <2>1, <2>2 DEF write, EndCycle
<1>7. ASSUME NEW v \in Values, Deliver(v) PROVE TypeOK'
  <2>1. got' \in BOOLEAN
    BY <1>7 DEF Deliver
  <2> QED
    BY <1>7, <2>1 DEF Deliver
<1>8. ASSUME NEW v \in Values, Lose(v) PROVE TypeOK'
  BY <1>8 DEF Lose
<1>9. CASE StartUp
  BY <1>9 DEF StartUp
<1>10. CASE Loop
  <2>1. cmd_recv' \in BOOLEAN
    BY <1>10 DEF Loop
  <2>2. wave_amp' \in {Default} \cup {Abs(v) : v \in Values}
    BY <1>10 DEF Loop
  <2> QED
    BY <1>10, <2>1, <2>2 DEF Loop
<1>11. CASE Restart
  <2>1. 0 \in Values /\ cmd_recv' \in BOOLEAN /\ got' \in BOOLEAN
    BY <1>11 DEF Restart, Values
  <2>2. resets' \in 0 .. MaxResets
    BY <1>11 DEF Restart
  <2> QED
    BY <1>11, <2>1, <2>2 DEF Restart
<1>12. CASE UNCHANGED vars
  BY <1>12 DEF vars
<1> QED
  BY <1>1, <1>2, <1>3, <1>4, <1>5, <1>6, <1>7, <1>8, <1>9, <1>10, <1>11, <1>12
     DEF Next, LifeCycle, Cycle

LEMMA NextIInv == IInv /\ [Next]_vars => IInv'
<1> SUFFICES ASSUME IInv, [Next]_vars PROVE IInv'
  OBVIOUS
<1>0. TypeOK /\ TypeOK'
  BY TypePreserved DEF IInv
<1> DEFINE Host == ControllerInv /\ CommandInv /\ PhaseFollowsActivation
<1>a. Host /\ BoardInv
  BY DEF IInv
<1> SUFFICES Host' /\ BoardInv'
  BY <1>0 DEF IInv
<1> USE <1>0, <1>a DEF host, board
<1>1. ASSUME UNCHANGED board PROVE BoardInv'
  BY <1>1 DEF BoardInv
<1>2. ASSUME UNCHANGED host PROVE Host'
  BY <1>2 DEF ControllerInv, CommandInv, PhaseFollowsActivation
<1>3. CASE on_configure
  BY <1>1, <1>3 DEF on_configure, ControllerInv, CommandInv, PhaseFollowsActivation
<1>4. CASE on_activate
  BY <1>1, <1>4 DEF on_activate, ControllerInv, CommandInv, PhaseFollowsActivation
<1>5. CASE on_deactivate
  BY <1>1, <1>5 DEF on_deactivate, ControllerInv, CommandInv, PhaseFollowsActivation
<1>6. CASE ActivateHardware
  <2>1. computed # NaN
    BY ValuesAreNumbers DEF TypeOK
  <2>2. CommandInv'
    BY <1>6, <2>1 DEF ActivateHardware, CommandInv
  <2>3. ControllerInv' /\ PhaseFollowsActivation'
    BY <1>6 DEF ActivateHardware, ControllerInv, PhaseFollowsActivation
  <2> QED
    BY <1>1, <1>6, <2>2, <2>3 DEF ActivateHardware
<1>7. CASE DeactivateHardware
  BY <1>1, <1>7 DEF DeactivateHardware, ControllerInv, CommandInv, PhaseFollowsActivation
<1>8. CASE update
  <2>1. controller = "active" /\ component' = component /\ now' = now
    BY <1>8 DEF update
  <2>2. /\ first' = start_time'
        /\ \/ command' = Value(now - first') /\ computed' = command'
           \/ controller' = "inactive" /\ UNCHANGED <<command, computed>>
    BY <1>8, UpdateComputes
  <2>3. Host'
    BY <2>1, <2>2 DEF ControllerInv, CommandInv, PhaseFollowsActivation
  <2> QED
    BY <1>1, <1>8, <2>3 DEF update
<1>9. CASE NoUpdate
  BY <1>1, <1>9 DEF NoUpdate, ControllerInv, CommandInv, PhaseFollowsActivation
<1>10. CASE write
  BY <1>1, <1>10 DEF write, EndCycle, ControllerInv, CommandInv, PhaseFollowsActivation
<1>11. ASSUME NEW v \in Values, Deliver(v) PROVE Host' /\ BoardInv'
  BY <1>2, <1>11 DEF Deliver, BoardInv
<1>12. ASSUME NEW v \in Values, Lose(v) PROVE Host' /\ BoardInv'
  BY <1>1, <1>2, <1>12 DEF Lose
<1>13. CASE StartUp
  BY <1>2, <1>13 DEF StartUp, BoardInv
<1>14. CASE Loop
  BY <1>2, <1>14 DEF Loop, BoardInv
<1>15. CASE Restart
  BY <1>2, <1>15 DEF Restart, BoardInv
<1>16. CASE UNCHANGED vars
  BY <1>1, <1>2, <1>16 DEF vars
<1> QED
  BY <1>3, <1>4, <1>5, <1>6, <1>7, <1>8, <1>9, <1>10, <1>11, <1>12, <1>13, <1>14, <1>15,
     <1>16
     DEF Next, LifeCycle, Cycle

(* Host and board of the sine wave demo are related as IInv says, over     *)
(* every sequence of life cycle calls and restarts.                        *)
THEOREM Inductive == Spec => []IInv
BY InitIInv, NextIInv, PTL DEF Spec

(* Every variable of the host and of the board keeps its type; no NaN is   *)
(* ever on the wire.                                                       *)
THEOREM TypeCorrect == Spec => []TypeOK
<1>1. IInv => TypeOK
  BY DEF IInv
<1> QED
  BY <1>1, Inductive, PTL

(* "Reset the phase clock every time the controller is (re)activated": for *)
(* every history of activations the wave begins with the first update().   *)
THEOREM PhaseFollows == Spec => []PhaseFollowsActivation
<1>1. IInv => PhaseFollowsActivation
  BY DEF IInv
<1> QED
  BY <1>1, Inductive, PTL

(* What write() of an active component sends is the last value a           *)
(* controller has set, or zero before the first.                           *)
THEOREM LastComputed == Spec => []CommandIsLastComputed
<1>1. IInv => CommandIsLastComputed
  BY DEF IInv, CommandInv, CommandIsLastComputed
<1> QED
  BY <1>1, Inductive, PTL

(* The board keeps its default amplitude until a command other than zero   *)
(* has reached it since its last start.                                    *)
THEOREM DefaultKept == Spec => []DefaultUntilCommand
<1>1. IInv => DefaultUntilCommand
  BY DEF IInv, BoardInv, DefaultUntilCommand
<1> QED
  BY <1>1, Inductive, PTL
=============================================================================
