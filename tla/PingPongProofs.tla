--------------------------- MODULE PingPongProofs ---------------------------
(***************************************************************************)
(* The board of the Tier 2 transport test loses no wake-up, for every      *)
(* width of a double, every number of commands and of resets, and every    *)
(* order in which the network delivers.                                    *)
(***************************************************************************)
EXTENDS PingPong, TLAPS

(* The callback is idle or has a command of the host. *)
CallbackInv == callback = Idle \/ callback.msg \in Efforts

(* Unless the motor thread will be woken again, the words it has loaded    *)
(* are those of the command the board holds.                               *)
LoadedIsCurrent ==
  (callback = Idle /\ g_control_sem = 0) =>
    \A w \in Words \ motor.todo : velocity[w] = g_latest_cmd[w]

IInv == /\ TypeOK /\ CallbackInv /\ LoadedIsCurrent
        /\ motor.at = "wait" => motor.todo = {}
-----------------------------------------------------------------------------
USE PingPongAssumption DEF PingPongAssumption

LEMMA IdleHasNoCommand == 0 \notin Efforts /\ Idle.msg = 0
BY DEF Efforts, Idle

LEMMA ZeroType ==
  /\ Double(0) \in [Words -> 0 .. EffortMod]
  /\ Idle \in [msg : 0 .. EffortMod, todo : SUBSET Words]
  /\ [at |-> "wait", todo |-> {}] \in [at : {"wait", "load"}, todo : SUBSET Words]
  /\ 0 \in 0 .. EffortMod /\ 0 \in 0 .. MaxResets
BY DEF Double, Idle

LEMMA InitIInv == Init => IInv
<1> SUFFICES ASSUME Init PROVE IInv
  OBVIOUS
<1>1. TypeOK
  <2>1. states \in BOOLEAN /\ pong_received \in BOOLEAN /\ punctual \in BOOLEAN
    BY DEF Init
  <2> QED
    BY <2>1, ZeroType DEF Init, BoardReset, TypeOK
<1>2. CallbackInv /\ LoadedIsCurrent
  BY DEF Init, BoardReset, CallbackInv, LoadedIsCurrent
<1> QED
  BY <1>1, <1>2 DEF Init, BoardReset, IInv

LEMMA TypePreserved == IInv /\ [Next]_vars => TypeOK'
<1> SUFFICES ASSUME IInv, [Next]_vars PROVE TypeOK'
  OBVIOUS
<1> USE DEF IInv, TypeOK, board, network, script
<1>1. CASE StartUp
  BY <1>1 DEF StartUp
<1>2. CASE Reset
  BY <1>2, ZeroType DEF Reset
<1>3. ASSUME NEW n \in commands, ReceiveCommand(n) PROVE TypeOK'
  <2>1. n \in 0 .. EffortMod
    BY DEF Efforts
  <2> QED
    BY <1>3, <2>1 DEF ReceiveCommand
<1>4. ASSUME NEW w \in Words, CopyWord(w) PROVE TypeOK'
  BY <1>4 DEF CopyWord
<1>5. CASE Give
  BY <1>5, ZeroType DEF Give
<1>6. CASE Take
  BY <1>6 DEF Take
<1>7. ASSUME NEW w \in Words, LoadWord(w) PROVE TypeOK'
  BY <1>7 DEF LoadWord
<1>8. ASSUME NEW s \in BOOLEAN, Publish(s) PROVE TypeOK'
  <2>1. states' \in BOOLEAN
    BY <1>8 DEF Publish
  <2> QED
    BY <1>8, <2>1, ZeroType DEF Publish
<1>9. CASE state_callback
  <2>1. states' \in BOOLEAN /\ pong_received' \in BOOLEAN
    BY <1>9 DEF state_callback
  <2> QED
    BY <1>9, <2>1 DEF state_callback
<1>10. CASE Wait
  BY <1>10 DEF Wait
<1>11. CASE ClearEvent
  BY <1>11 DEF ClearEvent
<1>12. CASE PutCommand
  <2>1. NextEffort \in 1 .. EffortMod
    BY DEF NextEffort
  <2> QED
    BY <1>12, <2>1 DEF PutCommand, Efforts
<1>13. CASE Lose
  <2>1. states' \in BOOLEAN
    BY <1>13 DEF Lose
  <2> QED
    BY <1>13, <2>1 DEF Lose
<1>14. CASE Settle
  BY <1>14 DEF Settle
<1>15. CASE UNCHANGED vars
  BY <1>15 DEF vars
<1> QED
  BY <1>1, <1>2, <1>3, <1>4, <1>5, <1>6, <1>7, <1>8, <1>9, <1>10, <1>11, <1>12, <1>13,
     <1>14, <1>15
     DEF Next, CommandArrives, CallbackStep, MotorStep, HostStep

LEMMA NextIInv == IInv /\ [Next]_vars => IInv'
<1> SUFFICES ASSUME IInv, [Next]_vars PROVE IInv'
  OBVIOUS
<1>0. TypeOK /\ TypeOK'
  BY TypePreserved DEF IInv
<1> DEFINE Rest == CallbackInv /\ LoadedIsCurrent /\ (motor.at = "wait" => motor.todo = {})
<1>a. Rest
  BY DEF IInv
<1> SUFFICES Rest'
  BY <1>0 DEF IInv
<1> USE <1>0, <1>a DEF CallbackInv, LoadedIsCurrent, network, script
<1>1. CASE StartUp
  BY <1>1 DEF StartUp
<1>2. CASE Reset
  BY <1>2 DEF Reset
<1>3. ASSUME NEW n \in commands, ReceiveCommand(n) PROVE Rest'
  <2>1. n \in Efforts /\ callback'.msg = n /\ callback' # Idle
    BY <1>3, IdleHasNoCommand DEF TypeOK, ReceiveCommand
  <2> QED
    BY <1>3, <2>1 DEF ReceiveCommand
<1>4. ASSUME NEW w \in Words, CopyWord(w) PROVE Rest'
  <2>1. callback.msg \in Efforts /\ callback'.msg = callback.msg
    BY <1>4 DEF TypeOK, CopyWord, Idle
  <2>2. callback' # Idle
    BY <2>1, IdleHasNoCommand
  <2> QED
    BY <1>4, <2>1, <2>2 DEF CopyWord
<1>5. CASE Give
  BY <1>5 DEF Give
<1>6. CASE Take
  BY <1>6 DEF Take
<1>7. ASSUME NEW w \in Words, LoadWord(w) PROVE Rest'
  <2>1. /\ velocity' = [velocity EXCEPT ![w] = g_latest_cmd[w]]
        /\ motor'.todo = motor.todo \ {w} /\ motor'.at = "load"
    BY <1>7 DEF TypeOK, LoadWord
  <2> QED
    BY <1>7, <2>1 DEF TypeOK, LoadWord
<1>8. ASSUME NEW s \in BOOLEAN, Publish(s) PROVE Rest'
  BY <1>8 DEF Publish
<1>9. CASE state_callback \/ Wait \/ ClearEvent \/ PutCommand \/ Lose \/ Settle
  BY <1>9 DEF state_callback, Wait, ClearEvent, PutCommand, Lose, Settle, board
<1>10. CASE UNCHANGED vars
  BY <1>10 DEF vars, board
<1> QED
  BY <1>1, <1>2, <1>3, <1>4, <1>5, <1>6, <1>7, <1>8, <1>9, <1>10
     DEF Next, CommandArrives, CallbackStep, MotorStep, HostStep

(* The callback, the semaphore and the motor thread of the board are       *)
(* related as IInv says, over resets and whatever the network does.        *)
THEOREM Inductive == Spec => []IInv
BY InitIInv, NextIInv, PTL DEF Spec

(* Every variable of the board and of the script keeps its type. *)
THEOREM TypeCorrect == Spec => []TypeOK
<1>1. IInv => TypeOK
  BY DEF IInv
<1> QED
  BY <1>1, Inductive, PTL

(* A binary semaphore is enough: however many commands arrive while        *)
(* motor_control_thread() loads or publishes, when the board is quiet the  *)
(* state it has computed is that of the command it holds, in every word.   *)
THEOREM NoLostWakeUp == Spec => []LastCommandIsAnswered
<1>1. IInv => LastCommandIsAnswered
  <2> SUFFICES ASSUME IInv, callback = Idle, motor.at = "wait", g_control_sem = 0
               PROVE  velocity = g_latest_cmd
    BY DEF LastCommandIsAnswered
  <2>1. \A w \in Words : velocity[w] = g_latest_cmd[w]
    BY DEF IInv, LoadedIsCurrent
  <2> QED
    BY <2>1 DEF IInv, TypeOK
<1> QED
  BY <1>1, Inductive, PTL
=============================================================================
