------------------------------ MODULE PingPong ------------------------------
(***************************************************************************)
(* The Tier 2 round trip of demos/zenbedded_tier2_transport_test.  The     *)
(* board (zephyr/src/main.cpp) answers each command with a state; the host *)
(* (ros2/tests/test.py) sends the next command when an answer arrives, or  *)
(* after a second without one.                                             *)
(*                                                                         *)
(* Five actors: main() of the board, which declares the handles; the read  *)
(* task, which copies a command into g_latest_cmd and gives a binary       *)
(* semaphore; the motor thread, which takes it and publishes; the main     *)
(* thread of the host; and the state callback of the host.  The board may  *)
(* be reset at any time.                                                   *)
(*                                                                         *)
(* The network is UDP: it loses, delays, repeats and reorders.  A payload  *)
(* of another size is dropped by both sides, as if it were lost.           *)
(*                                                                         *)
(* Command n carries effort n in each word of its double, and the velocity *)
(* computed from it is n too; one computed from words of two commands      *)
(* keeps the words apart.  The host only prints what is in a state, so of  *)
(* the states in flight it matters whether there are any.                  *)
(***************************************************************************)
EXTENDS Integers

CONSTANTS Words,     \* words in which the board loads and stores a double
          EffortMod, \* bound: commands are numbered modulo EffortMod, from 1
          MaxResets  \* bound: resets of the board

ASSUME PingPongAssumption == Words # {} /\ EffortMod \in Nat \ {0} /\ MaxResets \in Nat

VARIABLES
  (* board *)
  stage,           \* main(): the call it is at
  g_latest_cmd,    \* g_latest_cmd.test_motor_effort
  g_control_sem,   \* g_control_sem
  velocity,        \* g_current_state.test_motor_velocity
  callback,        \* on_command_received(): the command, and the words to copy
  motor,           \* motor_control_thread(): position, and the words to load
  resets,          \* resets so far
  (* network *)
  commands,        \* commands in flight
  states,          \* some state is in flight
  punctual,        \* messages arrive, and answers within the second
  (* host *)
  host,            \* main thread: where it is
  effort,          \* number of the last command sent, 0 before the first
  pong_received

board   == <<stage, g_latest_cmd, g_control_sem, velocity, callback, motor, resets>>
network == <<commands, states, punctual>>
script  == <<host, effort, pong_received>>
vars    == <<board, network, script>>

Efforts == 1 .. EffortMod
Double(n) == [w \in Words |-> n]
NextEffort == (effort % EffortMod) + 1
Idle == [msg |-> 0, todo |-> {}]

BoardReset ==
  /\ stage = "transport_init"
  /\ g_latest_cmd = Double(0) /\ velocity = Double(0)
  /\ g_control_sem = 0
  /\ callback = Idle /\ motor = [at |-> "wait", todo |-> {}]

Init == /\ BoardReset /\ resets = 0
        /\ commands = {} /\ states = FALSE /\ punctual = FALSE
        /\ host = "put" /\ effort = 0 /\ pong_received = FALSE

-----------------------------------------------------------------------------
(* The board: main() *)

(* Each of the three calls succeeds, or main() returns -1. *)
StartUp ==
  /\ \/ stage = "transport_init" /\ stage' \in {"publisher", "returned"}
     \/ stage = "publisher" /\ stage' \in {"subscriber", "returned"}
     \/ stage = "subscriber" /\ stage' \in {"running", "returned"}
  /\ UNCHANGED <<g_latest_cmd, g_control_sem, velocity, callback, motor, resets,
                 network, script>>

(* g_state_pub and g_cmd_sub are set *)
Publishing == stage \in {"subscriber", "running"}
Subscribed == stage = "running"

Reset ==
  /\ resets < MaxResets /\ resets' = resets + 1
  /\ stage' = "transport_init"
  /\ g_latest_cmd' = Double(0) /\ velocity' = Double(0)
  /\ g_control_sem' = 0
  /\ callback' = Idle /\ motor' = [at |-> "wait", todo |-> {}]
  /\ UNCHANGED <<network, script>>

-----------------------------------------------------------------------------
(* The board: on_command_received() *)

(* A message that is delivered may stay in flight and come again. *)
ReceiveCommand(n) ==
  /\ Subscribed /\ callback = Idle /\ n \in commands
  /\ commands' \in {commands, commands \ {n}}
  /\ callback' = [msg |-> n, todo |-> Words]
  /\ UNCHANGED <<stage, g_latest_cmd, g_control_sem, velocity, motor, resets, states,
                 punctual, script>>

(* memcpy(&g_latest_cmd, ...) *)
CopyWord(w) ==
  /\ w \in callback.todo
  /\ g_latest_cmd' = [g_latest_cmd EXCEPT ![w] = callback.msg]
  /\ callback' = [callback EXCEPT !.todo = @ \ {w}]
  /\ UNCHANGED <<stage, g_control_sem, velocity, motor, resets, network, script>>

(* Mutant of Give: a motor thread that is busy is not woken again. *)
GiveIfWaiting ==
  /\ callback # Idle /\ callback.todo = {}
  /\ g_control_sem' = IF motor.at = "wait" THEN 1 ELSE g_control_sem
  /\ callback' = Idle
  /\ UNCHANGED <<stage, g_latest_cmd, velocity, motor, resets, network, script>>

(* k_sem_give(): the limit is 1. *)
Give ==
  /\ callback # Idle /\ callback.todo = {}
  /\ g_control_sem' = 1
  /\ callback' = Idle
  /\ UNCHANGED <<stage, g_latest_cmd, velocity, motor, resets, network, script>>

-----------------------------------------------------------------------------
(* The board: motor_control_thread() *)

(* k_sem_take(K_FOREVER) *)
Take ==
  /\ motor.at = "wait" /\ g_control_sem = 1
  /\ g_control_sem' = 0
  /\ motor' = [at |-> "load", todo |-> Words]
  /\ UNCHANGED <<stage, g_latest_cmd, velocity, callback, resets, network, script>>

(* test_motor_velocity = g_latest_cmd.test_motor_effort * 0.5 *)
LoadWord(w) ==
  /\ motor.at = "load" /\ w \in motor.todo
  /\ velocity' = [velocity EXCEPT ![w] = g_latest_cmd[w]]
  /\ motor' = [motor EXCEPT !.todo = @ \ {w}]
  /\ UNCHANGED <<stage, g_latest_cmd, g_control_sem, callback, resets, network, script>>

(* The publication fails, unnoticed, or sends g_current_state. *)
Publish(sends) ==
  /\ motor.at = "load" /\ motor.todo = {}
  /\ IF sends THEN Publishing ELSE ~(Publishing /\ punctual)
  /\ states' = (sends \/ states)
  /\ motor' = [at |-> "wait", todo |-> {}]
  /\ UNCHANGED <<stage, g_latest_cmd, g_control_sem, velocity, callback, resets,
                 commands, punctual, script>>

-----------------------------------------------------------------------------
(* External: the network loses a message; it becomes punctual for good. *)

Lose == /\ ~punctual
        /\ \/ \E n \in commands : commands' = commands \ {n} /\ UNCHANGED states
           \/ states /\ states' = FALSE /\ UNCHANGED commands
        /\ UNCHANGED <<board, punctual, script>>

Settle == /\ ~punctual /\ punctual' = TRUE
          /\ UNCHANGED <<board, commands, states, script>>

(* An answer is on its way: the punctual system gives it within the second *)
(* that the host waits.                                                    *)
OnItsWay == \/ Subscribed /\ commands # {}
            \/ callback # Idle \/ g_control_sem = 1 \/ motor.at = "load"
            \/ states

-----------------------------------------------------------------------------
(* The host: state_callback() and the main thread *)

state_callback ==
  /\ states
  /\ states' \in BOOLEAN
  /\ pong_received' = TRUE
  /\ UNCHANGED <<board, commands, punctual, host, effort>>

(* pong_received.wait() returns True, or False after a second. *)
Wait ==
  /\ host = "wait"
  /\ pong_received \/ ~(punctual /\ OnItsWay)
  /\ host' = IF pong_received THEN "count" ELSE "recover"
  /\ UNCHANGED <<board, network, effort, pong_received>>

(* Mutant of ClearEvent: the recovery waits for the event to be set again. *)
ClearAndWait ==
  /\ host \in {"count", "recover"}
  /\ pong_received' = FALSE
  /\ host' = IF host = "count" THEN "put" ELSE "wait"
  /\ UNCHANGED <<board, network, effort>>

(* The round trip is counted, or the recovery begins; pong_received.clear() *)
ClearEvent ==
  /\ host \in {"count", "recover"}
  /\ pong_received' = FALSE
  /\ host' = "put"
  /\ UNCHANGED <<board, network, effort>>

(* pub.put(), effort += 0.1 *)
PutCommand ==
  /\ host = "put" /\ host' = "wait"
  /\ effort' = NextEffort
  /\ commands' = commands \cup {NextEffort}
  /\ UNCHANGED <<board, states, punctual, pong_received>>

-----------------------------------------------------------------------------
CallbackStep == Give \/ \E w \in Words : CopyWord(w)
MotorStep    == Take \/ (\E w \in Words : LoadWord(w)) \/ Publish(FALSE) \/ Publish(TRUE)
HostStep     == Wait \/ ClearEvent \/ PutCommand
CommandArrives == \E n \in commands : ReceiveCommand(n)

Next == \/ StartUp \/ Reset
        \/ CommandArrives \/ CallbackStep \/ MotorStep
        \/ state_callback \/ HostStep
        \/ Lose \/ Settle

Spec == Init /\ [][Next]_vars

(* All threads are scheduled.  The network owes nothing until it becomes   *)
(* punctual, which it need not do: LoopRecovers assumes it.                *)
FairSpec == /\ Spec
            /\ WF_vars(StartUp) /\ WF_vars(CallbackStep) /\ WF_vars(MotorStep)
            /\ WF_vars(HostStep)
            /\ WF_vars(CommandArrives) /\ WF_vars(state_callback)

-----------------------------------------------------------------------------
(* Every variable keeps the type the code gives it. *)
TypeOK ==
  /\ stage \in {"transport_init", "publisher", "subscriber", "running", "returned"}
  /\ g_latest_cmd \in [Words -> 0 .. EffortMod] /\ velocity \in [Words -> 0 .. EffortMod]
  /\ g_control_sem \in {0, 1} /\ resets \in 0 .. MaxResets
  /\ callback \in [msg : 0 .. EffortMod, todo : SUBSET Words]
  /\ motor \in [at : {"wait", "load"}, todo : SUBSET Words]
  /\ commands \subseteq Efforts /\ effort \in 0 .. EffortMod
  /\ host \in {"put", "wait", "count", "recover"}
  /\ states \in BOOLEAN /\ pong_received \in BOOLEAN /\ punctual \in BOOLEAN

(* No wake-up is lost although the semaphore holds one and commands come   *)
(* while the motor thread loads or publishes: when the board is quiet the  *)
(* state it has computed answers the command it holds, whole.              *)
LastCommandIsAnswered ==
  (callback = Idle /\ motor.at = "wait" /\ g_control_sem = 0) => velocity = g_latest_cmd

(* "[RECOVERY] Injecting a fresh asynchronous command frame to kick-start  *)
(* loop alignment" (test.py:112): whatever was lost before, and over a     *)
(* reset of the board, once messages arrive in time round trips go on      *)
(* being counted, unless main() has given up.                              *)
LoopRecovers == <>punctual => <>[](stage = "returned") \/ []<>(host = "count")

=============================================================================
