------------------------------ MODULE SineWave ------------------------------
(***************************************************************************)
(* The sine wave demo end to end: sine_wave_controller.cpp and the         *)
(* commands of ZenbeddedHardware in the cycle of the controller manager,   *)
(* the network, and the firmware of sine_wave_zephyr.  The controller      *)
(* computes a command from the time since its activation, the hardware     *)
(* sends it in every cycle, and the firmware takes its size as the         *)
(* amplitude of the wave that it generates.                                *)
(*                                                                         *)
(* Time is the phase of the sine, one cycle of the manager after another.  *)
(* The command buffer of the client is the atomic register that            *)
(* DoubleBuffer implements.  States go the other way and influence         *)
(* nothing; HardwareInterface has what becomes of them.                    *)
(*                                                                         *)
(* External: the manager, which deactivates a controller whose update()    *)
(* failed and the controllers of a component it deactivates, and a network *)
(* that loses, delays and reorders.                                        *)
(***************************************************************************)
EXTENDS Integers

CONSTANTS Default,   \* wave_amp of a board that has just started
          Offset,    \* parameter "offset"
          NaN, None, \* not a number; no time
          MaxResets  \* bound: restarts of the board

ASSUME SineWaveAssumption ==
  /\ Default \in Nat /\ Offset \in Int /\ MaxResets \in Nat
  /\ NaN \notin Int /\ None \notin Int

Phases == 0 .. 3
Sine(t) == CASE t = 1 -> 1 [] t = 3 -> -1 [] OTHER -> 0
Value(t) == Offset + Sine(t % 4)     \* "amplitude" is the unit
Values == {Value(t) : t \in Phases} \cup {0}
Abs(v) == IF v < 0 THEN -v ELSE v

VARIABLES
  (* host *)
  controller, \* life cycle of the controller
  start_time, \* start_time_, None when start_time_set_ is false
  component,  \* life cycle of the hardware component
  command,    \* hw_commands_[0]
  now, step,  \* the cycle of the controller manager
  (* network *)
  wire,       \* commands in flight
  (* board *)
  stage,      \* main(): where it is
  buffer,     \* the command buffer
  cmd_recv, wave_amp,
  resets,
  (* history variables *)
  first,      \* time of the first update() since the controller was activated
  computed,   \* the last value the controller has set, 0 before the first
  got         \* a command other than zero has reached the board since its start

host  == <<controller, start_time, component, command, now, step, first, computed>>
board == <<stage, buffer, cmd_recv, wave_amp, resets, got>>
vars  == <<host, wire, board>>

Init ==
  /\ controller = "unconfigured" /\ start_time = None
  /\ component = "inactive" /\ command = NaN
  /\ now = 0 /\ step = "update" /\ first = None /\ computed = 0
  /\ wire = {}
  /\ stage = "wifi" /\ buffer = 0 /\ cmd_recv = FALSE /\ wave_amp = Default
  /\ resets = 0 /\ got = FALSE

-----------------------------------------------------------------------------
(* The host: life cycles.  The manager changes them between two cycles. *)

on_configure ==
  /\ step = "update" /\ controller = "unconfigured" /\ controller' = "inactive"
  /\ UNCHANGED <<start_time, component, command, now, step, first, computed, wire, board>>

(* Mutant of on_activate: the phase clock goes on. *)
on_activate_resumes ==
  /\ step = "update" /\ component = "active"
  /\ controller = "inactive" /\ controller' = "active"
  /\ first' = None
  /\ UNCHANGED <<start_time, component, command, now, step, computed, wire, board>>

(* A controller needs the command interface of an active component. *)
on_activate ==
  /\ step = "update" /\ component = "active"
  /\ controller = "inactive" /\ controller' = "active"
  /\ start_time' = None /\ first' = None
  /\ UNCHANGED <<component, command, now, step, computed, wire, board>>

on_deactivate ==
  /\ step = "update" /\ controller = "active" /\ controller' = "inactive"
  /\ UNCHANGED <<start_time, component, command, now, step, first, computed, wire, board>>

(* Mutant of ActivateHardware: every activation starts from zero. *)
ActivateHardwareAtZero ==
  /\ step = "update" /\ component = "inactive" /\ component' = "active"
  /\ command' = 0
  /\ UNCHANGED <<controller, start_time, now, step, first, computed, wire, board>>

(* ZenbeddedHardware::on_activate() replaces a command that is NaN.  One   *)
(* that fails leaves the commands alone; HardwareInterface has those.      *)
ActivateHardware ==
  /\ step = "update" /\ component = "inactive" /\ component' = "active"
  /\ command' = IF command = NaN THEN 0 ELSE command
  /\ UNCHANGED <<controller, start_time, now, step, first, computed, wire, board>>

DeactivateHardware ==
  /\ step = "update" /\ component = "active" /\ component' = "inactive"
  /\ controller' = IF controller = "active" THEN "inactive" ELSE controller
  /\ UNCHANGED <<start_time, command, now, step, first, computed, wire, board>>

-----------------------------------------------------------------------------
(* The host: update() and write() *)

(* update() of an active controller; set_value() may fail. *)
update ==
  LET start == IF start_time = None THEN now ELSE start_time
      value == Value(now - start)
  IN
  /\ step = "update" /\ step' = "write" /\ controller = "active"
  /\ start_time' = start
  /\ first' = IF first = None THEN now ELSE first
  /\ \/ command' = value /\ computed' = value /\ UNCHANGED controller
     \/ controller' = "inactive" /\ UNCHANGED <<command, computed>>
  /\ UNCHANGED <<component, now, wire, board>>

NoUpdate ==
  /\ step = "update" /\ step' = "write" /\ controller # "active"
  /\ UNCHANGED <<controller, start_time, component, command, now, first, computed, wire,
                 board>>

EndCycle == step = "write" /\ step' = "update" /\ now' = (now + 1) % 4

(* Mutant of write: a command is only sent when it is new. *)
write_changes ==
  /\ EndCycle
  /\ wire' = IF component = "active" /\ controller = "active" THEN wire \cup {command}
                                                              ELSE wire
  /\ UNCHANGED <<controller, start_time, component, command, first, computed, board>>

(* write() has a publisher while the component is active. *)
write ==
  /\ EndCycle
  /\ wire' = IF component = "active" THEN wire \cup {command} ELSE wire
  /\ UNCHANGED <<controller, start_time, component, command, first, computed, board>>

-----------------------------------------------------------------------------
(* The network and the board *)

Lose(v) == v \in wire /\ wire' = wire \ {v} /\ UNCHANGED <<host, board>>

(* on_transport_cmd_cb() of the client *)
Deliver(v) ==
  /\ v \in wire /\ wire' = wire \ {v}
  /\ stage = "loop"
  /\ buffer' = v
  /\ got' = (got \/ v # 0)
  /\ UNCHANGED <<host, stage, cmd_recv, wave_amp, resets>>

(* WiFi within 15 s, an IPv4 address at any time or never, client.init() *)
StartUp ==
  /\ \/ stage = "wifi" /\ stage' \in {"wifi", "ip", "returned"}
     \/ stage = "ip" /\ stage' \in {"ip", "client"}
     \/ stage = "client" /\ stage' \in {"loop", "returned"}
  /\ UNCHANGED <<host, wire, buffer, cmd_recv, wave_amp, resets, got>>

(* Mutant of Loop: every command is taken, also the zero of a new buffer. *)
LoopTakesZero ==
  /\ stage = "loop"
  /\ cmd_recv' = TRUE /\ wave_amp' = Abs(buffer)
  /\ UNCHANGED <<host, wire, stage, buffer, resets, got>>

(* Reads the command; zero counts once another command has been seen. *)
Loop ==
  /\ stage = "loop"
  /\ cmd_recv' = (cmd_recv \/ buffer # 0)
  /\ wave_amp' = IF cmd_recv' THEN Abs(buffer) ELSE wave_amp
  /\ UNCHANGED <<host, wire, stage, buffer, resets, got>>

Restart ==
  /\ resets < MaxResets /\ resets' = resets + 1
  /\ stage' = "wifi" /\ buffer' = 0 /\ cmd_recv' = FALSE /\ wave_amp' = Default
  /\ got' = FALSE
  /\ UNCHANGED <<host, wire>>

-----------------------------------------------------------------------------
LifeCycle == \/ on_configure \/ on_activate \/ on_deactivate
             \/ ActivateHardware \/ DeactivateHardware
Cycle == update \/ NoUpdate \/ write

Next == \/ LifeCycle \/ Cycle
        \/ \E v \in Values : Deliver(v) \/ Lose(v)
        \/ StartUp \/ Loop \/ Restart

Spec == Init /\ [][Next]_vars

(* The manager goes through its cycles and main() through its loop.  A     *)
(* command that is sent again and again arrives now and then.              *)
FairSpec == /\ Spec
            /\ WF_vars(Cycle) /\ WF_vars(Loop)
            /\ \A v \in Values : SF_vars(Deliver(v))

-----------------------------------------------------------------------------
(* Every variable keeps the type the code gives it. *)
TypeOK ==
  /\ controller \in {"unconfigured", "inactive", "active"}
  /\ component \in {"inactive", "active"}
  /\ start_time \in Phases \cup {None} /\ first \in Phases \cup {None}
  /\ command \in Values \cup {NaN} /\ computed \in Values
  /\ now \in Phases /\ step \in {"update", "write"}
  /\ wire \subseteq Values /\ buffer \in Values
  /\ stage \in {"wifi", "ip", "client", "loop", "returned"}
  /\ cmd_recv \in BOOLEAN /\ got \in BOOLEAN /\ resets \in 0 .. MaxResets
  /\ wave_amp \in {Default} \cup {Abs(v) : v \in Values}

(* "Reset the phase clock every time the controller is (re)activated"      *)
(* (sine_wave_controller.cpp:80): whatever happened in earlier activations *)
(* of the controller and of the component, and although on_deactivate()    *)
(* does nothing, the wave begins with the first update().                  *)
PhaseFollowsActivation ==
  (step = "write" /\ controller = "active") => command = Value(now - first)

(* What an active component sends is the last value a controller has set,  *)
(* or zero: a component that is activated again goes on with the command   *)
(* of its previous activation until a controller runs, and never sends NaN *)
(* (zenbedded_hardware.cpp:156).                                           *)
CommandIsLastComputed == component = "active" => command = computed

(* The board tells the zeros of a new buffer from a command of zero: its   *)
(* amplitude is the default until a command other than zero has reached    *)
(* it, over any number of restarts and with commands sent before them.     *)
DefaultUntilCommand == ~got => wave_amp = Default

(* A command that the host holds reaches every board that stays up, also   *)
(* one that restarts when no controller is active any more: write()        *)
(* publishes in every cycle and not only when the command changes.         *)
BoardFollows ==
  \A v \in Values \ {0} :
    <>[](component = "active" /\ command = v /\ stage = "loop") =>
      <>[](wave_amp = Abs(v))

=============================================================================
