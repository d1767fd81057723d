-------------------------- MODULE HardwareInterface --------------------------
(***************************************************************************)
(* ZenbeddedHardware, the ros2_control plugin of the host                  *)
(* (zenbedded_hardware.cpp).  Three actors: the controller manager, which  *)
(* calls the life cycle callbacks; the control loop, which calls read(),   *)
(* the controllers and write(); and the Zenoh callback, which puts states  *)
(* of the firmware into a RealtimeBuffer.                                  *)
(*                                                                         *)
(* The manager calls life cycle callbacks, read() and write() one at a     *)
(* time, so the first two actors interleave only between calls; the Zenoh  *)
(* callback runs at any moment.  Each session has threads of its own and   *)
(* runs the callback for one message at a time; it may finish after its    *)
(* subscriber is gone, and while the callback of a later session runs.     *)
(*                                                                         *)
(* External: RealtimeBuffer has two copies of the data, one for each side, *)
(* and a lock.  The writer waits for the lock, fills its copy and marks    *)
(* it as new.  The reader only tries the lock; if it gets it and there is  *)
(* something new, the copies are swapped.  A session is closed when the    *)
(* pointer that owns it is replaced; a put() through a publisher of a      *)
(* closed session throws, any other put() may.                             *)
(*                                                                         *)
(* State message n has n in each of its fields; 0 is the zeroed buffer.  A *)
(* vector is a function on its fields; one without fields is empty.        *)
(***************************************************************************)
EXTENDS Integers

CONSTANTS StateFields, CommandFields, \* the fields of the schema
          NaN,                        \* a double that is not a number
          Commands,                   \* the numbers controllers set
          MaxMessages, MaxSessions    \* bounds: states received, sessions opened

ASSUME HardwareAssumption ==
  /\ NaN \notin Int /\ Commands \subseteq Int
  /\ MaxMessages \in Nat /\ MaxSessions \in Nat

VARIABLES
  cm,          \* life cycle state the controller manager has in mind
  session_, state_sub_, command_pub_, \* the session, and the one each was declared on; 0: null
  hw_states_, hw_commands_,           \* what the interfaces point to
  realtime, nonRealtime, isNew,       \* RealtimeBuffer: copies and new_data_available_
  callback,    \* the callback of each session: position, message, fields still to be written
  reading,     \* the fields read() has still to convert
  command,     \* history: the last command published, empty before
  opened,      \* history: sessions opened so far
  thrown,      \* history: a put() has thrown since the last activation that succeeded
  received, stored, \* history: number of the last message that arrived, that was stored
  from,        \* history: the session each message arrived on
  seen         \* history: stored, when read() last got the lock

zenoh  == <<session_, state_sub_, command_pub_, opened>>
buffer == <<realtime, nonRealtime, isNew>>
history == <<received, stored, from, seen>>
vars == <<cm, zenoh, hw_states_, hw_commands_, buffer, callback, reading, command,
          thrown, history>>

Sessions == 1 .. MaxSessions
Empty == [f \in {} |-> 0]
Filled(fields, v) == [f \in fields |-> v]
Idle == [at |-> "idle", msg |-> 0, todo |-> {}]

Init ==
  /\ cm = "created"
  /\ session_ = 0 /\ state_sub_ = 0 /\ command_pub_ = 0 /\ opened = 0
  /\ hw_states_ = Empty /\ hw_commands_ = Empty
  /\ realtime = Empty /\ nonRealtime = Empty /\ isNew = FALSE
  /\ callback = [s \in Sessions |-> Idle] /\ reading = {}
  /\ command = Empty /\ thrown = FALSE
  /\ received = 0 /\ stored = 0 /\ from = [n \in 0 .. MaxMessages |-> 0] /\ seen = 0

-----------------------------------------------------------------------------
(* The controller manager.  A component that failed is given up, or        *)
(* configured once more.                                                   *)

(* The vectors hold NaN and the buffer is given zeros. *)
InitOk ==
  /\ hw_states_' = Filled(StateFields, NaN) /\ hw_commands_' = Filled(CommandFields, NaN)
  /\ nonRealtime' = Filled(StateFields, 0) /\ isNew' = TRUE
  /\ cm' = "inactive"

(* A parameter or the schema may be missing or wrong; the plugin is then   *)
(* not used.                                                               *)
on_init ==
  /\ cm = "created"
  /\ \/ InitOk
     \/ cm' = "refused" /\ UNCHANGED <<hw_states_, hw_commands_, nonRealtime, isNew>>
  /\ UNCHANGED <<zenoh, realtime, callback, reading, command, thrown, history>>

Zeroed(v) == [f \in DOMAIN v |-> IF v[f] = NaN THEN 0 ELSE v[f]]

(* Mutant of ActivateOk: the states are zeroed even if they are known. *)
ActivateResets ==
  /\ session_' = opened + 1 /\ state_sub_' = opened + 1 /\ command_pub_' = opened + 1
  /\ hw_states_' = Filled(StateFields, 0) /\ hw_commands_' = Zeroed(hw_commands_)
  /\ cm' = "active" /\ thrown' = FALSE

(* Mutant of ActivateOk: the loop over the commands is missing. *)
ActivateStatesOnly ==
  /\ session_' = opened + 1 /\ state_sub_' = opened + 1 /\ command_pub_' = opened + 1
  /\ hw_states_' = Zeroed(hw_states_) /\ UNCHANGED hw_commands_
  /\ cm' = "active" /\ thrown' = FALSE

ActivateOk ==
  /\ session_' = opened + 1 /\ state_sub_' = opened + 1 /\ command_pub_' = opened + 1
  /\ hw_states_' = Zeroed(hw_states_) /\ hw_commands_' = Zeroed(hw_commands_)
  /\ cm' = "active" /\ thrown' = FALSE

(* One of the three calls throws: what was assigned before it stays. *)
ActivateFails ==
  /\ \/ UNCHANGED <<session_, state_sub_>>
     \/ session_' = opened + 1 /\ state_sub_' \in {state_sub_, opened + 1}
  /\ cm' = "failed"
  /\ UNCHANGED <<command_pub_, hw_states_, hw_commands_, thrown>>

on_activate ==
  /\ cm = "inactive" /\ reading = {} /\ opened < MaxSessions
  /\ opened' = opened + 1
  /\ ActivateOk \/ ActivateFails
  /\ UNCHANGED <<buffer, callback, reading, command, history>>

(* Mutant of on_deactivate: the publisher is kept. *)
on_deactivate_keeps_publisher ==
  /\ cm = "active" /\ reading = {}
  /\ state_sub_' = 0 /\ session_' = 0
  /\ cm' = "inactive"
  /\ UNCHANGED <<command_pub_, opened, hw_states_, hw_commands_, buffer, callback,
                 reading, command, thrown, history>>

on_deactivate ==
  /\ cm = "active" /\ reading = {}
  /\ state_sub_' = 0 /\ command_pub_' = 0 /\ session_' = 0
  /\ cm' = "inactive"
  /\ UNCHANGED <<opened, hw_states_, hw_commands_, buffer, callback, reading,
                 command, thrown, history>>

(* External: the manager tries a component that failed again.  Nothing has *)
(* told the plugin: what it had is still there.                            *)
Recover ==
  /\ cm = "failed"
  /\ cm' = "inactive"
  /\ UNCHANGED <<zenoh, hw_states_, hw_commands_, buffer, callback, reading,
                 command, thrown, history>>

-----------------------------------------------------------------------------
(* The Zenoh callback of session s *)

(* Sessions close when session_ is replaced, and with them their           *)
(* subscribers.                                                            *)
Subscribed == state_sub_ # 0 /\ state_sub_ = session_

(* A message of the right size waits for the lock; any other is dropped. *)
ReceiveState(s) ==
  /\ Subscribed /\ s = state_sub_ /\ callback[s] = Idle /\ received < MaxMessages
  /\ received' = received + 1 /\ from' = [from EXCEPT ![received + 1] = s]
  /\ \/ callback' = [callback EXCEPT ![s] =
                       [at |-> "lock", msg |-> received + 1, todo |-> StateFields]]
     \/ UNCHANGED callback
  /\ UNCHANGED <<cm, zenoh, hw_states_, hw_commands_, buffer, reading, command, thrown,
                 stored, seen>>

Locked == \E s \in Sessions : callback[s].at = "copy"

(* writeFromNonRT() *)
LockBuffer(s) ==
  /\ callback[s].at = "lock" /\ ~Locked
  /\ callback' = [callback EXCEPT ![s].at = "copy"]
  /\ UNCHANGED <<cm, zenoh, hw_states_, hw_commands_, buffer, reading, command, thrown,
                 history>>

(* The vector grows with the first field if it was empty. *)
CopyField(s, f) ==
  /\ callback[s].at = "copy" /\ f \in callback[s].todo
  /\ LET old == IF nonRealtime = Empty THEN Filled(StateFields, 0) ELSE nonRealtime
     IN  nonRealtime' = [old EXCEPT ![f] = callback[s].msg]
  /\ callback' = [callback EXCEPT ![s].todo = @ \ {f}]
  /\ UNCHANGED <<cm, zenoh, hw_states_, hw_commands_, realtime, isNew, reading,
                 command, thrown, history>>

UnlockBuffer(s) ==
  /\ callback[s].at = "copy" /\ callback[s].todo = {}
  /\ isNew' = TRUE /\ stored' = callback[s].msg
  /\ callback' = [callback EXCEPT ![s] = Idle]
  /\ UNCHANGED <<cm, zenoh, hw_states_, hw_commands_, realtime, nonRealtime, reading,
                 command, thrown, received, from, seen>>

-----------------------------------------------------------------------------
(* The control loop *)

Looping == cm \in {"inactive", "active"}

readFromRT ==
  IF Locked \/ ~isNew
  THEN UNCHANGED buffer /\ seen' = IF Locked THEN seen ELSE stored
  ELSE /\ realtime' = nonRealtime /\ nonRealtime' = realtime
       /\ isNew' = FALSE /\ seen' = stored

(* Mutant of read: the comparison of the sizes never holds. *)
read_unequal ==
  /\ Looping /\ reading = {}
  /\ readFromRT
  /\ reading' = IF DOMAIN realtime' = StateFields THEN {} ELSE DOMAIN realtime'
  /\ UNCHANGED <<cm, zenoh, hw_states_, hw_commands_, callback, command, thrown,
                 received, stored, from>>

(* read(): take the buffer and, if it has the size of the schema, convert  *)
(* it field by field.                                                      *)
read ==
  /\ Looping /\ reading = {}
  /\ readFromRT
  /\ reading' = IF DOMAIN realtime' = StateFields THEN StateFields ELSE {}
  /\ UNCHANGED <<cm, zenoh, hw_states_, hw_commands_, callback, command, thrown,
                 received, stored, from>>

(* Mutant of read_state_field: the buffer is taken anew for each field. *)
read_state_field_anew(f) ==
  /\ f \in reading
  /\ readFromRT
  /\ hw_states_' = [hw_states_ EXCEPT ![f] = realtime'[f]]
  /\ reading' = reading \ {f}
  /\ UNCHANGED <<cm, zenoh, hw_commands_, callback, command, thrown, received, stored, from>>

read_state_field(f) ==
  /\ f \in reading
  /\ hw_states_' = [hw_states_ EXCEPT ![f] = realtime[f]]
  /\ reading' = reading \ {f}
  /\ UNCHANGED <<cm, zenoh, hw_commands_, buffer, callback, command, thrown, history>>

(* External: a controller sets one command interface, in its update(). *)
SetCommand(f, v) ==
  /\ cm = "active" /\ reading = {}
  /\ hw_commands_' = [hw_commands_ EXCEPT ![f] = v]
  /\ UNCHANGED <<cm, zenoh, hw_states_, buffer, callback, reading, command, thrown, history>>

(* write(): nothing happens without a publisher.  What put() throws leaves *)
(* write(); the manager takes the component as failed and does not call    *)
(* on_deactivate().                                                        *)
write ==
  /\ Looping /\ reading = {} /\ command_pub_ # 0
  /\ \/ command_pub_ = session_ /\ command' = hw_commands_ /\ UNCHANGED <<cm, thrown>>
     \/ cm' = "failed" /\ thrown' = TRUE /\ UNCHANGED command
  /\ UNCHANGED <<zenoh, hw_states_, hw_commands_, buffer, callback, reading, history>>

Store(s) == LockBuffer(s) \/ UnlockBuffer(s) \/ \E f \in StateFields : CopyField(s, f)
Callback == \E s \in Sessions : ReceiveState(s) \/ Store(s)
Read     == read \/ \E f \in StateFields : read_state_field(f)

Next == \/ on_init \/ on_activate \/ on_deactivate \/ Recover
        \/ Callback \/ Read \/ write
        \/ \E f \in CommandFields, v \in Commands : SetCommand(f, v)

(* The control loop is periodic and a callback, once entered, goes on.     *)
Fairness == WF_vars(Read) /\ WF_vars(\E s \in Sessions : Store(s))

Spec == Init /\ [][Next]_vars /\ Fairness

-----------------------------------------------------------------------------
(* Types; vectors and buffers have the sizes of the schema, the states and *)
(* the commands each their own, or are still empty (on_init()).            *)
TypeOK ==
  /\ cm \in {"created", "refused", "inactive", "active", "failed"}
  /\ session_ \in 0 .. opened /\ state_sub_ \in 0 .. opened /\ command_pub_ \in 0 .. opened
  /\ opened \in 0 .. MaxSessions
  /\ hw_states_ \in [StateFields -> 0 .. MaxMessages \cup {NaN}] \cup {Empty}
  /\ hw_commands_ \in [CommandFields -> Commands \cup {0, NaN}] \cup {Empty}
  /\ realtime \in [StateFields -> 0 .. MaxMessages] \cup {Empty}
  /\ nonRealtime \in [StateFields -> 0 .. MaxMessages] \cup {Empty}
  /\ isNew \in BOOLEAN
  /\ callback \in [Sessions -> [at : {"idle", "lock", "copy"}, msg : 0 .. MaxMessages,
                                todo : SUBSET StateFields]]
  /\ thrown \in BOOLEAN
  /\ reading \subseteq StateFields
  /\ command \in [CommandFields -> Commands \cup {0, NaN}] \cup {Empty}
  /\ received \in 0 .. MaxMessages /\ stored \in 0 .. received /\ seen \in 0 .. received
  /\ from \in [0 .. MaxMessages -> 0 .. MaxSessions]

(* Between two calls of read() the state interfaces show one message, all  *)
(* fields of it, however the callback was interleaved with the field by    *)
(* field conversion; and it is the last one that was stored when read()    *)
(* last got hold of the lock.  Only before the first message the states    *)
(* may be NaN, or zero.                                                    *)
StatesAreOneMessage ==
  (reading = {} /\ Looping) =>
    \/ hw_states_ = Filled(StateFields, seen)
    \/ seen = 0 /\ hw_states_ = Filled(StateFields, NaN)

(* Every command on the wire is a number: before the first activation,     *)
(* when hw_commands_ is still NaN, write() has no publisher, and           *)
(* on_activate() replaces NaN in all fields before anything is written.    *)
CommandsAreNumbers == \A f \in DOMAIN command : command[f] # NaN

(* An active component has a publisher.  A publisher belongs, like the     *)
(* subscriber, to the open session, and the component is active, through   *)
(* any sequence of activations that fail in the middle and are repeated;   *)
(* the one exception is the publisher that write() left behind when put()  *)
(* threw, until the next activation that succeeds.                         *)
PublisherIsAlive ==
  /\ cm = "active" => command_pub_ # 0
  /\ command_pub_ # 0 =>
       thrown \/ (command_pub_ = session_ /\ state_sub_ = session_ /\ cm = "active")

(* The states never go back to an older message of the same session, nor   *)
(* to zero; they go back to an older one only when the callback of an      *)
(* earlier session stored it late, over one of a later session.            *)
StatesGoForward ==
  [][\A f \in DOMAIN hw_states_ : hw_states_[f] # NaN =>
       \/ hw_states_'[f] >= hw_states_[f]
       \/ hw_states_'[f] # 0 /\ from[hw_states_'[f]] < from[hw_states_[f]]]_hw_states_

(* A message that was stored is shown by the interfaces in the end, or a   *)
(* later one is, unless the component has failed or the late callback of   *)
(* an earlier session has stored an older one over it: a read() that finds *)
(* the lock taken is made good by another.                                 *)
StoredIsShown ==
  \A n \in 1 .. MaxMessages :
    (stored = n) ~> \/ cm = "failed" \/ stored < n
                    \/ hw_states_ \in [StateFields -> n .. MaxMessages]
=============================================================================
