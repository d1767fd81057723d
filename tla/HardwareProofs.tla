--------------------------- MODULE HardwareProofs ---------------------------
(***************************************************************************)
(* The hardware interface of the host, for every schema, every number of   *)
(* messages and of activations: states are never mixed, go back only with  *)
(* a late callback of an earlier session, commands are numbers, and write()*)
(* has a live publisher, none, or the one it left behind when put() threw. *)
(***************************************************************************)
EXTENDS HardwareInterface, TLAPS

Configured == cm \in {"inactive", "active", "failed"}

(* Until on_init() has succeeded nothing has been given a size. *)
Unconfigured ==
  ~Configured =>
    /\ session_ = 0 /\ state_sub_ = 0 /\ command_pub_ = 0
    /\ hw_states_ = Empty /\ hw_commands_ = Empty
    /\ realtime = Empty /\ nonRealtime = Empty /\ ~isNew
    /\ callback = [s \in Sessions |-> Idle] /\ reading = {} /\ command = Empty
    /\ received = 0 /\ stored = 0 /\ seen = 0

(* Afterwards the vectors have the sizes of the schema, and once there is  *)
(* a publisher there is no NaN among the commands.                         *)
Sized ==
  Configured =>
    /\ hw_states_ \in [StateFields -> 0 .. MaxMessages \cup {NaN}]
    /\ hw_commands_ \in [CommandFields -> Commands \cup {0, NaN}]
    /\ command_pub_ # 0 => \A f \in CommandFields : hw_commands_[f] # NaN

(* Messages arrive in the order of the sessions. *)
FromInv ==
  /\ \A m, n \in 0 .. received : m <= n => from[m] <= from[n]
  /\ \A n \in 0 .. received : /\ from[n] <= opened
                              /\ session_ # 0 => from[n] <= session_

(* The fields a callback has written are those of its message.             *)
CopyInv(s) ==
  /\ callback[s].at = "idle" => callback[s] = Idle
  /\ callback[s].at = "lock" => callback[s].todo = StateFields
  /\ callback[s].at = "copy" /\ callback[s].todo # StateFields =>
       /\ nonRealtime \in [StateFields -> 0 .. MaxMessages]
       /\ \A f \in StateFields \ callback[s].todo : nonRealtime[f] = callback[s].msg

(* Only one callback copies, and the message of a callback came on its     *)
(* session after all those of this session that have been stored.          *)
CallbackInv ==
  /\ \A s \in Sessions : CopyInv(s)
  /\ \A s, t \in Sessions : callback[s].at = "copy" /\ callback[t].at = "copy" => s = t
  /\ \A s \in Sessions : callback[s].at # "idle" =>
       /\ callback[s].msg \in 1 .. received /\ from[callback[s].msg] = s
       /\ from[stored] = s => stored < callback[s].msg
       /\ from[seen] = s => seen < callback[s].msg

(* Message b may come after message a: it is not older, or it is one of an *)
(* earlier session.                                                        *)
Follows(a, b) == a <= b \/ (b # 0 /\ from[b] < from[a])

(* The copy of the reader is the message it last saw, whole; the copy of   *)
(* the writer, when it is new and nobody is writing it, the last stored.   *)
BufferInv ==
  Configured =>
    /\ Follows(seen, stored)
    /\ isNew /\ ~Locked => nonRealtime = Filled(StateFields, stored)
    /\ ~isNew => stored = seen /\ realtime = Filled(StateFields, seen)
    /\ \/ realtime = Filled(StateFields, seen)
       \/ realtime = Empty /\ seen = 0

(* In the middle of read() the fields converted show the message seen, the *)
(* others an older one; afterwards all show the same.                      *)
ReadInv ==
  Configured =>
    /\ reading = {} => \/ hw_states_ = Filled(StateFields, seen)
                       \/ seen = 0 /\ hw_states_ = Filled(StateFields, NaN)
    /\ reading # {} =>
         /\ cm # "failed"
         /\ realtime = Filled(StateFields, seen)
         /\ \A f \in StateFields \ reading : hw_states_[f] = seen
         /\ \A f \in StateFields : hw_states_[f] # NaN =>
              hw_states_[f] \in 0 .. received /\ Follows(hw_states_[f], seen)

IInv == /\ TypeOK /\ Unconfigured /\ Sized /\ FromInv /\ CallbackInv /\ BufferInv /\ ReadInv
        /\ PublisherIsAlive /\ CommandsAreNumbers
-----------------------------------------------------------------------------
USE HardwareAssumption DEF HardwareAssumption

(* Vectors: one that is not empty has the fields of the schema. *)

LEMMA FilledType ==
  ASSUME NEW S, NEW T, NEW v \in T PROVE Filled(S, v) \in [S -> T]
BY DEF Filled

LEMMA FilledFields ==
  ASSUME NEW S, NEW v PROVE DOMAIN Filled(S, v) = S /\ \A f \in S : Filled(S, v)[f] = v
BY DEF Filled

LEMMA IsFilled ==
  ASSUME NEW S, NEW T, NEW x \in [S -> T], NEW v, \A f \in S : x[f] = v
  PROVE  x = Filled(S, v)
BY DEF Filled

LEMMA EmptyIsSmaller ==
  DOMAIN Empty = {} /\ (StateFields # {} => \A T : Empty \notin [StateFields -> T])
BY DEF Empty

LEMMA EmptyIsAll ==
  ASSUME StateFields = {}, NEW T, NEW x \in [StateFields -> T] \cup {Empty}, NEW v
  PROVE  x \in [StateFields -> T] /\ x = Filled(StateFields, v)
BY DEF Empty, Filled

LEMMA ZeroedFields ==
  ASSUME NEW S, NEW T, NEW x \in [S -> T \cup {NaN}]
  PROVE  /\ Zeroed(x) \in [S -> T \cup {0}]
         /\ \A f \in S : Zeroed(x)[f] = IF x[f] = NaN THEN 0 ELSE x[f]
BY DEF Zeroed

LEMMA NaNIsNoCommand == NaN \notin Commands \cup {0}
<1>1. NaN \notin Commands
  OBVIOUS
<1>2. 0 \in Int
  OBVIOUS
<1>3. NaN # 0
  BY <1>2
<1> QED
  BY <1>1, <1>3

LEMMA IdleType ==
  Idle \in [at : {"idle", "lock", "copy"}, msg : 0 .. MaxMessages, todo : SUBSET StateFields]
BY DEF Idle

LEMMA InitIInv == Init => IInv
<1> SUFFICES ASSUME Init PROVE IInv
  OBVIOUS
<1>1. TypeOK
  <2>1. callback \in [Sessions -> [at : {"idle", "lock", "copy"}, msg : 0 .. MaxMessages,
                                   todo : SUBSET StateFields]]
    BY IdleType DEF Init
  <2>2. isNew \in BOOLEAN /\ thrown \in BOOLEAN
    BY DEF Init
  <2>3. from \in [0 .. MaxMessages -> 0 .. MaxSessions]
    BY DEF Init
  <2> QED
    BY <2>1, <2>2, <2>3 DEF Init, TypeOK
<1>2. Unconfigured /\ Sized /\ BufferInv /\ ReadInv
  BY DEF Init, Unconfigured, Sized, BufferInv, ReadInv, Configured
<1>3. CallbackInv /\ FromInv /\ PublisherIsAlive
  BY DEF Init, CallbackInv, CopyInv, FromInv, PublisherIsAlive, Idle
<1>4. CommandsAreNumbers
  BY EmptyIsSmaller DEF Init, CommandsAreNumbers
<1> QED
  BY <1>1, <1>2, <1>3, <1>4 DEF IInv

LEMMA TypePreserved == IInv /\ [Next]_vars => TypeOK'
<1> SUFFICES ASSUME TypeOK, Unconfigured, Sized, CallbackInv, ReadInv, [Next]_vars
             PROVE  TypeOK'
  BY DEF IInv
<1> USE DEF TypeOK, zenoh, buffer, history
<1>1. CASE on_init
  <2>1. CASE InitOk
    <3>1. 0 \in 0 .. MaxMessages
      OBVIOUS
    <3>2. /\ hw_states_' \in [StateFields -> 0 .. MaxMessages \cup {NaN}]
          /\ hw_commands_' \in [CommandFields -> Commands \cup {0, NaN}]
          /\ nonRealtime' \in [StateFields -> 0 .. MaxMessages]
      BY <2>1, <3>1, FilledType DEF InitOk
    <3> QED
      BY <1>1, <2>1, <3>2 DEF on_init, InitOk
  <2>2. CASE cm' = "refused" /\ UNCHANGED <<hw_states_, hw_commands_, nonRealtime, isNew>>
    BY <1>1, <2>2 DEF on_init
  <2> QED
    BY <1>1, <2>1, <2>2 DEF on_init
<1>2. CASE on_activate
  <2>1. opened + 1 \in 0 .. MaxSessions
    BY <1>2 DEF on_activate
  <2>2. CASE ActivateOk
    <3>1. /\ hw_states_ \in [StateFields -> 0 .. MaxMessages \cup {NaN}]
          /\ hw_commands_ \in [CommandFields -> (Commands \cup {0}) \cup {NaN}]
      BY <1>2 DEF on_activate, Sized, Configured
    <3>2. /\ hw_states_' \in [StateFields -> 0 .. MaxMessages \cup {0}]
          /\ hw_commands_' \in [CommandFields -> (Commands \cup {0}) \cup {0}]
      BY <2>2, <3>1, ZeroedFields DEF ActivateOk
    <3>3. /\ hw_states_' \in [StateFields -> 0 .. MaxMessages \cup {NaN}]
          /\ hw_commands_' \in [CommandFields -> Commands \cup {0, NaN}]
      BY <3>2
    <3>4. thrown' \in BOOLEAN
      BY <2>2 DEF ActivateOk
    <3> QED
      BY <1>2, <2>1, <2>2, <3>3, <3>4 DEF on_activate, ActivateOk
  <2>3. CASE ActivateFails
    BY <1>2, <2>1, <2>3 DEF on_activate, ActivateFails
  <2> QED
    BY <1>2, <2>2, <2>3 DEF on_activate
<1>3. CASE on_deactivate
  BY <1>3 DEF on_deactivate
<1>4. CASE Recover
  BY <1>4 DEF Recover
<1> DEFINE Place == [at : {"idle", "lock", "copy"}, msg : 0 .. MaxMessages,
                     todo : SUBSET StateFields]
<1>5. ASSUME NEW s \in Sessions, ReceiveState(s) PROVE TypeOK'
  <2>1. received + 1 \in 0 .. MaxMessages /\ s \in 0 .. MaxSessions
    BY <1>5 DEF ReceiveState, Sessions
  <2>2. callback' \in [Sessions -> Place]
    <3> DEFINE new == [at |-> "lock", msg |-> received + 1, todo |-> StateFields]
    <3>1. new \in Place
      BY <2>1
    <3>2. callback' = callback \/ callback' = [callback EXCEPT ![s] = new]
      BY <1>5 DEF ReceiveState
    <3> HIDE DEF new, Place
    <3>3. callback \in [Sessions -> Place]
      BY DEF Place
    <3> QED
      BY <3>1, <3>2, <3>3
  <2>3. from' \in [0 .. MaxMessages -> 0 .. MaxSessions]
    BY <1>5, <2>1 DEF ReceiveState
  <2>4. received' \in 0 .. MaxMessages /\ stored' \in 0 .. received' /\ seen' \in 0 .. received'
    BY <1>5, <2>1 DEF ReceiveState
  <2> QED
    BY <1>5, <2>2, <2>3, <2>4 DEF ReceiveState
<1>6. ASSUME NEW s \in Sessions, LockBuffer(s) PROVE TypeOK'
  <2>1. callback' \in [Sessions -> Place]
    BY <1>6 DEF LockBuffer
  <2> QED
    BY <1>6, <2>1 DEF LockBuffer
<1>7. ASSUME NEW s \in Sessions, UnlockBuffer(s) PROVE TypeOK'
  <2>1. callback' \in [Sessions -> Place]
    BY <1>7, IdleType DEF UnlockBuffer
  <2>2. callback[s].msg \in 0 .. received
    BY <1>7 DEF UnlockBuffer, CallbackInv
  <2>3. stored' \in 0 .. received' /\ isNew' \in BOOLEAN
    BY <1>7, <2>2 DEF UnlockBuffer
  <2> QED
    BY <1>7, <2>1, <2>3 DEF UnlockBuffer
<1>8. ASSUME NEW s \in Sessions, NEW f \in StateFields, CopyField(s, f) PROVE TypeOK'
  <2>1. nonRealtime' \in [StateFields -> 0 .. MaxMessages]
    <3> DEFINE old == IF nonRealtime = Empty THEN Filled(StateFields, 0) ELSE nonRealtime
    <3>1. 0 \in 0 .. MaxMessages /\ callback[s].msg \in 0 .. MaxMessages
      OBVIOUS
    <3>2. old \in [StateFields -> 0 .. MaxMessages]
      BY <3>1, FilledType
    <3>3. nonRealtime' = [old EXCEPT ![f] = callback[s].msg]
      BY <1>8 DEF CopyField
    <3> QED
      BY <3>1, <3>2, <3>3
  <2>2. callback' \in [Sessions -> Place]
    BY <1>8 DEF CopyField
  <2> QED
    BY <1>8, <2>1, <2>2 DEF CopyField
<1>9. CASE read
  <2>1. reading' \subseteq StateFields
    BY <1>9 DEF read
  <2>2. /\ realtime' \in [StateFields -> 0 .. MaxMessages] \cup {Empty}
        /\ nonRealtime' \in [StateFields -> 0 .. MaxMessages] \cup {Empty}
        /\ isNew' \in BOOLEAN /\ seen' \in 0 .. received
    <3>1. CASE Locked \/ ~isNew
      BY <1>9, <3>1 DEF read, readFromRT
    <3>2. CASE ~Locked /\ isNew
      <4>1. isNew' \in BOOLEAN
        BY <1>9, <3>2 DEF read, readFromRT
      <4>2. seen' \in 0 .. received
        BY <1>9, <3>2 DEF read, readFromRT
      <4> QED
        BY <1>9, <3>2, <4>1, <4>2 DEF read, readFromRT
    <3> QED
      BY <3>1, <3>2
  <2> QED
    BY <1>9, <2>1, <2>2 DEF read
<1>10. ASSUME NEW f \in StateFields, read_state_field(f) PROVE TypeOK'
  <2>0. Configured
    BY <1>10 DEF read_state_field, Unconfigured
  <2>1. hw_states_ \in [StateFields -> 0 .. MaxMessages \cup {NaN}]
    BY <2>0 DEF Sized
  <2>2. realtime \in [StateFields -> 0 .. MaxMessages]
    <3>1. realtime = Filled(StateFields, seen)
      BY <1>10, <2>0 DEF read_state_field, ReadInv
    <3> QED
      BY <3>1, FilledFields, EmptyIsSmaller
  <2>3. hw_states_' \in [StateFields -> 0 .. MaxMessages \cup {NaN}]
    BY <1>10, <2>1, <2>2 DEF read_state_field
  <2> QED
    BY <1>10, <2>3 DEF read_state_field
<1>11. CASE write
  <2>1. command' \in [CommandFields -> Commands \cup {0, NaN}] \cup {Empty}
    BY <1>11 DEF write
  <2>2. thrown' \in BOOLEAN
    BY <1>11 DEF write
  <2> QED
    BY <1>11, <2>1, <2>2 DEF write
<1>12. ASSUME NEW f \in CommandFields, NEW v \in Commands, SetCommand(f, v) PROVE TypeOK'
  <2>1. hw_commands_ \in [CommandFields -> Commands \cup {0, NaN}]
    BY <1>12 DEF SetCommand, Sized, Configured
  <2>2. hw_commands_' \in [CommandFields -> Commands \cup {0, NaN}]
    BY <1>12, <2>1 DEF SetCommand
  <2> QED
    BY <1>12, <2>2 DEF SetCommand
<1>13. CASE UNCHANGED vars
  BY <1>13 DEF vars
<1> QED
  BY <1>1, <1>2, <1>3, <1>4, <1>5, <1>6, <1>7, <1>8, <1>9, <1>10, <1>11, <1>12, <1>13
     DEF Next, Callback, Store, Read

LEMMA NextIInv == IInv /\ [Next]_vars => IInv'
<1> SUFFICES ASSUME IInv, [Next]_vars PROVE IInv'
  OBVIOUS
<1>0. TypeOK /\ TypeOK'
  BY TypePreserved DEF IInv
<1> DEFINE Cells == Unconfigured /\ Sized
           Flow == FromInv /\ CallbackInv /\ BufferInv /\ ReadInv
           Commanding == PublisherIsAlive /\ CommandsAreNumbers
<1>a. Cells /\ Flow /\ Commanding
  BY DEF IInv
<1> SUFFICES Cells' /\ Flow' /\ Commanding'
  BY <1>0 DEF IInv
<1> USE <1>0, <1>a DEF zenoh, buffer, history, Configured, Locked, CopyInv, Follows
<1>1. CASE on_init
  <2>0. cm = "created" /\ ~Configured
    BY <1>1 DEF on_init
  <2> USE DEF Unconfigured
  <2>1. CASE InitOk
    <3>1. Cells'
      BY <1>1, <2>0, <2>1, FilledType DEF on_init, InitOk, Sized
    <3>2. CallbackInv' /\ FromInv'
      BY <1>1, <2>0, <2>1 DEF on_init, CallbackInv, FromInv, Idle
    <3>3. BufferInv'
      BY <1>1, <2>0, <2>1 DEF on_init, InitOk, BufferInv
    <3>4. ReadInv'
      BY <1>1, <2>0, <2>1 DEF on_init, InitOk, ReadInv
    <3>5. Commanding'
      BY <1>1, <2>0, <2>1 DEF on_init, InitOk, PublisherIsAlive, CommandsAreNumbers
    <3> QED
      BY <3>1, <3>2, <3>3, <3>4, <3>5
  <2>2. CASE cm' = "refused" /\ UNCHANGED <<hw_states_, hw_commands_, nonRealtime, isNew>>
    <3>1. Cells' /\ BufferInv' /\ ReadInv'
      BY <1>1, <2>0, <2>2 DEF on_init, Sized, BufferInv, ReadInv
    <3>2. CallbackInv' /\ FromInv' /\ Commanding'
      BY <1>1, <2>0, <2>2 DEF on_init, CallbackInv, FromInv, Idle, PublisherIsAlive,
                              CommandsAreNumbers
    <3> QED
      BY <3>1, <3>2
  <2> QED
    BY <1>1, <2>1, <2>2 DEF on_init
<1>2. CASE on_activate
  <2>0. Configured /\ Configured' /\ reading = {}
    BY <1>2 DEF on_activate, ActivateOk, ActivateFails
  <2>a. FromInv'
    <3>1. opened \in Nat /\ session_' \in {session_, opened + 1} /\ opened' = opened + 1
      BY <1>2 DEF on_activate, ActivateOk, ActivateFails, TypeOK
    <3>2. from' = from /\ received' = received /\ received \in Nat
      BY <1>2 DEF on_activate, TypeOK
    <3>3. \A n \in 0 .. received : from[n] \in Nat /\ from[n] <= opened
      BY <3>2 DEF FromInv, TypeOK
    <3> QED
      BY <3>1, <3>2, <3>3 DEF FromInv
  <2>1. FromInv' /\ CallbackInv' /\ BufferInv' /\ CommandsAreNumbers'
    BY <1>2, <2>0, <2>a DEF on_activate, CallbackInv, BufferInv, CommandsAreNumbers
  <2>2. CASE ActivateOk
    <3>1. /\ hw_states_ \in [StateFields -> 0 .. MaxMessages \cup {NaN}]
          /\ hw_commands_ \in [CommandFields -> (Commands \cup {0}) \cup {NaN}]
      BY <2>0 DEF Sized
    <3>2. /\ hw_states_' \in [StateFields -> 0 .. MaxMessages \cup {0}]
          /\ \A f \in StateFields :
               hw_states_'[f] = IF hw_states_[f] = NaN THEN 0 ELSE hw_states_[f]
      BY <2>2, <3>1, ZeroedFields DEF ActivateOk
    <3>a. hw_commands_' \in [CommandFields -> (Commands \cup {0}) \cup {0}]
      BY <2>2, <3>1, ZeroedFields DEF ActivateOk
    <3>b. hw_states_' \in [StateFields -> 0 .. MaxMessages \cup {NaN}]
      BY <3>2
    <3>c. /\ hw_commands_' \in [CommandFields -> Commands \cup {0, NaN}]
          /\ \A f \in CommandFields : hw_commands_'[f] # NaN
      <4>1. NaN \notin Commands \cup {0}
        BY NaNIsNoCommand
      <4>2. hw_commands_' \in [CommandFields -> Commands \cup {0}]
        BY <3>a
      <4> QED
        BY <4>1, <4>2
    <3>3. Cells'
      BY <2>0, <3>b, <3>c DEF Unconfigured, Sized
    <3>4. ReadInv'
      <4>1. CASE hw_states_ = Filled(StateFields, seen)
        <5>0. seen # NaN
          BY DEF TypeOK
        <5>1. \A f \in StateFields : hw_states_'[f] = seen
          <6>1. \A f \in StateFields : Filled(StateFields, seen)[f] = seen
            BY ONLY FilledFields
          <6> QED
            BY ONLY <3>2, <4>1, <5>0, <6>1
        <5>2. hw_states_' = Filled(StateFields, seen)
          BY ONLY <3>2, <5>1, IsFilled
        <5> QED
          BY <1>2, <2>0, <5>2 DEF on_activate, ReadInv
      <4>2. CASE seen = 0 /\ hw_states_ = Filled(StateFields, NaN)
        <5>0. \A f \in StateFields : Filled(StateFields, NaN)[f] = NaN
          BY ONLY FilledFields
        <5>1. \A f \in StateFields : hw_states_'[f] = 0
          BY ONLY <3>2, <4>2, <5>0
        <5>2. hw_states_' = Filled(StateFields, 0)
          BY ONLY <3>2, <5>1, IsFilled
        <5> QED
          BY <1>2, <2>0, <4>2, <5>2 DEF on_activate, ReadInv
      <4> QED
        BY <2>0, <4>1, <4>2 DEF ReadInv
    <3>5. PublisherIsAlive'
      BY <2>2 DEF ActivateOk, PublisherIsAlive, TypeOK
    <3> QED
      BY <2>1, <3>3, <3>4, <3>5
  <2>3. CASE ActivateFails
    <3>1. Cells' /\ ReadInv' /\ PublisherIsAlive'
      BY <1>2, <2>0, <2>3 DEF on_activate, ActivateFails, Unconfigured, Sized, ReadInv,
                              PublisherIsAlive
    <3> QED
      BY <2>1, <3>1
  <2> QED
    BY <1>2, <2>2, <2>3 DEF on_activate
<1>3. CASE on_deactivate
  <2>1. Cells' /\ BufferInv' /\ ReadInv'
    BY <1>3 DEF on_deactivate, Unconfigured, Sized, BufferInv, ReadInv
  <2>2. FromInv' /\ CallbackInv' /\ Commanding'
    BY <1>3 DEF on_deactivate, FromInv, CallbackInv, PublisherIsAlive, CommandsAreNumbers
  <2> QED
    BY <2>1, <2>2
<1>4. CASE Recover
  <2>1. Cells' /\ BufferInv' /\ ReadInv'
    BY <1>4 DEF Recover, Unconfigured, Sized, BufferInv, ReadInv
  <2>2. FromInv' /\ CallbackInv' /\ Commanding'
    BY <1>4 DEF Recover, FromInv, CallbackInv, PublisherIsAlive, CommandsAreNumbers
  <2> QED
    BY <2>1, <2>2
<1> DEFINE Goal == Cells' /\ Flow' /\ Commanding'
<1>5. ASSUME NEW s \in Sessions, ReceiveState(s) PROVE Goal
  <2>0. /\ Configured /\ callback[s] = Idle /\ s = session_ /\ session_ # 0
        /\ received \in Nat /\ received < MaxMessages /\ received' = received + 1
        /\ stored' = stored /\ seen' = seen
    BY <1>5 DEF ReceiveState, Subscribed, Unconfigured, TypeOK
  <2>1. /\ \A n \in 0 .. received : from'[n] = from[n] /\ from[n] \in Nat
        /\ from'[received + 1] = s /\ s \in Nat
    <3>0. from \in [0 .. MaxMessages -> 0 .. MaxSessions]
      BY DEF TypeOK
    <3>1. from \in [0 .. MaxMessages -> 0 .. MaxSessions] /\ s \in 0 .. MaxSessions
      BY ONLY <3>0, s \in Sessions, HardwareAssumption DEF Sessions, HardwareAssumption
    <3>2. from' = [from EXCEPT ![received + 1] = s]
      BY <1>5 DEF ReceiveState
    <3>3. received + 1 \in 0 .. MaxMessages
      BY <2>0
    <3>4. \A n \in 0 .. received : n \in 0 .. MaxMessages /\ n # received + 1
      BY <2>0
    <3>5. \A i \in 0 .. MaxSessions : i \in Nat
      OBVIOUS
    <3>6. from'[received + 1] = s
      BY <3>1, <3>2, <3>3
    <3>7. \A n \in 0 .. received : from'[n] = from[n] /\ from[n] \in 0 .. MaxSessions
      BY <3>1, <3>2, <3>4
    <3> QED
      BY <3>1, <3>5, <3>6, <3>7
  <2>2. FromInv'
    <3>1. \A n \in 0 .. received + 1 : n \in 0 .. received \/ n = received + 1
      BY <2>0
    <3>2. \A n \in 0 .. received : from[n] <= s /\ from[n] <= opened
      BY <2>0 DEF FromInv
    <3>3. \A n \in 0 .. received + 1 : from'[n] \in Nat /\ from'[n] <= s
      BY <2>1, <3>1, <3>2
    <3>4. \A m, n \in 0 .. received + 1 : m <= n => from'[m] <= from'[n]
      <4> SUFFICES ASSUME NEW m \in 0 .. received + 1, NEW n \in 0 .. received + 1, m <= n
                   PROVE  from'[m] <= from'[n]
        OBVIOUS
      <4>1. CASE n = received + 1
        BY <2>1, <3>3, <4>1
      <4>2. CASE n \in 0 .. received
        BY <2>0, <2>1, <4>2 DEF FromInv
      <4> QED
        BY <3>1, <4>1, <4>2
    <3>5. opened' = opened /\ session_' = session_ /\ s <= opened /\ opened \in Nat
      BY <1>5, <2>0 DEF ReceiveState, TypeOK
    <3> QED
      BY <2>0, <2>1, <3>3, <3>4, <3>5 DEF FromInv
  <2>3. from'[stored] = from[stored] /\ from'[seen] = from[seen]
    BY <2>1 DEF TypeOK
  <2>4. Cells' /\ Commanding'
    BY <1>5, <2>0 DEF ReceiveState, Unconfigured, Sized, PublisherIsAlive, CommandsAreNumbers
  <2>5. ReadInv'
    <3>1. CASE reading = {}
      BY <1>5, <2>0, <3>1 DEF ReceiveState, ReadInv
    <3>2. CASE reading # {}
      <4>1. \A f \in StateFields : hw_states_[f] # NaN =>
              hw_states_[f] \in 0 .. received + 1 /\ from'[hw_states_[f]] = from[hw_states_[f]]
        BY <2>0, <2>1, <3>2 DEF ReadInv
      <4> QED
        BY <1>5, <2>0, <2>3, <3>2, <4>1 DEF ReceiveState, ReadInv
    <3> QED
      BY <3>1, <3>2
  <2>6. \A t \in Sessions \ {s} : callback'[t] = callback[t]
    BY <1>5 DEF ReceiveState, TypeOK
  <2>7. \/ callback'[s] = Idle
        \/ callback'[s] = [at |-> "lock", msg |-> received + 1, todo |-> StateFields]
    BY <1>5, <2>0 DEF ReceiveState, TypeOK
  <2>8. callback'[s].at # "copy" /\ callback[s].at # "copy"
    BY <2>0, <2>7 DEF Idle
  <2>9. CallbackInv'
    <3>1. \A t \in Sessions \ {s} : CopyInv(t)'
      BY <1>5, <2>6 DEF ReceiveState, CallbackInv
    <3>2. CopyInv(s)'
      BY <2>7 DEF Idle
    <3>3. \A t \in Sessions \ {s} : callback[t].at # "idle" =>
            /\ callback[t].msg \in 1 .. received + 1 /\ from'[callback[t].msg] = t
            /\ from'[stored] = t => stored < callback[t].msg
            /\ from'[seen] = t => seen < callback[t].msg
      BY <2>0, <2>1, <2>3 DEF CallbackInv
    <3>4. callback'[s].at # "idle" =>
            /\ callback'[s].msg = received + 1
            /\ stored < received + 1 /\ seen < received + 1 /\ received + 1 \in 1 .. received + 1
      BY <2>0, <2>7 DEF Idle, TypeOK
    <3>5. \A t, u \in Sessions : callback'[t].at = "copy" /\ callback'[u].at = "copy" => t = u
      BY <2>6, <2>8 DEF CallbackInv
    <3>6. \A t \in Sessions : callback'[t].at # "idle" =>
            /\ callback'[t].msg \in 1 .. received' /\ from'[callback'[t].msg] = t
            /\ from'[stored'] = t => stored' < callback'[t].msg
            /\ from'[seen'] = t => seen' < callback'[t].msg
      BY <2>0, <2>1, <2>6, <3>3, <3>4
    <3> QED
      BY <3>1, <3>2, <3>5, <3>6 DEF CallbackInv
  <2>10. BufferInv'
    <3>1. Locked' <=> Locked
      BY <2>6, <2>8
    <3> QED
      BY <1>5, <2>0, <2>3, <3>1 DEF ReceiveState, BufferInv
  <2> QED
    BY <2>2, <2>4, <2>5, <2>9, <2>10
<1>6. ASSUME NEW s \in Sessions, LockBuffer(s) PROVE Goal
  <2>0. /\ Configured /\ callback[s].at = "lock" /\ ~Locked
        /\ \A t \in Sessions \ {s} : callback'[t] = callback[t]
        /\ callback'[s] = [callback[s] EXCEPT !.at = "copy"]
    BY <1>6 DEF LockBuffer, Unconfigured, Idle, TypeOK
  <2>a. /\ callback'[s].at = "copy" /\ callback'[s].msg = callback[s].msg
        /\ callback'[s].todo = callback[s].todo
    BY <2>0 DEF TypeOK
  <2>1. Cells' /\ FromInv' /\ ReadInv' /\ Commanding'
    BY <1>6, <2>0 DEF LockBuffer, Unconfigured, Sized, FromInv, ReadInv, PublisherIsAlive,
                      CommandsAreNumbers
  <2>2. CallbackInv'
    <3>1. \A t \in Sessions : CopyInv(t)'
      BY <1>6, <2>0, <2>a DEF LockBuffer, CallbackInv
    <3>2. \A t, u \in Sessions : callback'[t].at = "copy" /\ callback'[u].at = "copy" => t = u
      BY <2>0
    <3>3. \A t \in Sessions : callback'[t].msg = callback[t].msg
            /\ (callback'[t].at # "idle" => callback[t].at # "idle")
      BY <2>0, <2>a
    <3> QED
      BY <1>6, <3>1, <3>2, <3>3 DEF LockBuffer, CallbackInv
  <2>3. BufferInv'
    BY <1>6, <2>0, <2>a DEF LockBuffer, BufferInv
  <2> QED
    BY <2>1, <2>2, <2>3
<1>7. ASSUME NEW s \in Sessions, UnlockBuffer(s) PROVE Goal
  <2> DEFINE m == callback[s].msg
  <2>0. /\ Configured /\ callback[s].at = "copy" /\ callback'[s] = Idle
        /\ \A t \in Sessions \ {s} : callback'[t] = callback[t]
    BY <1>7 DEF UnlockBuffer, Unconfigured, Idle, TypeOK
  <2>1. Cells' /\ FromInv' /\ ReadInv' /\ Commanding'
    BY <1>7, <2>0 DEF UnlockBuffer, Unconfigured, Sized, FromInv, ReadInv, PublisherIsAlive,
                      CommandsAreNumbers
  <2>2. m \in 1 .. received /\ from[m] = s /\ (from[seen] = s => seen < m)
    BY <2>0 DEF CallbackInv
  <2>3. nonRealtime = Filled(StateFields, m)
    <3>1. CASE StateFields = {}
      <4>1. nonRealtime \in [StateFields -> 0 .. MaxMessages] \cup {Empty}
        BY DEF TypeOK
      <4> HIDE DEF m
      <4> QED
        BY <3>1, <4>1, EmptyIsAll
    <3>2. CASE StateFields # {}
      <4>1. nonRealtime \in [StateFields -> 0 .. MaxMessages]
            /\ \A f \in StateFields : nonRealtime[f] = m
        BY <1>7, <3>2 DEF UnlockBuffer, CallbackInv
      <4> QED
        BY <4>1, IsFilled
    <3> QED
      BY <3>1, <3>2
  <2>4. Follows(seen, m)
    <3>a. seen \in 0 .. MaxMessages /\ seen \in 0 .. received /\ received \in Nat
      BY DEF TypeOK
    <3>b. from \in [0 .. MaxMessages -> 0 .. MaxSessions]
      BY DEF TypeOK
    <3>1. from[seen] \in Nat /\ s \in Nat /\ seen \in 0 .. received /\ received \in Nat
      BY ONLY <3>a, <3>b, s \in Sessions, HardwareAssumption DEF Sessions, HardwareAssumption
    <3>2. m <= seen => s <= from[seen]
      BY <2>2, <3>1 DEF FromInv
    <3> HIDE DEF m
    <3> QED
      BY <2>2, <3>1, <3>2
  <2>5. /\ stored' = m /\ isNew' /\ from' = from /\ received' = received /\ seen' = seen
        /\ nonRealtime' = nonRealtime /\ realtime' = realtime /\ cm' = cm
    BY <1>7 DEF UnlockBuffer
  <2>6. CallbackInv'
    <3>1. \A t \in Sessions : CopyInv(t)'
      BY <2>0, <2>5 DEF CallbackInv, Idle
    <3>2. \A t, u \in Sessions : callback'[t].at = "copy" /\ callback'[u].at = "copy" => t = u
      BY <2>0 DEF CallbackInv, Idle
    <3>3. \A t \in Sessions : callback'[t].at # "idle" => t # s /\ callback'[t] = callback[t]
      BY <2>0 DEF Idle
    <3> HIDE DEF m
    <3> QED
      BY <2>2, <2>5, <3>1, <3>2, <3>3 DEF CallbackInv
  <2>7. BufferInv'
    <3> HIDE DEF m
    <3> QED
      BY <2>0, <2>3, <2>4, <2>5 DEF BufferInv
  <2> QED
    BY <2>1, <2>6, <2>7
<1>8. ASSUME NEW s \in Sessions, NEW f \in StateFields, CopyField(s, f) PROVE Goal
  <2> DEFINE c == callback[s]
  <2>0. /\ Configured /\ c.at = "copy" /\ callback'[s].at = "copy"
        /\ callback'[s].msg = c.msg /\ callback'[s].todo = c.todo \ {f}
        /\ \A t \in Sessions \ {s} : callback'[t] = callback[t] /\ callback[t].at # "copy"
    BY <1>8 DEF CopyField, Unconfigured, Idle, TypeOK, CallbackInv
  <2>1. Cells' /\ FromInv' /\ ReadInv' /\ Commanding'
    BY <1>8, <2>0 DEF CopyField, Unconfigured, Sized, FromInv, ReadInv, PublisherIsAlive,
                      CommandsAreNumbers
  <2>2. CopyInv(s)'
    <3> DEFINE old == IF nonRealtime = Empty THEN Filled(StateFields, 0) ELSE nonRealtime
    <3>1. 0 \in 0 .. MaxMessages /\ c.msg \in 0 .. MaxMessages
      BY DEF TypeOK
    <3>2. old \in [StateFields -> 0 .. MaxMessages]
      BY <3>1, FilledType DEF TypeOK
    <3>3. /\ nonRealtime' \in [StateFields -> 0 .. MaxMessages]
          /\ nonRealtime'[f] = c.msg
          /\ \A g \in StateFields \ {f} : nonRealtime'[g] = old[g]
      BY <1>8, <3>1, <3>2 DEF CopyField
    <3>a. c.todo # StateFields =>
            /\ nonRealtime \in [StateFields -> 0 .. MaxMessages]
            /\ \A g \in StateFields \ c.todo : nonRealtime[g] = c.msg
      BY <2>0 DEF CallbackInv
    <3>4. \A g \in StateFields \ c.todo : old[g] = c.msg
      BY ONLY <3>a, EmptyIsSmaller
    <3>5. \A g \in StateFields \ callback'[s].todo : nonRealtime'[g] = callback'[s].msg
      BY <2>0, <3>3, <3>4
    <3> HIDE DEF old
    <3> QED
      BY <1>8, <2>0, <3>3, <3>5 DEF CopyField, CallbackInv
  <2>3. CallbackInv'
    <3>1. \A t \in Sessions \ {s} : CopyInv(t)'
      BY <2>0 DEF CallbackInv
    <3>2. \A t \in Sessions : /\ callback'[t].msg = callback[t].msg
                              /\ callback'[t].at = callback[t].at
      BY <2>0
    <3> QED
      BY <1>8, <2>2, <3>1, <3>2 DEF CopyField, CallbackInv
  <2>4. BufferInv'
    BY <1>8, <2>0 DEF CopyField, BufferInv
  <2> QED
    BY <2>1, <2>3, <2>4
<1>9. CASE read
  <2>0. Configured /\ Configured' /\ cm' # "failed" /\ reading = {}
    BY <1>9 DEF read, Looping
  <2>1. Cells' /\ FromInv' /\ Commanding'
    BY <1>9, <2>0 DEF read, Unconfigured, Sized, FromInv, PublisherIsAlive, CommandsAreNumbers
  <2>2. CallbackInv'
    <3>1. CASE Locked \/ ~isNew
      BY <1>9, <3>1 DEF read, readFromRT, CallbackInv
    <3>2. CASE ~Locked /\ isNew
      BY <1>9, <3>2 DEF read, readFromRT, CallbackInv
    <3> QED
      BY <3>1, <3>2
  <2>3. BufferInv'
    <3>1. CASE Locked
      BY <1>9, <2>0, <3>1 DEF read, readFromRT, BufferInv
    <3>2. CASE ~Locked /\ ~isNew
      BY <1>9, <2>0, <3>2 DEF read, readFromRT, BufferInv
    <3>3. CASE ~Locked /\ isNew
      BY <1>9, <2>0, <3>3 DEF read, readFromRT, BufferInv, TypeOK
    <3> QED
      BY <3>1, <3>2, <3>3
  <2>4. /\ Follows(seen, seen') /\ hw_states_' = hw_states_ /\ from' = from
        /\ received' = received
    BY <1>9, <2>0 DEF read, readFromRT, TypeOK, BufferInv
  <2>5. ReadInv'
    <3>1. CASE realtime' = Empty /\ seen' = 0
      <4>1. reading' = {}
        BY <1>9, <3>1, EmptyIsSmaller DEF read
      <4>2. seen = 0
        BY <2>4, <3>1 DEF TypeOK
      <4> QED
        BY <2>0, <2>4, <3>1, <4>1, <4>2 DEF ReadInv
    <3>2. CASE realtime' = Filled(StateFields, seen')
      <4>1. reading' = StateFields
        BY <1>9, <3>2, FilledFields DEF read
      <4>2. \A f \in StateFields : hw_states_'[f] # NaN =>
              hw_states_'[f] \in 0 .. received' /\ Follows(hw_states_'[f], seen')
        <5>1. CASE hw_states_ = Filled(StateFields, seen)
          <6>1. seen \in 0 .. received
            BY DEF TypeOK
          <6> QED
            BY ONLY <2>4, <5>1, <6>1, FilledFields DEF Follows
        <5>2. CASE hw_states_ = Filled(StateFields, NaN)
          BY <2>4, <5>2, FilledFields
        <5> QED
          BY <2>0, <5>1, <5>2 DEF ReadInv
      <4>3. CASE StateFields = {}
        <5>1. hw_states_' = Filled(StateFields, seen')
          BY <2>4, <4>3, EmptyIsAll DEF TypeOK
        <5> QED
          BY <4>1, <4>3, <5>1 DEF ReadInv
      <4>4. CASE StateFields # {}
        BY <2>0, <2>4, <3>2, <4>1, <4>2, <4>4 DEF ReadInv
      <4> QED
        BY <4>3, <4>4
    <3> QED
      BY <2>0, <2>3, <3>1, <3>2 DEF BufferInv
  <2> QED
    BY <2>1, <2>2, <2>3, <2>5
<1>10. ASSUME NEW f \in StateFields, read_state_field(f)
       PROVE  Goal
  <2>0. Configured /\ Configured' /\ f \in reading /\ realtime = Filled(StateFields, seen)
    BY <1>10 DEF read_state_field, Unconfigured, ReadInv
  <2>1. /\ hw_states_ \in [StateFields -> 0 .. MaxMessages \cup {NaN}]
        /\ seen \in 0 .. MaxMessages /\ seen \in 0 .. received
    <3>1. hw_states_ \in [StateFields -> 0 .. MaxMessages \cup {NaN}]
      BY <2>0 DEF Sized
    <3>2. /\ received \in 0 .. MaxMessages /\ seen \in 0 .. received
          /\ MaxMessages \in Nat
      BY DEF TypeOK
    <3> QED
      BY ONLY <3>1, <3>2
  <2>2. hw_states_' = [hw_states_ EXCEPT ![f] = seen]
    BY <1>10, <2>0, FilledFields DEF read_state_field
  <2>3. /\ hw_states_' \in [StateFields -> 0 .. MaxMessages \cup {NaN}]
        /\ hw_states_'[f] = seen /\ \A g \in StateFields \ {f} : hw_states_'[g] = hw_states_[g]
    BY <2>1, <2>2
  <2>4. Cells' /\ Commanding'
    BY <1>10, <2>0, <2>3 DEF read_state_field, Unconfigured, Sized, PublisherIsAlive,
                             CommandsAreNumbers
  <2>5. FromInv' /\ CallbackInv' /\ BufferInv'
    BY <1>10 DEF read_state_field, FromInv, CallbackInv, BufferInv
  <2>6. ReadInv'
    <3>1. CASE reading' = {}
      <4>1. \A g \in StateFields : hw_states_'[g] = seen
        BY <1>10, <2>0, <2>3, <3>1 DEF read_state_field, ReadInv
      <4>a. hw_states_' \in [StateFields -> 0 .. MaxMessages \cup {NaN}]
        BY <2>3
      <4>2. hw_states_' = Filled(StateFields, seen)
        BY <4>1, <4>a, IsFilled
      <4> QED
        BY <1>10, <2>0, <3>1, <4>2 DEF read_state_field, ReadInv
    <3>2. CASE reading' # {}
      BY <1>10, <2>0, <2>1, <2>3, <3>2 DEF read_state_field, ReadInv
    <3> QED
      BY <3>1, <3>2
  <2> QED
    BY <2>4, <2>5, <2>6
<1>11. CASE write
  <2>0. Configured /\ Configured' /\ reading = {} /\ command_pub_ # 0
    BY <1>11 DEF write, Looping
  <2>1. Cells' /\ FromInv' /\ BufferInv' /\ ReadInv'
    BY <1>11, <2>0 DEF write, Unconfigured, Sized, FromInv, BufferInv, ReadInv
  <2>2. CallbackInv' /\ PublisherIsAlive'
    BY <1>11 DEF write, CallbackInv, PublisherIsAlive
  <2>3. CommandsAreNumbers'
    BY <1>11, <2>0 DEF write, Sized, CommandsAreNumbers
  <2> QED
    BY <2>1, <2>2, <2>3
<1>12. ASSUME NEW f \in CommandFields, NEW v \in Commands, SetCommand(f, v)
       PROVE  Goal
  <2>0. cm = "active" /\ Configured /\ Configured'
    BY <1>12 DEF SetCommand
  <2>1. Sized'
    BY <1>12, <2>0 DEF SetCommand, Sized
  <2>2. Unconfigured' /\ BufferInv' /\ ReadInv'
    BY <1>12, <2>0 DEF SetCommand, Unconfigured, BufferInv, ReadInv
  <2>3. FromInv' /\ CallbackInv' /\ Commanding'
    BY <1>12 DEF SetCommand, FromInv, CallbackInv, PublisherIsAlive, CommandsAreNumbers
  <2> QED
    BY <2>1, <2>2, <2>3
<1>13. CASE UNCHANGED vars
  BY <1>13 DEF vars, Unconfigured, Sized, FromInv, CallbackInv, BufferInv, ReadInv,
               PublisherIsAlive, CommandsAreNumbers
<1> QED
  BY <1>1, <1>2, <1>3, <1>4, <1>5, <1>6, <1>7, <1>8, <1>9, <1>10, <1>11, <1>12, <1>13
     DEF Next, Callback, Store, Read

(* In every behaviour of the plugin the vectors, the buffer, the callback  *)
(* and read() are related as IInv says.                                    *)
THEOREM Inductive == Spec => []IInv
BY InitIInv, NextIInv, PTL DEF Spec

(* Vectors and buffers of ZenbeddedHardware have the sizes of the schema,  *)
(* the states and the commands each their own, or are still empty.         *)
THEOREM TypeCorrect == Spec => []TypeOK
<1>1. IInv => TypeOK
  BY DEF IInv
<1> QED
  BY <1>1, Inductive, PTL

(* Between two calls of read() the state interfaces show one whole         *)
(* message, the last one stored when read() last got the lock.             *)
THEOREM OneMessage == Spec => []StatesAreOneMessage
<1>1. IInv => StatesAreOneMessage
  BY DEF IInv, ReadInv, StatesAreOneMessage, Looping, Configured
<1> QED
  BY <1>1, Inductive, PTL

(* write() never publishes NaN, although the commands begin as NaN. *)
THEOREM CommandNumbers == Spec => []CommandsAreNumbers
<1>1. IInv => CommandsAreNumbers
  BY DEF IInv
<1> QED
  BY <1>1, Inductive, PTL

(* write() has a publisher of the open session, none, or the one a write() *)
(* left behind when put() threw, through every sequence of activations     *)
(* that fail, are repeated and undone.                                     *)
THEOREM PublisherAlive == Spec => []PublisherIsAlive
<1>1. IInv => PublisherIsAlive
  BY DEF IInv
<1> QED
  BY <1>1, Inductive, PTL

(* No step of the plugin takes a state interface back to an older message  *)
(* of the same session, nor to zero: neither read() nor on_activate() with *)
(* its zeros.  Only the late callback of an earlier session can.           *)
THEOREM NeverBack == Spec => StatesGoForward
<1> DEFINE A == \A f \in DOMAIN hw_states_ :
                  hw_states_[f] # NaN =>
                    \/ hw_states_'[f] >= hw_states_[f]
                    \/ hw_states_'[f] # 0 /\ from[hw_states_'[f]] < from[hw_states_[f]]
<1>1. IInv /\ [Next]_vars => [A]_hw_states_
  <2> SUFFICES ASSUME IInv, Next, hw_states_' # hw_states_ PROVE A
    BY DEF vars
  <2> USE DEF IInv
  <2>1. CASE on_init
    BY <2>1, EmptyIsSmaller DEF on_init, Unconfigured, Configured
  <2>2. CASE on_activate
    <3>1. hw_states_ \in [StateFields -> 0 .. MaxMessages \cup {NaN}]
      BY <2>2 DEF on_activate, Sized, Configured
    <3>2. \A f \in StateFields :
            hw_states_'[f] = IF hw_states_[f] = NaN THEN 0 ELSE hw_states_[f]
      BY <2>2, <3>1, ZeroedFields DEF on_activate, ActivateOk, ActivateFails
    <3> QED
      BY <3>1, <3>2
  <2>3. ASSUME NEW f \in StateFields, read_state_field(f) PROVE A
    <3>1. Configured /\ realtime = Filled(StateFields, seen)
      BY <2>3 DEF read_state_field, Unconfigured, ReadInv
    <3>2. /\ hw_states_ \in [StateFields -> 0 .. MaxMessages \cup {NaN}]
          /\ hw_states_' = [hw_states_ EXCEPT ![f] = seen]
      BY <2>3, <3>1, FilledFields DEF read_state_field, Sized
    <3>3. hw_states_[f] # NaN => Follows(hw_states_[f], seen) /\ seen \in Int
      BY <2>3, <3>1 DEF read_state_field, ReadInv, TypeOK
    <3> QED
      BY <3>2, <3>3 DEF Follows
  <2> QED
    BY <2>1, <2>2, <2>3
       DEF Next, Callback, Store, Read, on_deactivate, Recover, ReceiveState, LockBuffer,
           UnlockBuffer, CopyField, read, write, SetCommand
<1> QED
  BY <1>1, Inductive, PTL DEF Spec, StatesGoForward
=============================================================================
