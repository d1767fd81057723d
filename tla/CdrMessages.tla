---------------------------- MODULE CdrMessages ----------------------------
(***************************************************************************)
(* The Tier 1 wire format: JointState and JointCommand in CDR, as written  *)
(* and read by zenbedded_transport/src/serialization.c.  The code computes *)
(* the offsets of the stamp and of the arrays once, writes a template into *)
(* both slots of the buffer, and from then on only patches the bytes at    *)
(* these offsets.  The other side is ROS 2, whose serializer is defined    *)
(* here from the rules of CDR: everything is aligned to its own size,      *)
(* counted from the end of the four header bytes, and the elements of an   *)
(* empty sequence need no alignment.                                       *)
(*                                                                         *)
(* A buffer is a function from addresses to bytes.  A character is a       *)
(* number; the eight bytes of a double all hold the number it stands for.  *)
(* Reads and writes of a slot are atomic, as DoubleBuffer shows.           *)
(***************************************************************************)
EXTENDS Integers, Sequences, SequencesExt

CONSTANTS Null,        \* the null pointer
          Frames,      \* frame_id: strings, perhaps Null
          NameLists,   \* joint_names
          Interfaces,  \* interface_name: strings, perhaps Null
          SlotSize,    \* CONFIG_ZENBEDDED_MAX_STATE_BUFFER_SIZE and the like
          MaxMessages, \* bound: messages written in a behaviour
          Mixed        \* a double whose bytes do not belong together

(* A JointCommand as it is sent; the bytes of a string are numbers. *)
JointCommand == [frame : Frames, names : NameLists, interface : Interfaces,
                 sec : Nat, nanosec : Nat, values : Seq(Int)]

ASSUME CdrAssumption ==
  /\ Frames \cup Interfaces \subseteq {Null} \cup Seq(Int)
  /\ NameLists \subseteq Seq(Seq(Int))
  /\ SlotSize \in Nat /\ MaxMessages \in Nat
  /\ Null \notin Seq(Int) /\ Null \notin JointCommand

VARIABLES params,  \* InitParams of the codec; interface is absent in a state
          ctx,     \* offsets and payload size
          slots,   \* the two slots of the buffer
          active,  \* the slot that is read
          status,  \* what init() returned for this payload size
          sent,    \* history: the message each slot stands for
          count,   \* history: number of messages so far
          overrun, \* history: something was written behind the end of a buffer
          out,     \* the result of the last read_command()
          source   \* history: the message it was read from

cdrVars == <<params, ctx, slots, active, status, sent, count, overrun, out, source>>

IsCommand == "interface" \in DOMAIN params

-----------------------------------------------------------------------------
(* Bytes *)

Zero(n)   == [k \in 1 .. n |-> 0]
U32(n)    == <<n, 0, 0, 0>>
Double(d) == [k \in 1 .. 8 |-> d]
Doubles(ds) == [k \in 1 .. 8 * Len(ds) |-> ds[(k - 1) \div 8 + 1]]

(* A string with its final zero; for a null pointer the code writes "". *)
CString(s) == (IF s = Null THEN <<>> ELSE s) \o <<0>>

(* memcpy() of bytes to &buffer[at] *)
memcpy(buffer, at, bytes) ==
  [a \in DOMAIN buffer \cup {at + k - 1 : k \in DOMAIN bytes} |->
     IF a - at + 1 \in DOMAIN bytes THEN bytes[a - at + 1] ELSE buffer[a]]

(* A byte of a buffer; what is behind its end is unknown. *)
Byte(buffer, a) == IF a \in DOMAIN buffer THEN buffer[a] ELSE Mixed

(* memcpy() of n doubles from &buffer[at] *)
LoadDoubles(buffer, at, n) ==
  [j \in 1 .. n |->
     LET first == at + 8 * (j - 1)
     IN  IF \A k \in 0 .. 7 : Byte(buffer, first + k) = Byte(buffer, first)
         THEN Byte(buffer, first) ELSE Mixed]

-----------------------------------------------------------------------------
(* The template.  A template under construction is a buffer and a cursor.  *)

CDR_HEADER_SIZE == 4

(* Mutant of AlignUp: counted from the start of the buffer. *)
AlignUpFromStart(offset, a) == ((offset + a - 1) \div a) * a

(* ALIGN_UP; a is a power of two, so the mask rounds down to a multiple. *)
AlignUp(offset, a) ==
  CDR_HEADER_SIZE + (((offset - CDR_HEADER_SIZE) + a - 1) \div a) * a

Align(t, a)   == [t EXCEPT !.cursor = AlignUp(@, a)]
Put(t, bytes) == [cells |-> memcpy(t.cells, t.cursor, bytes),
                  cursor |-> t.cursor + Len(bytes)]
PutString(t, s) == Put(Put(t, U32(Len(CString(s)))), CString(s))

(* The number of strings, then one after the other *)
PutStrings(t, ss) ==
  LET put[i \in 0 .. Len(ss)] == IF i = 0 THEN Put(Align(t, 4), U32(Len(ss)))
                                 ELSE PutString(Align(put[i - 1], 4), ss[i])
  IN  put[Len(ss)]

(* Header, room for the stamp, frame_id and the names of the joints *)
PutNames(buffer, p) ==
  PutStrings(PutString([cells |-> memcpy(buffer, 0, <<0, 1, 0, 0>>),
                        cursor |-> CDR_HEADER_SIZE + 8], p.frame), p.names)

(* The count of an array; the cursor is at the offset of its elements. *)
PutCount(t, n) == Align(Put(Align(t, 4), U32(n)), 8)
Skip(t, n)     == [t EXCEPT !.cursor = @ + 8 * n]

zcdr_init_joint_state(p, buffer) ==
  LET n   == Len(p.names)
      pos == PutCount(PutNames(buffer, p), n)
      vel == PutCount(Skip(pos, n), n)
      eff == PutCount(Skip(vel, n), n)
  IN  [ctx |-> [num_joints |-> n, timestamp |-> CDR_HEADER_SIZE,
                position |-> pos.cursor, velocity |-> vel.cursor,
                effort |-> eff.cursor, payload_size |-> Skip(eff, n).cursor],
       cells |-> eff.cells]

zcdr_init_joint_command(p, buffer) ==
  LET n   == Len(p.names)
      val == PutCount(PutString(Align(PutNames(buffer, p), 4), p.interface), n)
  IN  [ctx |-> [num_joints |-> n, timestamp |-> CDR_HEADER_SIZE,
                values |-> val.cursor, payload_size |-> Skip(val, n).cursor],
       cells |-> val.cells]

-----------------------------------------------------------------------------
(* Patching and reading *)

Stamp(m) == U32(m.sec) \o U32(m.nanosec)

(* An array whose pointer is null is left as it is. *)
zcdr_serialize_joint_state(m, buffer) ==
  LET put(b, at, ds) == IF ds = Null THEN b ELSE memcpy(b, at, Doubles(ds))
  IN  put(put(put(memcpy(buffer, ctx.timestamp, Stamp(m)),
                  ctx.position, m.positions),
              ctx.velocity, m.velocities),
          ctx.effort, m.efforts)

zcdr_serialize_joint_command(m, buffer) ==
  LET stamped == memcpy(buffer, ctx.timestamp, Stamp(m))
  IN  IF m.values = Null THEN stamped ELSE memcpy(stamped, ctx.values, Doubles(m.values))

zcdr_deserialize_joint_state(buffer, size) ==
  IF size < ctx.payload_size THEN [ok |-> FALSE]
  ELSE [ok |-> TRUE,
        sec |-> buffer[ctx.timestamp], nanosec |-> buffer[ctx.timestamp + 4],
        positions  |-> LoadDoubles(buffer, ctx.position, ctx.num_joints),
        velocities |-> LoadDoubles(buffer, ctx.velocity, ctx.num_joints),
        efforts    |-> LoadDoubles(buffer, ctx.effort, ctx.num_joints)]

zcdr_deserialize_joint_command(buffer, size) ==
  IF size < ctx.payload_size THEN [ok |-> FALSE]
  ELSE [ok |-> TRUE,
        sec |-> buffer[ctx.timestamp], nanosec |-> buffer[ctx.timestamp + 4],
        values |-> LoadDoubles(buffer, ctx.values, ctx.num_joints)]

-----------------------------------------------------------------------------
(* CDR, as ROS 2 writes it *)

RefAlign(s, a)  == s \o Zero((-Len(s)) % a)
RefString(s, c) == RefAlign(s, 4) \o U32(Len(c)) \o c
RefStrings(s, cs) ==
  LET ref[i \in 0 .. Len(cs)] == IF i = 0 THEN RefAlign(s, 4) \o U32(Len(cs))
                                 ELSE RefString(ref[i - 1], cs[i])
  IN  ref[Len(cs)]
RefDoubles(s, ds) ==
  LET ref[j \in 0 .. Len(ds)] == IF j = 0 THEN RefAlign(s, 4) \o U32(Len(ds))
                                 ELSE RefAlign(ref[j - 1], 8) \o Double(ds[j])
  IN  ref[Len(ds)]

RefHeader(m) == RefStrings(RefString(Stamp(m), CString(m.frame)),
                           [i \in DOMAIN m.names |-> CString(m.names[i])])

RefJointState(m) ==
  <<0, 1, 0, 0>> \o
  RefDoubles(RefDoubles(RefDoubles(RefHeader(m), m.positions), m.velocities), m.efforts)

RefJointCommand(m) ==
  <<0, 1, 0, 0>> \o
  RefDoubles(RefString(RefHeader(m), CString(m.interface)), m.values)

-----------------------------------------------------------------------------
Other(slot) == 1 - slot
EmptySlot == [a \in 0 .. SlotSize - 1 |-> 0]

Beyond(buffer) == DOMAIN buffer # DOMAIN EmptySlot

(* Mutant of init_base: the header is left out of the comparison. *)
init_base_payload_only(size) == IF size - CDR_HEADER_SIZE > SlotSize THEN "ENOMEM" ELSE "OK"

init_base(size) == IF size > SlotSize THEN "ENOMEM" ELSE "OK"

(* init(): templates in both state slots; a command template in a scratch  *)
(* buffer only yields the offsets.  No array has a value yet.  The sizes   *)
(* are compared after the templates are written.                           *)
InitState ==
  /\ params \in [frame : Frames, names : NameLists]
  /\ LET made == zcdr_init_joint_state(params, EmptySlot)
         none == Zero(Len(params.names))
     IN  /\ ctx = made.ctx
         /\ slots = [s \in {0, 1} |-> made.cells]
         /\ overrun = Beyond(made.cells)
         /\ sent = [s \in {0, 1} |->
                      [frame |-> params.frame, names |-> params.names,
                       sec |-> 0, nanosec |-> 0, positions |-> none,
                       velocities |-> none, efforts |-> none]]

InitCommand ==
  /\ params \in [frame : Frames, names : NameLists, interface : Interfaces]
  /\ LET made == zcdr_init_joint_command(params, EmptySlot)
     IN  ctx = made.ctx /\ overrun = Beyond(made.cells)
  /\ slots = [s \in {0, 1} |-> EmptySlot]
  /\ sent = [s \in {0, 1} |-> Null]

CdrInit == /\ InitState \/ InitCommand
           /\ status = init_base(ctx.payload_size)
           /\ active = 0 /\ count = 0 /\ out = [ok |-> FALSE] /\ source = Null

(* Element j of array a of message number n, and the stamps *)
Element(a, n, j) == 100 * a + 10 * n + j
Array(a, n, len) == [j \in 1 .. len |-> Element(a, n, j)]

(* write_state(): any of the arrays may be left out. *)
write_state(given) ==
  /\ ~IsCommand /\ status = "OK" /\ count < MaxMessages
  /\ LET n == count + 1
         slot == Other(active)
         array(a) == IF a \in given THEN Array(a, n, ctx.num_joints) ELSE Null
         m == [sec |-> n, nanosec |-> 50 + n, positions |-> array(1),
               velocities |-> array(2), efforts |-> array(3)]
         kept(old, new) == IF new = Null THEN old ELSE new
     IN  /\ slots' = [slots EXCEPT ![slot] = zcdr_serialize_joint_state(m, @)]
         /\ overrun' = (overrun \/ Beyond(slots'[slot]))
         /\ sent' = [sent EXCEPT ![slot] =
                       [frame |-> @.frame, names |-> @.names,
                        sec |-> m.sec, nanosec |-> m.nanosec,
                        positions  |-> kept(@.positions, m.positions),
                        velocities |-> kept(@.velocities, m.velocities),
                        efforts    |-> kept(@.efforts, m.efforts)]]
         /\ active' = slot /\ count' = n
  /\ UNCHANGED <<params, ctx, status, out, source>>

(* Mutant of Receive: longer payloads are accepted and cut off. *)
ReceiveLonger(frame, names, interface) ==
  /\ IsCommand /\ status = "OK" /\ count < MaxMessages
  /\ LET n == count + 1
         slot == Other(active)
         m == [frame |-> frame, names |-> names, interface |-> interface,
               sec |-> n, nanosec |-> 50 + n, values |-> Array(4, n, Len(names))]
         payload == RefJointCommand(m)
     IN  IF Len(payload) < ctx.payload_size THEN UNCHANGED <<slots, sent, active>>
         ELSE /\ slots' = [slots EXCEPT ![slot] =
                             memcpy(@, 0, SubSeq(payload, 1, ctx.payload_size))]
              /\ sent' = [sent EXCEPT ![slot] = m]
              /\ active' = slot
  /\ count' = count + 1
  /\ overrun' = (overrun \/ Beyond(slots'[active']))
  /\ UNCHANGED <<params, ctx, status, out, source>>

(* A JointCommand from ROS 2 reaches on_transport_cmd_cb().  The sender    *)
(* fills frame_id, names and interface_name as it likes; only the size of  *)
(* the payload is compared.                                                *)
Receive(frame, names, interface) ==
  /\ IsCommand /\ status = "OK" /\ count < MaxMessages
  /\ LET n == count + 1
         slot == Other(active)
         m == [frame |-> frame, names |-> names, interface |-> interface,
               sec |-> n, nanosec |-> 50 + n, values |-> Array(4, n, Len(names))]
         payload == RefJointCommand(m)
     IN  IF Len(payload) # ctx.payload_size THEN UNCHANGED <<slots, sent, active>>
         ELSE /\ slots' = [slots EXCEPT ![slot] = memcpy(@, 0, payload)]
              /\ sent' = [sent EXCEPT ![slot] = m]
              /\ active' = slot
  /\ count' = count + 1
  /\ overrun' = (overrun \/ Beyond(slots'[active']))
  /\ UNCHANGED <<params, ctx, status, out, source>>

read_command ==
  /\ IsCommand /\ status = "OK"
  /\ out' = zcdr_deserialize_joint_command(slots[active], ctx.payload_size)
  /\ source' = sent[active]
  /\ UNCHANGED <<params, ctx, slots, active, status, sent, count, overrun>>

CdrNext == \/ \E given \in SUBSET (1 .. 3) : write_state(given)
           \/ \E f \in Frames, l \in NameLists, i \in Interfaces : Receive(f, l, i)
           \/ read_command

CdrSpec == CdrInit /\ [][CdrNext]_cdrVars

-----------------------------------------------------------------------------
(* The codecs write their templates "directly in double-buffer slots"      *)
(* (zenbedded_client.hpp:133), whose size is the "Maximum size of state    *)
(* message" (Kconfig:24): nothing is ever written behind the end of one.   *)
TemplateStaysInSlot == ~overrun

(* init() writes the templates before it compares the sizes, and that does *)
(* happen: what the comparison still ensures is that such a client is      *)
(* refused, and that one that was accepted never writes behind the end of  *)
(* a buffer, whichever arrays and messages follow.                         *)
OverrunIsRefused == overrun => status = "ENOMEM"

(* What write_state() leaves in the slot that is published is, byte for    *)
(* byte, the CDR that ROS 2 would write for the message meant: the names   *)
(* of the template, the last stamp, each array as last given to this slot, *)
(* zeros if it never was.  So an array that is left out shows the values   *)
(* of two writes ago.  Without joints the template has padding at its end  *)
(* that ROS 2 does not ask for (ALIGN_UP after each count).                *)
(* zcdr_deserialize_joint_state() finds that message in it again.          *)
JointStateConforms ==
  (~IsCommand /\ status = "OK") =>
    LET m     == sent[active]
        ref   == RefJointState(m)
        image == [a \in 1 .. ctx.payload_size |-> Byte(slots[active], a - 1)]
        back  == zcdr_deserialize_joint_state(slots[active], ctx.payload_size)
    IN  /\ IF ctx.num_joints = 0 THEN IsPrefix(ref, image) ELSE image = ref
        /\ back.ok /\ \A f \in DOMAIN back \ {"ok"} : back[f] = m[f]

(* A JointCommand that the firmware itself writes into its template, twice *)
(* with the values left out the second time, is the CDR that ROS 2 would   *)
(* write, with the values of the first time (zcdr_serialize_joint_command, *)
(* which the user documentation offers beside the one for states).         *)
JointCommandConforms ==
  (IsCommand /\ status = "OK" /\ count = 0) =>
    LET first  == [sec |-> 1, nanosec |-> 51, values |-> Array(4, 1, ctx.num_joints)]
        second == [sec |-> 2, nanosec |-> 52, values |-> Null]
        buffer == zcdr_serialize_joint_command(second,
                    zcdr_serialize_joint_command(first,
                      zcdr_init_joint_command(params, EmptySlot).cells))
        ref    == RefJointCommand([frame |-> params.frame, names |-> params.names,
                                   interface |-> params.interface, sec |-> 2,
                                   nanosec |-> 52, values |-> first.values])
        image  == [a \in 1 .. ctx.payload_size |-> Byte(buffer, a - 1)]
    IN  IF ctx.num_joints = 0 THEN IsPrefix(ref, image) ELSE image = ref

(* The comparison of sizes in on_transport_cmd_cb() is enough for commands *)
(* with the right number of joints: whatever frame_id, names and interface *)
(* the sender fills in, a payload that passes has its stamp and values at  *)
(* the offsets computed from other strings, and read_command() finds them; *)
(* before the first command it finds zeros.                                *)
ReadFindsValues ==
  (IsCommand /\ out.ok) =>
    IF source = Null
    THEN out.sec = 0 /\ out.values = Zero(ctx.num_joints)
    ELSE /\ out.sec = source.sec /\ out.nanosec = source.nanosec
         /\ Len(source.names) = ctx.num_joints => out.values = source.values
=============================================================================
