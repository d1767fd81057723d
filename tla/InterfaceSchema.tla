--------------------------- MODULE InterfaceSchema ---------------------------
(***************************************************************************)
(* The Tier 2 wire format.  Host and firmware derive it from the same YAML *)
(* document, each with its own code: InterfaceSchema (interface_schema.cpp)*)
(* computes offsets for the hardware interface, generate_tier2_payload.py  *)
(* prints a packed C struct for the firmware.  The module parses a         *)
(* document on both sides, then lets the host write command fields and the *)
(* firmware write state members, in any order.                             *)
(*                                                                         *)
(* A section of a document is a sequence of components, a component a      *)
(* sequence of fields, each with its key, in the order of the file.        *)
(* Numbers are counted in halves, so that a conversion to an integer has   *)
(* something to cut off.                                                   *)
(***************************************************************************)
EXTENDS Integers, Sequences

CONSTANTS Docs,      \* the documents: records of two sections
          Missing,   \* a section that is not in the document
          NoMap,     \* a key with nothing or with a scalar behind it
          Numbers,   \* the numbers given to a field
          Float64s,  \* the numbers that a double can hold
          Float32s,  \* and those that a float can
          Limits,    \* the integers of each integer type; the finite numbers
                     \* that a float is rounded from
          Infinity,  \* a float beyond those
          Junk       \* the result of decoding bytes that no write produced

FieldTypes == {"float32", "float64", "int32", "uint64", "int16", "uint8"}

DocFields     == {NoMap} \cup Seq([name : STRING, type : STRING])
DocComponents == {Missing, NoMap} \cup Seq([name : STRING, fields : DocFields])

ASSUME SchemaAssumption ==
  /\ Docs \subseteq [state : DocComponents, command : DocComponents]
  /\ Missing # NoMap
  /\ 0 \in Float32s /\ Float32s \subseteq Float64s /\ Float64s \subseteq Int
  /\ Numbers \subseteq Int
  /\ Infinity \notin Int /\ Junk \notin Int /\ Junk # Infinity
  /\ \A t \in FieldTypes \ {"float64"} :
       /\ Limits[t].lo \in Int /\ Limits[t].lo <= 0
       /\ Limits[t].hi \in Nat

VARIABLES doc,       \* the document
          host,      \* InterfaceSchema: the result of from_yaml()
          firmware,  \* the result of generate_header()
          wire,      \* command_buffer_ of the host, zenbedded_state_t of the firmware
          meant      \* history: the number each field has been given

vars == <<doc, host, firmware, wire, meant>>

Sections == {"state", "command"}

-----------------------------------------------------------------------------
(* Types *)

TypeNames == {"float32", "float64", "double", "int32", "uint64", "int16", "uint8"}

(* The member of FieldTypes for a type name; the caller has checked that it is known. *)
parse_field_type(t) == IF t = "double" THEN "float64" ELSE t

(* Mutant of field_byte_size: int16 has the size of uint8. *)
field_byte_size_short(t) ==
  CASE t \in {"float64", "uint64"} -> 8
    [] t \in {"float32", "int32"}  -> 4
    [] t \in {"int16", "uint8"}    -> 1

field_byte_size(t) ==
  CASE t \in {"float64", "uint64"} -> 8
    [] t \in {"float32", "int32"}  -> 4
    [] t = "int16"                 -> 2
    [] t = "uint8"                 -> 1

(* The size in an entry of TYPE_MAP; its C type is the one parse_field_type *)
(* stands for.                                                             *)
TYPE_MAP(t) == CASE t \in {"float64", "double", "uint64"} -> 8
                 [] t \in {"float32", "int32"}            -> 4
                 [] t = "int16"                           -> 2
                 [] t = "uint8"                           -> 1

(* sizeof the C type, as the compilers of both sides have it. *)
SizeOf == [float32 |-> 4, float64 |-> 8, int32 |-> 4, uint64 |-> 8, int16 |-> 2,
           uint8 |-> 1]

(* SumTo(sizes)[n] is the sum of the first n sizes, added up in a loop. *)
SumTo(sizes) ==
  LET sum[n \in 0 .. Len(sizes)] == IF n = 0 THEN 0 ELSE sum[n - 1] + sizes[n]
  IN  sum

(* The packed struct with members of these types: each begins where the    *)
(* one before it ends.                                                     *)
PackedStruct(types) ==
  LET end == SumTo([i \in DOMAIN types |-> SizeOf[types[i]]])
  IN  [fields |-> [i \in DOMAIN types |-> [type |-> types[i], offset |-> end[i - 1]]],
       size   |-> end[Len(types)]]

-----------------------------------------------------------------------------
(* The document, as yaml-cpp shows it to the host: every component and     *)
(* every field in the order of the file, keys that occur twice included.   *)
(* To iterate over a null or a scalar is to do nothing.                    *)

Types(fields) == IF fields = NoMap THEN <<>> ELSE [i \in DOMAIN fields |-> fields[i].type]

Fields(section) ==
  LET upTo[n \in 0 .. Len(section)] ==
        IF n = 0 THEN <<>> ELSE upTo[n - 1] \o Types(section[n].fields)
  IN  IF section = NoMap THEN <<>> ELSE upTo[Len(section)]

(* As PyYAML shows it to the generator: a key that occurs twice keeps its  *)
(* first place and has its last value.                                     *)

Repeats(pairs) == \E i, j \in DOMAIN pairs : i # j /\ pairs[i].name = pairs[j].name

dict(pairs) ==
  LET first == SelectSeq([i \in DOMAIN pairs |-> i],
                         LAMBDA i : \A j \in 1 .. i - 1 : pairs[j].name # pairs[i].name)
      IsLast(i, j) == /\ pairs[j].name = pairs[i].name
                      /\ \A k \in j + 1 .. Len(pairs) : pairs[k].name # pairs[i].name
  IN  IF ~Repeats(pairs) THEN pairs
      ELSE [n \in DOMAIN first |-> pairs[CHOOSE j \in DOMAIN pairs : IsLast(first[n], j)]]

(* safe_load() of a section that is a mapping *)
safe_load(section) ==
  LET load(fields) == IF fields = NoMap THEN NoMap ELSE dict(fields)
  IN  dict([c \in DOMAIN section |-> [section[c] EXCEPT !.fields = load(@)]])

(* What differs between the two: *)
HasNoMap(section) ==
  \/ section = NoMap
  \/ section # Missing /\ \E c \in DOMAIN section : section[c].fields = NoMap

HasRepeats(section) ==
  /\ section \notin {Missing, NoMap}
  /\ \/ Repeats(section)
     \/ \E c \in DOMAIN section : section[c].fields # NoMap /\ Repeats(section[c].fields)

Repeated(d) == HasRepeats(d.state) \/ HasRepeats(d.command)

-----------------------------------------------------------------------------
(* The host: offsets accumulate while the fields are read, up to the first *)
(* type that is unknown.                                                   *)

NoFields == [ok |-> TRUE, fields |-> <<>>, size |-> 0]

AddField(sofar, t) ==
  IF ~sofar.ok THEN sofar
  ELSE IF t \notin TypeNames THEN [sofar EXCEPT !.ok = FALSE]
  ELSE LET type == parse_field_type(t)
       IN  [ok |-> TRUE,
            fields |-> Append(sofar.fields, [type |-> type, offset |-> sofar.size]),
            size |-> sofar.size + field_byte_size(type)]

parse_component_fields(types) ==
  LET parsed[n \in 0 .. Len(types)] ==
        IF n = 0 THEN NoFields ELSE AddField(parsed[n - 1], types[n])
  IN  parsed[Len(types)]

(* Commands are only parsed when the states were right. *)
from_yaml(d) ==
  IF Missing \in {d.state, d.command}
  THEN [valid |-> FALSE, state |-> NoFields, command |-> NoFields]
  ELSE LET s == parse_component_fields(Fields(d.state))
           c == IF s.ok THEN parse_component_fields(Fields(d.command)) ELSE NoFields
       IN  [valid |-> s.ok /\ c.ok, state |-> s, command |-> c]

(* The firmware: a missing section is an empty one; a null or scalar has   *)
(* no items(), which ends the script, and so does an unknown type.         *)
(* Besides the structs it defines their sizes as macros.                   *)
generate_header(d) ==
  LET loaded(s)  == IF s \in {Missing, NoMap} THEN s ELSE safe_load(s)
      members(s) == IF s = Missing THEN <<>> ELSE Fields(loaded(s))
      known(s)   == /\ ~HasNoMap(loaded(s))
                    /\ \A i \in DOMAIN members(s) : members(s)[i] \in TypeNames
      struct(s)  == PackedStruct([i \in DOMAIN members(s) |->
                                    parse_field_type(members(s)[i])])
      macro(s)   == SumTo([i \in DOMAIN members(s) |-> TYPE_MAP(members(s)[i])])
                      [Len(members(s))]
  IN  IF known(d.state) /\ known(d.command)
      THEN [ok |-> TRUE, state |-> struct(d.state), command |-> struct(d.command),
            macros |-> [state |-> macro(d.state), command |-> macro(d.command)]]
      ELSE [ok |-> FALSE]

(* The same header, printed by the host from its own list of fields. *)
write_c_header(h) ==
  LET struct(s) == PackedStruct([i \in DOMAIN s.fields |-> s.fields[i].type])
  IN  IF h.valid
      THEN [ok |-> TRUE, state |-> struct(h.state), command |-> struct(h.command),
            macros |-> [state |-> h.state.size, command |-> h.command.size]]
      ELSE [ok |-> FALSE]

-----------------------------------------------------------------------------
(* Values.  A conversion to a float takes the nearest one.  A conversion   *)
(* to an integer type cuts off the half; outside the range of the type it  *)
(* is undefined: compilers keep the low bytes or saturate.                 *)

Distance(x, y) == IF x <= y THEN y - x ELSE x - y

Nearest(S, x) ==
  IF x \in S THEN x ELSE CHOOSE r \in S : \A q \in S : Distance(r, x) <= Distance(q, x)

Truncate(h) == IF h >= 0 THEN h \div 2 ELSE -((-h) \div 2)

InLimits(t, n) == Limits[t].lo <= n /\ n <= Limits[t].hi

(* The number that the low bytes of n stand for *)
LowBytes(t, n) ==
  Limits[t].lo + ((n - Limits[t].lo) % (Limits[t].hi - Limits[t].lo + 1))

Saturated(t, n) == IF n < Limits[t].lo THEN Limits[t].lo ELSE Limits[t].hi

ToInteger(t, n) ==
  IF InLimits(t, n) THEN {2 * n} ELSE {2 * LowBytes(t, n), 2 * Saturated(t, n)}

(* The numbers that giving h to a field of type t may leave in it *)
static_cast ==
  [t \in FieldTypes |-> [h \in Numbers \cup {0} |->
     CASE t = "float64" -> {Nearest(Float64s, h)}
       [] t = "float32" -> {IF InLimits(t, h) THEN Nearest(Float32s, h) ELSE Infinity}
       [] OTHER         -> ToInteger(t, Truncate(h))]]

(* The numbers that a field of each type may hold *)
Stored == [t \in FieldTypes |-> UNION {static_cast[t][h] : h \in Numbers \cup {0}}]

(* static_cast<double>() of what a field holds: a uint64 may have more     *)
(* digits than a double.                                                   *)
AsDouble == [v \in UNION {Stored[t] : t \in FieldTypes} |->
               IF v = Infinity THEN Infinity ELSE Nearest(Float64s, v)]

(* The bytes of v as type t: zeros for 0, and otherwise tokens, of which   *)
(* each knows its type, value and place.                                   *)
Bytes(t, v) ==
  [k \in 0 .. field_byte_size(t) - 1 |-> IF v = 0 THEN <<0>> ELSE <<t, v, k>>]

(* memcpy(buffer + offset, bytes) and back *)
Store(buffer, offset, bytes) ==
  [a \in DOMAIN buffer \cup {offset + k : k \in DOMAIN bytes} |->
     IF a - offset \in DOMAIN bytes THEN bytes[a - offset] ELSE buffer[a]]

Holds(buffer, field, v) ==
  \A k \in 0 .. field_byte_size(field.type) - 1 :
    /\ field.offset + k \in DOMAIN buffer
    /\ buffer[field.offset + k] = Bytes(field.type, v)[k]

Load(buffer, field) ==
  IF \E v \in Stored[field.type] : Holds(buffer, field, v)
  THEN CHOOSE v \in Stored[field.type] : Holds(buffer, field, v)
  ELSE Junk

Zeros(size) == [a \in 0 .. size - 1 |-> <<0>>]

-----------------------------------------------------------------------------
(* The host reads or writes field i; one that does not exist is ignored. *)

ToDouble(v) == IF v = Junk THEN Junk ELSE AsDouble[v]

(* Mutant of read_field: read_state_field() looks into the command fields. *)
read_field_swapped(sec, i) ==
  IF i > Len(host.command.fields) THEN 0
  ELSE ToDouble(Load(wire[sec], host.command.fields[i]))

read_field(sec, i) ==
  IF i > Len(host[sec].fields) THEN 0
  ELSE ToDouble(Load(wire[sec], host[sec].fields[i]))

(* Mutant of write_command_field: the double is copied unconverted. *)
write_command_field_raw(i, h) ==
  /\ host.valid /\ h \in Float64s
  /\ IF i > Len(host.command.fields)
     THEN UNCHANGED <<wire, meant>>
     ELSE LET f == host.command.fields[i]
          IN  /\ wire' = [wire EXCEPT !.command = Store(@, f.offset, Bytes("float64", h))]
              /\ meant' = [meant EXCEPT !.command[i] = h]
  /\ UNCHANGED <<doc, host, firmware>>

write_command_field(i, h) ==
  /\ host.valid /\ h \in Float64s
  /\ IF i > Len(host.command.fields)
     THEN UNCHANGED <<wire, meant>>
     ELSE LET f == host.command.fields[i]
          IN  \E v \in static_cast[f.type][h] :
                /\ wire' = [wire EXCEPT !.command = Store(@, f.offset, Bytes(f.type, v))]
                /\ meant' = [meant EXCEPT !.command[i] = h]
  /\ UNCHANGED <<doc, host, firmware>>

(* The firmware assigns a number to a member of its state struct. *)
AssignStateMember(i, h) ==
  /\ host.valid /\ firmware.ok /\ i \in DOMAIN firmware.state.fields
  /\ LET f == firmware.state.fields[i]
     IN  \E v \in static_cast[f.type][h] :
           /\ wire' = [wire EXCEPT !.state = Store(@, f.offset, Bytes(f.type, v))]
           /\ meant' = [meant EXCEPT !.state[i] = h]
  /\ UNCHANGED <<doc, host, firmware>>

Init ==
  /\ doc \in Docs
  /\ host = from_yaml(doc)
  /\ firmware = generate_header(doc)
  /\ wire = [state   |-> Zeros(IF firmware.ok THEN firmware.state.size ELSE 0),
             command |-> Zeros(host.command.size)]
  /\ meant = [sec \in Sections |-> [i \in DOMAIN host[sec].fields |-> 0]]

Next == \E h \in Numbers :
          \/ \E i \in 1 .. Len(host.command.fields) + 1 : write_command_field(i, h)
          \/ \E i \in 1 .. Len(host.state.fields) : AssignStateMember(i, h)

Spec == Init /\ [][Next]_vars

-----------------------------------------------------------------------------
(* Host and firmware agree on the wire: a document without repeated keys   *)
(* that the host accepts passes the generator of the firmware as well,     *)
(* both give every field the same type and place, and buffer, struct and   *)
(* macro have the same size, which the size checks of both receivers rely  *)
(* on.  The header that the host prints itself (write_c_header()) is the   *)
(* one of the generator.  The exception are keys with nothing behind them: *)
(* from_yaml() takes them for empty, generate_header() ends without output.*)
(* (A key that occurs twice is two fields for yaml-cpp and one for PyYAML; *)
(* neither refuses it, and the layouts differ.)                            *)
WireCompatible ==
  host.valid /\ ~Repeated(doc) =>
    IF HasNoMap(doc.state) \/ HasNoMap(doc.command) THEN ~firmware.ok
    ELSE /\ firmware.ok
         /\ \A sec \in Sections : /\ host[sec].fields = firmware[sec].fields
                                  /\ host[sec].size = firmware[sec].size
         /\ write_c_header(host) = firmware

Agreed == host.valid /\ firmware.ok /\ ~Repeated(doc)

(* The numbers that a type holds without loss *)
CanHold(t, h) == CASE t = "float64" -> h \in Float64s
                   [] t = "float32" -> h \in Float32s /\ InLimits(t, h)
                   [] OTHER -> \E n \in Limits[t].lo .. Limits[t].hi : h = 2 * n

(* r is the double for v: v itself, or a neighbour *)
Shows(r, v) ==
  IF v = Infinity THEN r = Infinity
  ELSE /\ r \in Float64s
       /\ \A d \in Float64s : ~(r < d /\ d <= v) /\ ~(v <= d /\ d < r)

(* What a member of type t holds and the host reads after it was given h *)
Arrives(t, h, held, read) ==
  /\ held \in static_cast[t][h]
  /\ CanHold(t, h) => held = h
  /\ Shows(read, held)

(* Whatever was written before and in whatever order, the firmware finds   *)
(* in each member of the command struct the value the host last gave to    *)
(* that field (write_command_field()), converted to the type of the member *)
(* and unchanged where the type can hold it; the host reads the nearest    *)
(* double back.  No field disturbs another, and none lies outside the      *)
(* buffer that on_init() allocates.                                        *)
CommandsArrive ==
  Agreed =>
    /\ DOMAIN wire.command = 0 .. host.command.size - 1
    /\ \A i \in DOMAIN meant.command :
         LET f == firmware.command.fields[i]
         IN  Arrives(f.type, meant.command[i], Load(wire.command, f),
                     read_field("command", i))

(* The same for states, read by the host with read_state_field(): each     *)
(* state interface shows the last number the firmware assigned to the      *)
(* member, exactly if the type of the member and a double can hold it, and *)
(* otherwise a double next to what the member holds (uint64).              *)
StatesArrive ==
  Agreed =>
    \A i \in DOMAIN meant.state :
      LET f == firmware.state.fields[i]
      IN  Arrives(f.type, meant.state[i], Load(wire.state, f), read_field("state", i))
=============================================================================
