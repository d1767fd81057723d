------------------------- MODULE WireFormatProofs -------------------------
(***************************************************************************)
(* The two wire formats.                                                   *)
(*                                                                         *)
(* Tier 2, for every document, every width of the types and every sequence *)
(* of writes: host and firmware lay a document without repeated keys out   *)
(* alike, and every field holds what was last written to it, as far as its *)
(* type can.                                                               *)
(*                                                                         *)
(* Tier 1, for every list of names, every slot size and every sequence of  *)
(* messages: the template that is patched is the CDR that ROS 2 writes,    *)
(* no accepted client writes behind a slot, and commands are read back.    *)
(***************************************************************************)
EXTENDS InterfaceSchema, CdrMessages, WellFoundedInduction, SequenceTheorems, TLAPS

-----------------------------------------------------------------------------
(* Loops over a sequence.  Induction is the absence of a smallest          *)
(* counterexample, over a set instead of a predicate.                      *)

LEMMA SmallestExists ==
  ASSUME NEW S \in SUBSET Nat, S # {}
  PROVE  \E i \in S : \A j \in S : i <= j
<1>1. PICK i \in S : \A j \in S : ~(<<j, i>> \in OpToRel(<, Nat))
  BY NatLessThanWellFounded, WFMin
<1>2. \A j \in S : ~(j < i)
  BY <1>1 DEF OpToRel
<1> QED
  BY <1>2

LEMMA InductionTo ==
  ASSUME NEW N \in Nat, NEW T \in SUBSET (0 .. N), 0 \in T,
         \A n \in 1 .. N : n - 1 \in T => n \in T
  PROVE  T = 0 .. N
<1> DEFINE S == (0 .. N) \ T
<1>1. SUFFICES ASSUME S # {} PROVE FALSE
  OBVIOUS
<1>2. S \in SUBSET Nat
  OBVIOUS
<1>3. PICK i \in S : \A j \in S : i <= j
  <2> HIDE DEF S
  <2> QED
    BY <1>1, <1>2, SmallestExists
<1>4. i \in 1 .. N
  OBVIOUS
<1>5. i - 1 \in T
  BY <1>3, <1>4
<1> QED
  BY <1>4, <1>5

(* f[n] is the value of a loop after round n, in which step[n] is applied. *)
IsLoop(f, N, first, step) ==
  f[0] = first /\ \A n \in 1 .. N : f[n] = step[n][f[n - 1]]

LEMMA LoopExists ==
  ASSUME NEW N \in Nat, NEW S, NEW first \in S, NEW step \in [1 .. N -> [S -> S]]
  PROVE  \E f \in [0 .. N -> S] : IsLoop(f, N, first, step)
<1> DEFINE Is(f, m) == IsLoop(f, m, first, step)
           T == {m \in 0 .. N : \E f \in [0 .. m -> S] : Is(f, m)}
<1>1. 0 \in T
  <2> DEFINE f == [n \in 0 .. 0 |-> first]
  <2>1. f \in [0 .. 0 -> S] /\ Is(f, 0)
    BY DEF IsLoop
  <2>2. \E g \in [0 .. 0 -> S] : Is(g, 0)
    <3> HIDE DEF f, Is
    <3> QED
      BY <2>1
  <2> QED
    BY <2>2
<1>2. ASSUME NEW m \in 1 .. N, m - 1 \in T PROVE m \in T
  <2>1. PICK g \in [0 .. m - 1 -> S] : Is(g, m - 1)
    BY <1>2
  <2> DEFINE f == [n \in 0 .. m |-> IF n = m THEN step[m][g[m - 1]] ELSE g[n]]
  <2>2. f \in [0 .. m -> S]
    OBVIOUS
  <2>3. f[0] = first
    BY <2>1 DEF IsLoop
  <2>4. ASSUME NEW n \in 1 .. m PROVE f[n] = step[n][f[n - 1]]
    BY <2>1 DEF IsLoop
  <2>5. Is(f, m)
    BY <2>3, <2>4 DEF IsLoop
  <2>6. \E h \in [0 .. m -> S] : Is(h, m)
    <3> HIDE DEF f, Is
    <3> QED
      BY <2>2, <2>5
  <2> QED
    BY <2>6
<1>3. T = 0 .. N
  <2> HIDE DEF T
  <2>1. T \in SUBSET (0 .. N)
    BY DEF T
  <2> QED
    BY <1>1, <1>2, <2>1, InductionTo
<1>4. N \in T
  BY <1>3
<1> QED
  BY <1>4

(* The offsets of a packed struct *)
LEMMA SumToLoop ==
  ASSUME NEW N \in Nat, NEW sizes \in [1 .. N -> Nat]
  PROVE  /\ SumTo(sizes) \in [0 .. N -> Nat]
         /\ SumTo(sizes)[0] = 0
         /\ \A n \in 1 .. N : SumTo(sizes)[n] = SumTo(sizes)[n - 1] + sizes[n]
<1> DEFINE F(f) == [n \in 0 .. Len(sizes) |-> IF n = 0 THEN 0 ELSE f[n - 1] + sizes[n]]
<1>0. Len(sizes) = N
  OBVIOUS
<1>1. PICK f \in [0 .. N -> Nat] :
        f[0] = 0 /\ \A n \in 1 .. N : f[n] = f[n - 1] + sizes[n]
  <2> DEFINE step == [n \in 1 .. N |-> [s \in Nat |-> s + sizes[n]]]
  <2>1. step \in [1 .. N -> [Nat -> Nat]]
    OBVIOUS
  <2>2. PICK f \in [0 .. N -> Nat] : IsLoop(f, N, 0, step)
    <3> HIDE DEF step
    <3> QED
      BY <2>1, 0 \in Nat, LoopExists, Zenon
  <2>3. ASSUME NEW n \in 1 .. N PROVE f[n] = f[n - 1] + sizes[n]
    <3>1. f[n - 1] \in Nat
      OBVIOUS
    <3>2. step[n][f[n - 1]] = f[n - 1] + sizes[n]
      BY <3>1
    <3> QED
      BY <2>2, <3>2 DEF IsLoop
  <2> QED
    BY <2>2, <2>3 DEF IsLoop
<1>2. f = F(f)
  BY <1>0, <1>1
<1>3. SumTo(sizes) = F(SumTo(sizes))
  BY <1>2 DEF SumTo
<1> DEFINE T == {n \in 0 .. N : SumTo(sizes)[n] \in Nat}
<1>4. SumTo(sizes)[0] = 0
  BY <1>0, <1>3
<1>5. \A n \in 1 .. N : SumTo(sizes)[n] = SumTo(sizes)[n - 1] + sizes[n]
  BY <1>0, <1>3
<1>6. T = 0 .. N
  <2>1. 0 \in T /\ T \in SUBSET (0 .. N)
    BY <1>4
  <2>2. \A n \in 1 .. N : n - 1 \in T => n \in T
    BY <1>5
  <2> HIDE DEF T
  <2> QED
    BY <2>1, <2>2, InductionTo
<1>7. SumTo(sizes) \in [0 .. N -> Nat]
  BY <1>0, <1>3, <1>6
<1> QED
  BY <1>4, <1>5, <1>7

LEMMA SumAscends ==
  ASSUME NEW N \in Nat, NEW sizes \in [1 .. N -> Nat], NEW i \in 0 .. N
  PROVE  \A j \in i .. N : SumTo(sizes)[i] <= SumTo(sizes)[j]
<1> DEFINE sum == SumTo(sizes)
           T == {j \in 0 .. N : i <= j => sum[i] <= sum[j]}
<1>0. /\ sum \in [0 .. N -> Nat]
      /\ \A n \in 1 .. N : sum[n] = sum[n - 1] + sizes[n]
  BY SumToLoop
<1> HIDE DEF sum
<1>1. 0 \in T /\ T \in SUBSET (0 .. N)
  BY <1>0
<1>2. ASSUME NEW n \in 1 .. N, n - 1 \in T PROVE n \in T
  <2>1. /\ sum[n] = sum[n - 1] + sizes[n]
        /\ sum[n] \in Nat /\ sum[n - 1] \in Nat /\ sum[i] \in Nat /\ sizes[n] \in Nat
    BY <1>0
  <2>2. CASE i <= n - 1
    BY <1>2, <2>1, <2>2
  <2>3. CASE ~(i <= n - 1)
    <3>1. i <= n => i = n
      BY <2>3
    <3>2. i <= n => sum[i] <= sum[n]
      BY <2>1, <3>1
    <3> QED
      BY <3>2
  <2> QED
    BY <2>2, <2>3
<1>3. T = 0 .. N
  <2> HIDE DEF T
  <2> QED
    BY <1>1, <1>2, InductionTo
<1>4. \A j \in i .. N : j \in T
  BY <1>3
<1> QED
  BY <1>4 DEF sum

-----------------------------------------------------------------------------
(* Types and layout *)

Field == [type : FieldTypes, offset : Nat]

Section == [ok : BOOLEAN, fields : Seq(Field), size : Nat]

Known(types) == \A i \in DOMAIN types : types[i] \in TypeNames

Declared(types) == [i \in DOMAIN types |-> parse_field_type(types[i])]

(* The sizes of the two tables and of the compilers agree. *)
LEMMA SizesAgree ==
  /\ \A t \in FieldTypes : field_byte_size(t) = SizeOf[t] /\ SizeOf[t] \in 1 .. 8
  /\ \A t \in TypeNames : /\ parse_field_type(t) \in FieldTypes
                          /\ TYPE_MAP(t) = SizeOf[parse_field_type(t)]
<1>1. ASSUME NEW t \in FieldTypes
      PROVE  field_byte_size(t) = SizeOf[t] /\ SizeOf[t] \in 1 .. 8
  BY DEF FieldTypes, field_byte_size, SizeOf
<1>2. ASSUME NEW t \in TypeNames
      PROVE  /\ parse_field_type(t) \in FieldTypes
             /\ TYPE_MAP(t) = SizeOf[parse_field_type(t)]
  BY DEF FieldTypes, TypeNames, parse_field_type, TYPE_MAP, SizeOf
<1> QED
  BY <1>1, <1>2

(* The members of a packed struct do not overlap and lie inside it. *)
LEMMA PackedLayout ==
  ASSUME NEW ts \in Seq(FieldTypes)
  PROVE  LET p == PackedStruct(ts)
         IN  /\ p.size \in Nat
             /\ p.fields \in Seq(Field) /\ DOMAIN p.fields = DOMAIN ts
             /\ \A i \in DOMAIN ts :
                  /\ p.fields[i].type = ts[i]
                  /\ p.fields[i].offset + SizeOf[ts[i]] <= p.size
             /\ \A i, j \in DOMAIN ts :
                  i < j => p.fields[i].offset + SizeOf[ts[i]] <= p.fields[j].offset
<1> DEFINE N == Len(ts)
           sizes == [i \in DOMAIN ts |-> SizeOf[ts[i]]]
           sum == SumTo(sizes)
<1>1. N \in Nat /\ DOMAIN ts = 1 .. N /\ \A i \in 1 .. N : ts[i] \in FieldTypes
  OBVIOUS
<1>2. sizes \in [1 .. N -> Nat] /\ \A i \in 1 .. N : sizes[i] = SizeOf[ts[i]]
  BY <1>1, SizesAgree
<1> HIDE DEF N, sizes
<1>3. /\ sum \in [0 .. N -> Nat]
      /\ \A n \in 1 .. N : sum[n] = sum[n - 1] + sizes[n]
  BY <1>1, <1>2, SumToLoop
<1>4. \A i, j \in 0 .. N : i <= j => sum[i] <= sum[j]
  <2> SUFFICES ASSUME NEW i \in 0 .. N, NEW j \in 0 .. N, i <= j
               PROVE  sum[i] <= sum[j]
    OBVIOUS
  <2>1. j \in i .. N
    BY <1>1
  <2> QED
    BY <1>1, <1>2, <2>1, SumAscends
<1> HIDE DEF sum
<1> DEFINE p == PackedStruct(ts)
<1>5. p = [fields |-> [i \in DOMAIN ts |-> [type |-> ts[i], offset |-> sum[i - 1]]],
           size |-> sum[N]]
  BY DEF PackedStruct, sum, sizes, N
<1> HIDE DEF p
<1>6. \A i \in 1 .. N : sum[i - 1] \in Nat /\ sum[i] \in Nat /\ sum[N] \in Nat
  BY <1>1, <1>3
<1>7. /\ DOMAIN p.fields = 1 .. N
      /\ \A i \in 1 .. N : p.fields[i] = [type |-> ts[i], offset |-> sum[i - 1]]
      /\ \A i \in 1 .. N : p.fields[i].type = ts[i] /\ p.fields[i].offset = sum[i - 1]
      /\ p.size = sum[N] /\ p.size \in Nat
  BY <1>1, <1>3, <1>5
<1>8. p.fields \in Seq(Field)
  <2>1. ASSUME NEW i \in 1 .. N PROVE p.fields[i] \in Field
    <3>1. ts[i] \in FieldTypes /\ sum[i - 1] \in Nat
      BY <1>1, <1>6
    <3>2. [type |-> ts[i], offset |-> sum[i - 1]] \in Field
      BY <3>1 DEF Field
    <3> QED
      BY <1>7, <3>2
  <2>2. p.fields = [i \in 1 .. N |-> p.fields[i]]
    BY <1>1, <1>5
  <2> QED
    BY <1>1, <2>1, <2>2
<1>9. ASSUME NEW i \in 1 .. N
      PROVE  /\ p.fields[i].type = ts[i]
             /\ p.fields[i].offset + SizeOf[ts[i]] = sum[i]
             /\ sum[i] <= p.size
  <2>1. p.fields[i].type = ts[i] /\ p.fields[i].offset = sum[i - 1]
    BY <1>7
  <2>2. sum[i] = sum[i - 1] + SizeOf[ts[i]]
    BY <1>2, <1>3
  <2>3. sum[i] <= sum[N]
    BY <1>1, <1>4
  <2> QED
    BY <1>7, <2>1, <2>2, <2>3
<1>10. ASSUME NEW i \in 1 .. N, NEW j \in 1 .. N, i < j
       PROVE  sum[i] <= p.fields[j].offset
  <2>1. p.fields[j].offset = sum[j - 1]
    BY <1>7
  <2>2. i \in 0 .. N /\ j - 1 \in 0 .. N /\ i <= j - 1
    BY <1>1, <1>10
  <2> QED
    BY <1>4, <2>1, <2>2
<1>11. /\ \A i \in DOMAIN ts : /\ p.fields[i].type = ts[i]
                              /\ p.fields[i].offset + SizeOf[ts[i]] <= p.size
       /\ \A i, j \in DOMAIN ts :
            i < j => p.fields[i].offset + SizeOf[ts[i]] <= p.fields[j].offset
  BY <1>1, <1>9, <1>10
<1>12. p.size \in Nat /\ p.fields \in Seq(Field) /\ DOMAIN p.fields = DOMAIN ts
  BY <1>1, <1>7, <1>8
<1> QED
  BY <1>11, <1>12 DEF p

-----------------------------------------------------------------------------
(* The loop of parse_component_fields() *)

LEMMA AddFieldType ==
  ASSUME NEW s \in Section, NEW t
  PROVE  AddField(s, t) \in Section
<1>1. CASE ~s.ok \/ t \notin TypeNames
  BY <1>1 DEF AddField, Section
<1>2. CASE s.ok /\ t \in TypeNames
  <2> DEFINE type == parse_field_type(t)
             field == [type |-> type, offset |-> s.size]
  <2>1. s.size \in Nat /\ s.fields \in Seq(Field)
    BY DEF Section
  <2>2. type \in FieldTypes /\ field_byte_size(type) \in Nat
    BY <1>2, SizesAgree
  <2>3. field \in Field
    BY <2>1, <2>2 DEF Field
  <2>4. AddField(s, t) = [ok |-> TRUE, fields |-> Append(s.fields, field),
                          size |-> s.size + field_byte_size(type)]
    BY <1>2 DEF AddField
  <2> HIDE DEF type, field
  <2>5. Append(s.fields, field) \in Seq(Field)
    BY <2>1, <2>3
  <2> QED
    BY <2>1, <2>2, <2>4, <2>5 DEF Section
<1> QED
  BY <1>1, <1>2

LEMMA ParseLoop ==
  ASSUME NEW types \in Seq(STRING)
  PROVE  \E f \in [0 .. Len(types) -> Section] :
           /\ f[0] = NoFields
           /\ \A n \in 1 .. Len(types) : f[n] = AddField(f[n - 1], types[n])
           /\ parse_component_fields(types) = f[Len(types)]
<1> DEFINE N == Len(types)
           F(f) == [n \in 0 .. N |-> IF n = 0 THEN NoFields ELSE AddField(f[n - 1], types[n])]
           step == [n \in 1 .. N |-> [s \in Section |-> AddField(s, types[n])]]
           parsed == CHOOSE f : f = F(f)
<1>0. N \in Nat
  OBVIOUS
<1>1. NoFields \in Section
  BY DEF NoFields, Section
<1>2. step \in [1 .. N -> [Section -> Section]]
  BY AddFieldType
<1> HIDE DEF N
<1>3. PICK f \in [0 .. N -> Section] : IsLoop(f, N, NoFields, step)
  <2> HIDE DEF step
  <2> QED
    BY <1>0, <1>1, <1>2, LoopExists, Zenon
<1>4. ASSUME NEW n \in 1 .. N PROVE f[n] = AddField(f[n - 1], types[n])
  <2>1. f[n - 1] \in Section
    BY <1>0
  <2>2. step[n][f[n - 1]] = AddField(f[n - 1], types[n])
    BY <2>1
  <2> QED
    BY <1>3, <2>2 DEF IsLoop
<1>5. f = F(f)
  <2>1. f[0] = NoFields
    BY <1>3 DEF IsLoop
  <2> QED
    BY <1>0, <1>4, <2>1
<1>6. parsed = F(parsed)
  BY <1>5
<1>7. parse_component_fields(types) = parsed[N]
  BY DEF parse_component_fields, N
<1> HIDE DEF parsed
<1>8. parsed[0] = NoFields
  BY <1>0, <1>6
<1>9. \A n \in 1 .. N : parsed[n] = AddField(parsed[n - 1], types[n])
  BY <1>0, <1>6
<1> DEFINE T == {n \in 0 .. N : parsed[n] \in Section}
<1>10. T = 0 .. N
  <2>1. 0 \in T /\ T \in SUBSET (0 .. N)
    BY <1>0, <1>1, <1>8
  <2>2. \A n \in 1 .. N : n - 1 \in T => n \in T
    BY <1>0, <1>9, AddFieldType
  <2> HIDE DEF T
  <2> QED
    BY <1>0, <2>1, <2>2, InductionTo
<1>11. parsed \in [0 .. N -> Section]
  BY <1>6, <1>10
<1> QED
  BY <1>7, <1>8, <1>9, <1>11 DEF N

(* A section is accepted exactly when all its types are known, and then    *)
(* its fields are those of the packed struct.                              *)
LEMMA OnlyKnownParse ==
  ASSUME NEW types \in Seq(STRING), parse_component_fields(types).ok
  PROVE  Known(types)
<1> DEFINE N == Len(types)
<1>0. N \in Nat /\ DOMAIN types = 1 .. N
  OBVIOUS
<1>1. PICK f \in [0 .. N -> Section] :
        /\ f[0] = NoFields
        /\ \A n \in 1 .. N : f[n] = AddField(f[n - 1], types[n])
        /\ parse_component_fields(types) = f[N]
  BY ParseLoop
<1> HIDE DEF N
<1> DEFINE T == {n \in 0 .. N : f[n].ok => \A i \in 1 .. n : types[i] \in TypeNames}
<1>2. 0 \in T /\ T \in SUBSET (0 .. N)
  BY <1>0
<1>3. ASSUME NEW n \in 1 .. N, n - 1 \in T PROVE n \in T
  <2>1. f[n - 1] \in Section /\ f[n] = AddField(f[n - 1], types[n])
    BY <1>0, <1>1
  <2>2. f[n].ok => f[n - 1].ok /\ types[n] \in TypeNames
    BY <2>1 DEF AddField, Section
  <2> QED
    BY <1>3, <2>2
<1>4. T = 0 .. N
  <2> HIDE DEF T
  <2> QED
    BY <1>0, <1>2, <1>3, InductionTo
<1>5. N \in T
  BY <1>0, <1>4
<1> QED
  BY <1>0, <1>1, <1>5 DEF Known

LEMMA ParsedIsPacked ==
  ASSUME NEW types \in Seq(STRING), Known(types)
  PROVE  LET r == parse_component_fields(types)
             p == PackedStruct(Declared(types))
         IN  /\ Declared(types) \in Seq(FieldTypes)
             /\ r = [ok |-> TRUE, fields |-> p.fields, size |-> p.size]
<1> DEFINE N == Len(types)
           ts == Declared(types)
           sizes == [i \in DOMAIN ts |-> SizeOf[ts[i]]]
           sum == SumTo(sizes)
           p == PackedStruct(ts)
<1>0. N \in Nat /\ DOMAIN types = 1 .. N /\ \A i \in 1 .. N : types[i] \in TypeNames
  BY DEF Known
<1>1. /\ ts \in Seq(FieldTypes) /\ DOMAIN ts = 1 .. N /\ Len(ts) = N
      /\ \A i \in 1 .. N : ts[i] = parse_field_type(types[i])
  <2>1. ts = [i \in 1 .. N |-> parse_field_type(types[i])]
    BY <1>0 DEF Declared
  <2>2. \A i \in 1 .. N : parse_field_type(types[i]) \in FieldTypes
    BY <1>0, SizesAgree
  <2> QED
    BY <1>0, <2>1, <2>2
<1>2. PICK f \in [0 .. N -> Section] :
        /\ f[0] = NoFields
        /\ \A n \in 1 .. N : f[n] = AddField(f[n - 1], types[n])
        /\ parse_component_fields(types) = f[N]
  BY ParseLoop
<1> HIDE DEF N, ts
<1>3. /\ sizes \in [1 .. N -> Nat]
      /\ \A i \in 1 .. N : ts[i] \in FieldTypes /\ sizes[i] = field_byte_size(ts[i])
  BY <1>0, <1>1, SizesAgree
<1> HIDE DEF sizes
<1>4. /\ sum \in [0 .. N -> Nat] /\ sum[0] = 0
      /\ \A n \in 1 .. N : sum[n] = sum[n - 1] + sizes[n]
  BY <1>0, <1>3, SumToLoop
<1> HIDE DEF sum
<1>5. p = [fields |-> [i \in 1 .. N |-> [type |-> ts[i], offset |-> sum[i - 1]]],
           size |-> sum[N]]
  BY <1>1 DEF PackedStruct, sum, sizes
<1> HIDE DEF p
<1> DEFINE fields(n) == [i \in 1 .. n |-> [type |-> ts[i], offset |-> sum[i - 1]]]
           T == {n \in 0 .. N : f[n] = [ok |-> TRUE, fields |-> fields(n), size |-> sum[n]]}
<1>6. 0 \in T /\ T \in SUBSET (0 .. N)
  <2>1. fields(0) = << >>
    OBVIOUS
  <2> QED
    BY <1>0, <1>2, <1>4, <2>1 DEF NoFields
<1>7. ASSUME NEW n \in 1 .. N, n - 1 \in T PROVE n \in T
  <2>1. /\ f[n - 1] = [ok |-> TRUE, fields |-> fields(n - 1), size |-> sum[n - 1]]
        /\ f[n] = AddField(f[n - 1], types[n])
        /\ types[n] \in TypeNames /\ ts[n] = parse_field_type(types[n])
        /\ sum[n] = sum[n - 1] + field_byte_size(ts[n])
    BY <1>0, <1>1, <1>2, <1>3, <1>4, <1>7
  <2>2. f[n] = [ok |-> TRUE,
                fields |-> Append(fields(n - 1), [type |-> ts[n], offset |-> sum[n - 1]]),
                size |-> sum[n]]
    <3> HIDE DEF fields
    <3> QED
      BY <2>1 DEF AddField
  <2>3. Append(fields(n - 1), [type |-> ts[n], offset |-> sum[n - 1]]) = fields(n)
    <3>1. /\ fields(n - 1) \in Seq(Field) /\ Len(fields(n - 1)) = n - 1
          /\ [type |-> ts[n], offset |-> sum[n - 1]] \in Field
      BY <1>0, <1>3, <1>4 DEF Field
    <3> QED
      BY <1>0, <3>1
  <2> HIDE DEF fields
  <2>4. f[n] = [ok |-> TRUE, fields |-> fields(n), size |-> sum[n]]
    BY <2>2, <2>3, Zenon
  <2>5. n \in 0 .. N
    BY <1>0
  <2> QED
    BY <2>4, <2>5, Zenon
<1>8. T = 0 .. N
  <2> HIDE DEF T
  <2> QED
    BY <1>0, <1>6, <1>7, InductionTo
<1>9. f[N] = [ok |-> TRUE, fields |-> fields(N), size |-> sum[N]]
  BY <1>0, <1>8
<1> QED
  BY <1>1, <1>2, <1>5, <1>9 DEF p, ts

-----------------------------------------------------------------------------
(* The documents that the host accepts *)

Laid(types) == PackedStruct(Declared(types))

(* The macro of the generator and the struct that the host prints *)
LEMMA SameSize ==
  ASSUME NEW types \in Seq(STRING), Known(types)
  PROVE  SumTo([i \in DOMAIN types |-> TYPE_MAP(types[i])])[Len(types)] = Laid(types).size
<1> DEFINE ts == Declared(types)
<1>1. /\ DOMAIN ts = DOMAIN types /\ Len(ts) = Len(types)
      /\ \A i \in DOMAIN types : ts[i] = parse_field_type(types[i])
  BY DEF Declared
<1>2. \A i \in DOMAIN types : TYPE_MAP(types[i]) = SizeOf[ts[i]]
  BY <1>1, SizesAgree DEF Known
<1> HIDE DEF ts
<1>3. [i \in DOMAIN types |-> TYPE_MAP(types[i])] = [i \in DOMAIN ts |-> SizeOf[ts[i]]]
  BY <1>1, <1>2
<1>4. Laid(types).size = SumTo([i \in DOMAIN ts |-> SizeOf[ts[i]]])[Len(types)]
  BY <1>1 DEF Laid, PackedStruct, ts
<1> QED
  BY <1>3, <1>4, Zenon

LEMMA SameStruct ==
  ASSUME NEW types \in Seq(STRING), Known(types)
  PROVE  LET fields == Laid(types).fields
         IN  PackedStruct([i \in DOMAIN fields |-> fields[i].type]) = Laid(types)
<1> DEFINE ts == Declared(types)
           fields == Laid(types).fields
<1>1. ts \in Seq(FieldTypes)
  BY ParsedIsPacked
<1>2. DOMAIN fields = DOMAIN ts /\ \A i \in DOMAIN ts : fields[i].type = ts[i]
  BY <1>1, PackedLayout DEF Laid
<1>3. ts = [i \in DOMAIN ts |-> ts[i]]
  BY <1>1
<1> HIDE DEF ts, fields
<1>4. [i \in DOMAIN fields |-> fields[i].type] = ts
  BY <1>2, <1>3
<1> QED
  BY <1>4 DEF Laid, ts, fields

Pairs == [name : STRING, type : STRING]

Components == [name : STRING, fields : DocFields]

LEMMA DocSections ==
  \A d \in Docs : d.state \in DocComponents /\ d.command \in DocComponents
BY SchemaAssumption DEF SchemaAssumption

(* The fields of a section are a sequence of type names. *)
LEMMA TypesType ==
  ASSUME NEW fields \in DocFields
  PROVE  Types(fields) \in Seq(STRING)
<1>1. CASE fields = NoMap
  BY <1>1 DEF Types
<1>2. CASE fields # NoMap
  <2>1. fields \in Seq(Pairs)
    BY <1>2 DEF DocFields, Pairs
  <2>2. \A i \in 1 .. Len(fields) : fields[i].type \in STRING
    <3>1. \A p \in Pairs : p.type \in STRING
      BY DEF Pairs
    <3>2. \A i \in 1 .. Len(fields) : fields[i] \in Pairs
      BY <2>1
    <3> QED
      BY <3>1, <3>2
  <2>3. Types(fields) = [i \in 1 .. Len(fields) |-> fields[i].type]
    BY <1>2, <2>1 DEF Types
  <2>4. Len(fields) \in Nat
    BY <2>1
  <2> QED
    BY <2>2, <2>3, <2>4
<1> QED
  BY <1>1, <1>2

LEMMA FieldsType ==
  ASSUME NEW section \in DocComponents, section # Missing
  PROVE  Fields(section) \in Seq(STRING)
<1>1. CASE section = NoMap
  BY <1>1 DEF Fields
<1>2. CASE section # NoMap
  <2> DEFINE N == Len(section)
             S == Seq(STRING)
             Add(s, n) == s \o Types(section[n].fields)
             F(f) == [n \in 0 .. N |-> IF n = 0 THEN <<>> ELSE Add(f[n - 1], n)]
             step == [n \in 1 .. N |-> [s \in S |-> Add(s, n)]]
             upTo == CHOOSE f : f = F(f)
  <2>1. section \in Seq(Components)
    BY <1>2 DEF DocComponents, Components
  <2>2. N \in Nat
    BY <2>1
  <2>3. \A n \in 1 .. N : Types(section[n].fields) \in S
    <3>1. \A n \in 1 .. N : section[n].fields \in DocFields
      <4>1. \A c \in Components : c.fields \in DocFields
        BY DEF Components
      <4>2. \A n \in 1 .. N : section[n] \in Components
        BY <2>1
      <4> QED
        BY <4>1, <4>2
    <3> QED
      BY <3>1, TypesType
  <2>4. \A n \in 1 .. N : \A s \in S : Add(s, n) \in S
    BY <2>3
  <2>5. <<>> \in S
    OBVIOUS
  <2>6. Fields(section) = upTo[N]
    BY <1>2 DEF Fields
  <2> HIDE DEF N, S, Add
  <2>7. step \in [1 .. N -> [S -> S]]
    BY <2>4
  <2>8. PICK f \in [0 .. N -> S] : IsLoop(f, N, <<>>, step)
    <3> HIDE DEF step
    <3> QED
      BY <2>2, <2>5, <2>7, LoopExists, Zenon
  <2>9. ASSUME NEW n \in 1 .. N PROVE f[n] = Add(f[n - 1], n)
    <3>1. f[n - 1] \in S
      BY <2>2
    <3>2. step[n][f[n - 1]] = Add(f[n - 1], n)
      BY <3>1
    <3> QED
      BY <2>8, <3>2 DEF IsLoop
  <2>10. f = F(f)
    <3>1. f[0] = <<>>
      BY <2>8 DEF IsLoop
    <3> QED
      BY <2>2, <2>9, <3>1
  <2>11. upTo = F(upTo)
    <3> HIDE DEF F
    <3> QED
      BY <2>10, Zenon
  <2> HIDE DEF upTo
  <2> DEFINE T == {n \in 0 .. N : upTo[n] \in S}
  <2>12. upTo[0] = <<>> /\ \A n \in 1 .. N : upTo[n] = Add(upTo[n - 1], n)
    BY <2>2, <2>11
  <2>13. ASSUME NEW n \in 1 .. N, n - 1 \in T PROVE n \in T
    <3>1. upTo[n - 1] \in S
      BY <2>13
    <3>2. upTo[n] \in S
      BY <2>4, <2>12, <3>1
    <3>3. n \in 0 .. N
      BY <2>2
    <3> QED
      BY <3>2, <3>3
  <2>14. 0 \in T /\ T \in SUBSET (0 .. N)
    BY <2>2, <2>5, <2>12
  <2>15. T = 0 .. N
    <3> HIDE DEF T
    <3> QED
      BY <2>2, <2>13, <2>14, InductionTo
  <2>16. N \in T
    BY <2>2, <2>15
  <2> QED
    BY <2>6, <2>16 DEF S
<1> QED
  BY <1>1, <1>2

(* Without repeated keys PyYAML has what yaml-cpp has. *)
LEMMA LoadedIsSame ==
  ASSUME NEW section \in DocComponents, section \notin {Missing, NoMap},
         ~HasRepeats(section)
  PROVE  safe_load(section) = section
<1> DEFINE load(fields) == IF fields = NoMap THEN NoMap ELSE dict(fields)
           all == [c \in DOMAIN section |-> [section[c] EXCEPT !.fields = load(@)]]
<1>1. section \in Seq(Components)
  BY DEF DocComponents, Components
<1>2. ~Repeats(section)
      /\ \A c \in DOMAIN section : section[c].fields # NoMap => ~Repeats(section[c].fields)
  BY DEF HasRepeats
<1>3. ASSUME NEW c \in DOMAIN section
      PROVE  [section[c] EXCEPT !.fields = load(@)] = section[c]
  <2>1. load(section[c].fields) = section[c].fields
    BY <1>2 DEF dict
  <2>2. section[c] \in Components
    BY <1>1
  <2> HIDE DEF load
  <2> QED
    BY <2>1, <2>2 DEF Components
<1>4. all = section
  <2>1. section = [c \in DOMAIN section |-> section[c]]
    BY <1>1
  <2> HIDE DEF load
  <2> QED
    BY <1>3, <2>1
<1>5. safe_load(section) = dict(all)
  BY Zenon DEF safe_load
<1> HIDE DEF all
<1> QED
  BY <1>2, <1>4, <1>5 DEF dict

LEMMA AcceptedIsLaid ==
  ASSUME NEW d \in Docs, from_yaml(d).valid
  PROVE  LET st == Fields(d.state)
             cm == Fields(d.command)
         IN  /\ d.state # Missing /\ st \in Seq(STRING) /\ Known(st)
             /\ d.command # Missing /\ cm \in Seq(STRING) /\ Known(cm)
             /\ from_yaml(d) =
                  [valid |-> TRUE,
                   state |-> [ok |-> TRUE, fields |-> Laid(st).fields, size |-> Laid(st).size],
                   command |-> [ok |-> TRUE, fields |-> Laid(cm).fields,
                                size |-> Laid(cm).size]]
             /\ write_c_header(from_yaml(d)) =
                  [ok |-> TRUE, state |-> Laid(st), command |-> Laid(cm),
                   macros |-> [state |-> Laid(st).size, command |-> Laid(cm).size]]
<1> DEFINE st == Fields(d.state)
           cm == Fields(d.command)
           s == parse_component_fields(st)
           c == parse_component_fields(cm)
<1>1. /\ Missing # d.state /\ Missing # d.command
      /\ st \in Seq(STRING) /\ cm \in Seq(STRING)
  <2>1. Missing \notin {d.state, d.command}
    BY Zenon DEF from_yaml
  <2>2. d.state \in DocComponents /\ d.command \in DocComponents
    BY DocSections
  <2> QED
    BY <2>1, <2>2, FieldsType
<1>2. s.ok /\ c.ok /\ from_yaml(d) = [valid |-> TRUE, state |-> s, command |-> c]
  <2>0. Missing \notin {d.state, d.command}
    BY <1>1
  <2> HIDE DEF s, c
  <2>1. from_yaml(d) = LET cc == IF s.ok THEN c ELSE NoFields
                       IN  [valid |-> s.ok /\ cc.ok, state |-> s, command |-> cc]
    BY <2>0, Zenon DEF from_yaml, s, c
  <2>2. s.ok
    <3>1. (LET cc == IF s.ok THEN c ELSE NoFields
           IN  [valid |-> s.ok /\ cc.ok, state |-> s, command |-> cc]).valid
      BY <2>1, Zenon
    <3> QED
      BY <3>1, Zenon
  <2>3. from_yaml(d) = [valid |-> s.ok /\ c.ok, state |-> s, command |-> c]
    BY <2>1, <2>2, Zenon
  <2>4. s.ok /\ c.ok
    <3>1. [valid |-> s.ok /\ c.ok, state |-> s, command |-> c].valid
      BY <2>3, Zenon
    <3> QED
      BY <3>1, Zenon
  <2>5. (s.ok /\ c.ok) = TRUE
    BY <2>4
  <2> QED
    BY <2>3, <2>4, <2>5, Zenon
<1> HIDE DEF st, cm
<1>3. Known(st) /\ Known(cm)
  BY <1>1, <1>2, OnlyKnownParse
<1>4. /\ s = [ok |-> TRUE, fields |-> Laid(st).fields, size |-> Laid(st).size]
      /\ c = [ok |-> TRUE, fields |-> Laid(cm).fields, size |-> Laid(cm).size]
  BY <1>1, <1>3, ParsedIsPacked DEF Laid
<1> HIDE DEF s, c
<1>5. write_c_header(from_yaml(d)) =
        [ok |-> TRUE, state |-> Laid(st), command |-> Laid(cm),
         macros |-> [state |-> Laid(st).size, command |-> Laid(cm).size]]
  <2> DEFINE h == from_yaml(d)
  <2>1. /\ h.valid
        /\ h.state.fields = Laid(st).fields /\ h.state.size = Laid(st).size
        /\ h.command.fields = Laid(cm).fields
        /\ h.command.size = Laid(cm).size
    BY <1>2, <1>4
  <2> HIDE DEF h
  <2> QED
    BY <1>1, <1>3, <2>1, SameStruct, Zenon DEF write_c_header, h
<1> QED
  BY <1>1, <1>2, <1>3, <1>4, <1>5 DEF st, cm

(* The generator, for an accepted document without repeated keys *)
LEMMA GeneratedIsLaid ==
  ASSUME NEW d \in Docs, from_yaml(d).valid, ~Repeated(d)
  PROVE  generate_header(d) =
           IF HasNoMap(d.state) \/ HasNoMap(d.command) THEN [ok |-> FALSE]
           ELSE write_c_header(from_yaml(d))
<1> DEFINE loaded(s) == IF s \in {Missing, NoMap} THEN s ELSE safe_load(s)
           st == Fields(d.state)
           cm == Fields(d.command)
<1>1. /\ d.state # Missing /\ st \in Seq(STRING) /\ Known(st)
      /\ d.command # Missing /\ cm \in Seq(STRING) /\ Known(cm)
      /\ write_c_header(from_yaml(d)) =
           [ok |-> TRUE, state |-> Laid(st), command |-> Laid(cm),
            macros |-> [state |-> Laid(st).size, command |-> Laid(cm).size]]
  BY AcceptedIsLaid
<1>2. loaded(d.state) = d.state /\ loaded(d.command) = d.command
  <2>1. ~HasRepeats(d.state) /\ ~HasRepeats(d.command)
    BY DEF Repeated
  <2>2. d.state \in DocComponents /\ d.command \in DocComponents
    BY DocSections
  <2> QED
    BY <2>1, <2>2, LoadedIsSame
<1> HIDE DEF loaded, st, cm
<1> DEFINE members(s) == IF s = Missing THEN <<>> ELSE Fields(loaded(s))
           known(s)   == /\ ~HasNoMap(loaded(s))
                         /\ \A i \in DOMAIN members(s) : members(s)[i] \in TypeNames
           struct(s)  == PackedStruct([i \in DOMAIN members(s) |->
                                         parse_field_type(members(s)[i])])
           macro(s)   == SumTo([i \in DOMAIN members(s) |-> TYPE_MAP(members(s)[i])])
                           [Len(members(s))]
<1>3. generate_header(d) =
        IF known(d.state) /\ known(d.command)
        THEN [ok |-> TRUE, state |-> struct(d.state), command |-> struct(d.command),
              macros |-> [state |-> macro(d.state), command |-> macro(d.command)]]
        ELSE [ok |-> FALSE]
  BY Zenon DEF generate_header, loaded
<1>4. members(d.state) = st /\ members(d.command) = cm
  BY <1>1, <1>2 DEF st, cm
<1>5. /\ known(d.state) <=> ~HasNoMap(d.state)
      /\ known(d.command) <=> ~HasNoMap(d.command)
  <2> HIDE DEF members
  <2> QED
    BY <1>1, <1>2, <1>4, Zenon DEF Known
<1>6. struct(d.state) = Laid(st) /\ struct(d.command) = Laid(cm)
  <2> HIDE DEF members
  <2> QED
    BY <1>4, Zenon DEF Laid, Declared
<1>7. macro(d.state) = Laid(st).size /\ macro(d.command) = Laid(cm).size
  <2> HIDE DEF members
  <2> QED
    BY <1>1, <1>4, SameSize, Zenon
<1> HIDE DEF known, struct, macro
<1> QED
  BY <1>1, <1>3, <1>5, <1>6, <1>7, Zenon

-----------------------------------------------------------------------------
(* Values: what a conversion leaves, and what a double shows of it. *)

LEMMA NearestIs ==
  ASSUME NEW S \in SUBSET Int, S # {}, NEW x \in Int
  PROVE  /\ Nearest(S, x) \in S
         /\ \A q \in S : Distance(Nearest(S, x), x) <= Distance(q, x)
<1>0. \A r \in S : Distance(r, x) \in Nat
  BY DEF Distance
<1>1. CASE x \in S
  <2>1. Nearest(S, x) = x /\ Distance(x, x) = 0
    BY <1>1 DEF Nearest, Distance
  <2> QED
    BY <1>0, <1>1, <2>1
<1>2. CASE x \notin S
  <2> DEFINE D == {Distance(r, x) : r \in S}
  <2>1. D \in SUBSET Nat /\ D # {}
    BY <1>0
  <2>2. PICK m \in D : \A n \in D : m <= n
    <3> HIDE DEF D
    <3> QED
      BY <2>1, SmallestExists
  <2>3. \E r \in S : \A q \in S : Distance(r, x) <= Distance(q, x)
    BY <2>2
  <2>4. Nearest(S, x) = CHOOSE r \in S : \A q \in S : Distance(r, x) <= Distance(q, x)
    BY <1>2 DEF Nearest
  <2> QED
    BY <2>3, <2>4, Zenon
<1> QED
  BY <1>1, <1>2

LEMMA NearestShows ==
  ASSUME NEW x \in Int
  PROVE  Shows(Nearest(Float64s, x), x)
<1> DEFINE r == Nearest(Float64s, x)
<1>1. Float64s \in SUBSET Int /\ Float64s # {} /\ Infinity \notin Int
  BY SchemaAssumption DEF SchemaAssumption
<1>2. r \in Float64s /\ \A q \in Float64s : Distance(r, x) <= Distance(q, x)
  BY <1>1, NearestIs
<1> HIDE DEF r
<1>3. ASSUME NEW d \in Float64s PROVE ~(r < d /\ d <= x) /\ ~(x <= d /\ d < r)
  <2>1. d \in Int /\ r \in Int /\ Distance(r, x) <= Distance(d, x)
    BY <1>1, <1>2
  <2> QED
    BY <2>1 DEF Distance
<1>4. x # Infinity
  BY <1>1
<1> QED
  BY <1>2, <1>3, <1>4 DEF Shows, r

LEMMA LimitsType ==
  ASSUME NEW t \in FieldTypes, t # "float64"
  PROVE  /\ Limits[t].lo \in Int /\ Limits[t].lo <= 0
         /\ Limits[t].hi \in Int /\ 0 <= Limits[t].hi
BY SchemaAssumption DEF SchemaAssumption

LEMMA CastType ==
  ASSUME NEW t \in FieldTypes, NEW h \in Numbers \cup {0}
  PROVE  /\ static_cast[t][h] \subseteq Int \cup {Infinity}
         /\ \A v \in static_cast[t][h] : CanHold(t, h) => v = h
<1>1. /\ h \in Int /\ Float64s \in SUBSET Int /\ Float32s \in SUBSET Int
      /\ Float64s # {} /\ Float32s # {}
  BY SchemaAssumption DEF SchemaAssumption
<1>2. CASE t = "float64"
  <2>1. static_cast[t][h] = {Nearest(Float64s, h)}
    BY <1>2 DEF static_cast
  <2>2. Nearest(Float64s, h) \in Int
    BY <1>1, NearestIs
  <2>3. CanHold(t, h) => Nearest(Float64s, h) = h
    BY <1>2 DEF CanHold, Nearest
  <2> QED
    BY <2>1, <2>2, <2>3
<1>3. CASE t = "float32"
  <2>1. static_cast[t][h] = {IF InLimits(t, h) THEN Nearest(Float32s, h) ELSE Infinity}
    BY <1>3 DEF static_cast
  <2>2. Nearest(Float32s, h) \in Int
    BY <1>1, NearestIs
  <2>3. CanHold(t, h) => InLimits(t, h) /\ Nearest(Float32s, h) = h
    BY <1>3 DEF CanHold, Nearest
  <2> QED
    BY <2>1, <2>2, <2>3
<1>4. CASE t \notin {"float64", "float32"}
  <2> DEFINE n == Truncate(h)
             lo == Limits[t].lo
             hi == Limits[t].hi
  <2>1. static_cast[t][h] = ToInteger(t, n)
    BY <1>4 DEF static_cast
  <2>2. n \in Int
    BY <1>1 DEF Truncate
  <2>3. lo \in Int /\ lo <= 0 /\ hi \in Int /\ 0 <= hi
    BY <1>4, LimitsType
  <2>4. LowBytes(t, n) \in Int /\ Saturated(t, n) \in Int
    <3> DEFINE w == hi - lo + 1
               m == (n - lo) % w
    <3>1. w \in Nat /\ w > 0 /\ n - lo \in Int
      BY <2>2, <2>3
    <3>2. m \in Int
      <4> HIDE DEF w
      <4> QED
        BY <2>2, <2>3, <3>1
    <3>3. LowBytes(t, n) = lo + m /\ Saturated(t, n) = IF n < lo THEN lo ELSE hi
      BY DEF LowBytes, Saturated
    <3> HIDE DEF m, lo, hi, n
    <3> QED
      BY <2>3, <3>2, <3>3
  <2>5. CanHold(t, h) => InLimits(t, n) /\ 2 * n = h
    <3> SUFFICES ASSUME CanHold(t, h) PROVE InLimits(t, n) /\ 2 * n = h
      OBVIOUS
    <3>1. PICK i \in lo .. hi : h = 2 * i
      BY <1>4 DEF CanHold
    <3>2. n = i
      BY <2>3, <3>1 DEF Truncate
    <3> QED
      BY <2>3, <3>1, <3>2 DEF InLimits
  <2> HIDE DEF n
  <2>6. 2 * n \in Int /\ 2 * LowBytes(t, n) \in Int /\ 2 * Saturated(t, n) \in Int
    BY <2>2, <2>4
  <2> QED
    BY <2>1, <2>5, <2>6 DEF ToInteger
<1> QED
  BY <1>2, <1>3, <1>4

LEMMA ZeroIsHeld ==
  ASSUME NEW t \in FieldTypes
  PROVE  0 \in static_cast[t][0]
<1>1. 0 \in Float64s /\ 0 \in Float32s
  BY SchemaAssumption DEF SchemaAssumption
<1>2. Nearest(Float64s, 0) = 0 /\ Nearest(Float32s, 0) = 0 /\ Truncate(0) = 0
  BY <1>1 DEF Nearest, Truncate
<1>3. t # "float64" => InLimits(t, 0)
  BY LimitsType DEF InLimits
<1>4. 0 \in Numbers \cup {0}
  OBVIOUS
<1>5. CASE t = "float64"
  BY <1>2, <1>4, <1>5 DEF static_cast
<1>6. CASE t = "float32"
  BY <1>2, <1>3, <1>4, <1>6 DEF static_cast
<1>7. CASE t \notin {"float64", "float32"}
  <2>1. static_cast[t][0] = ToInteger(t, 0)
    BY <1>2, <1>4, <1>7 DEF static_cast
  <2> QED
    BY <1>3, <1>7, <2>1 DEF ToInteger
<1> QED
  BY <1>5, <1>6, <1>7

(* What a field holds is read as the double next to it. *)
LEMMA ReadShows ==
  ASSUME NEW t \in FieldTypes, NEW v \in Stored[t]
  PROVE  Shows(ToDouble(v), v)
<1>1. PICK h \in Numbers \cup {0} : v \in static_cast[t][h]
  BY DEF Stored
<1>2. v \in Int \cup {Infinity}
  BY <1>1, CastType
<1>3. Junk \notin Int /\ Junk # Infinity
  BY SchemaAssumption DEF SchemaAssumption
<1>4. ToDouble(v) = AsDouble[v]
  BY <1>2, <1>3 DEF ToDouble
<1>5. AsDouble[v] = IF v = Infinity THEN Infinity ELSE Nearest(Float64s, v)
  BY DEF AsDouble
<1>6. CASE v = Infinity
  BY <1>4, <1>5, <1>6 DEF Shows
<1>7. CASE v # Infinity
  BY <1>2, <1>4, <1>5, <1>7, NearestShows
<1> QED
  BY <1>6, <1>7

(* Different numbers of a field have different bytes. *)
LEMMA BytesTellValues ==
  ASSUME NEW t \in FieldTypes, NEW g, NEW h,
         \A k \in 0 .. field_byte_size(t) - 1 : Bytes(t, g)[k] = Bytes(t, h)[k]
  PROVE  g = h
<1>0. 0 \in 0 .. field_byte_size(t) - 1
  BY SizesAgree
<1>1. Bytes(t, g)[0] = Bytes(t, h)[0]
  BY <1>0
<1>2. /\ Bytes(t, g)[0] = IF g = 0 THEN <<0>> ELSE <<t, g, 0>>
      /\ Bytes(t, h)[0] = IF h = 0 THEN <<0>> ELSE <<t, h, 0>>
  BY <1>0 DEF Bytes
<1>3. <<t, g, 0>> # <<0>> /\ <<t, h, 0>> # <<0>>
  OBVIOUS
<1>4. <<t, g, 0>> = <<t, h, 0>> => g = h
  OBVIOUS
<1>5. CASE g = 0
  BY <1>1, <1>2, <1>3, <1>5
<1>6. CASE g # 0
  BY <1>1, <1>2, <1>3, <1>4, <1>6
<1> QED
  BY <1>5, <1>6

(* Load finds the number whose bytes the field holds. *)
LEMMA LoadFinds ==
  ASSUME NEW f \in Field, NEW buffer, NEW v \in Stored[f.type], Holds(buffer, f, v)
  PROVE  Load(buffer, f) = v
<1>1. f.type \in FieldTypes
  BY DEF Field
<1>2. ASSUME NEW g \in Stored[f.type], Holds(buffer, f, g) PROVE g = v
  <2>1. \A k \in 0 .. field_byte_size(f.type) - 1 : Bytes(f.type, g)[k] = Bytes(f.type, v)[k]
    BY <1>2 DEF Holds
  <2> QED
    BY <1>1, <2>1, BytesTellValues
<1>3. (CHOOSE g \in Stored[f.type] : Holds(buffer, f, g)) = v
  BY <1>2, Zenon
<1> QED
  BY <1>3 DEF Load

(* A write inside the buffer leaves its size alone, is found again, and    *)
(* does not disturb what lies beside it.                                   *)
LEMMA StoreIsLocal ==
  ASSUME NEW size \in Nat, NEW buffer, DOMAIN buffer = 0 .. size - 1,
         NEW f \in Field, f.offset + SizeOf[f.type] <= size, NEW v
  PROVE  LET b == Store(buffer, f.offset, Bytes(f.type, v))
         IN  /\ DOMAIN b = 0 .. size - 1
             /\ Holds(b, f, v)
             /\ \A g \in Field : \A h :
                  /\ Holds(buffer, g, h)
                  /\ \/ g.offset + SizeOf[g.type] <= f.offset
                     \/ f.offset + SizeOf[f.type] <= g.offset
                  => Holds(b, g, h)
<1> DEFINE o == f.offset
           s == SizeOf[f.type]
           bytes == Bytes(f.type, v)
           b == Store(buffer, o, bytes)
<1>1. /\ o \in Nat /\ s \in 1 .. 8 /\ field_byte_size(f.type) = s
      /\ f.type \in FieldTypes
  BY SizesAgree DEF Field
<1>2. DOMAIN bytes = 0 .. s - 1
  BY <1>1 DEF Bytes
<1>3. o + s <= size
  OBVIOUS
<1> HIDE DEF o, s, bytes
<1>4. b = [a \in 0 .. size - 1 |-> IF a - o \in 0 .. s - 1 THEN bytes[a - o] ELSE buffer[a]]
  <2>1. DOMAIN buffer \cup {o + k : k \in DOMAIN bytes} = 0 .. size - 1
    BY <1>1, <1>2, <1>3
  <2> QED
    BY <1>2, <2>1 DEF Store
<1> HIDE DEF b
<1>5. DOMAIN b = 0 .. size - 1
  BY <1>4
<1>6. Holds(b, f, v)
  <2>1. ASSUME NEW k \in 0 .. s - 1 PROVE o + k \in DOMAIN b /\ b[o + k] = bytes[k]
    <3>1. o + k \in 0 .. size - 1 /\ (o + k) - o = k
      BY <1>1, <1>3
    <3> QED
      BY <1>4, <3>1
  <2> QED
    BY <1>1, <2>1 DEF Holds, o, bytes
<1>7. ASSUME NEW g \in Field, NEW h, Holds(buffer, g, h),
             g.offset + SizeOf[g.type] <= o \/ o + s <= g.offset
      PROVE  Holds(b, g, h)
  <2>1. g.offset \in Nat /\ SizeOf[g.type] \in 1 .. 8
        /\ field_byte_size(g.type) = SizeOf[g.type]
    BY SizesAgree DEF Field
  <2>2. ASSUME NEW k \in 0 .. field_byte_size(g.type) - 1
        PROVE  /\ g.offset + k \in DOMAIN b
               /\ b[g.offset + k] = Bytes(g.type, h)[k]
    <3> DEFINE a == g.offset + k
    <3>1. a \in 0 .. size - 1 /\ buffer[a] = Bytes(g.type, h)[k]
      BY <1>7 DEF Holds
    <3>2. a - o \notin 0 .. s - 1
      <4> DEFINE n == SizeOf[g.type]
                 p == g.offset
      <4>1. p \in Nat /\ n \in Nat /\ k \in Nat /\ k < n /\ (p + n <= o \/ o + s <= p)
        BY <1>7, <2>1
      <4> HIDE DEF n, p
      <4>2. (p + k) - o \notin 0 .. s - 1
        BY <1>1, <4>1
      <4> QED
        BY <4>2 DEF p
    <3> HIDE DEF a
    <3>3. b[a] = buffer[a] /\ a \in DOMAIN b
      BY <1>4, <3>1, <3>2
    <3> QED
      BY <3>1, <3>3 DEF a
  <2> QED
    BY <2>2 DEF Holds
<1> QED
  BY <1>5, <1>6, <1>7 DEF o, s, b, bytes

-----------------------------------------------------------------------------
(* The inductive invariant.  Layout is what a section has by its           *)
(* derivation, Carries what the writes keep.                               *)

Layout(s) ==
  /\ s.size \in Nat /\ s.fields \in Seq(Field)
  /\ \A i \in DOMAIN s.fields : s.fields[i].offset + SizeOf[s.fields[i].type] <= s.size
  /\ \A i, j \in DOMAIN s.fields :
       i < j => s.fields[i].offset + SizeOf[s.fields[i].type] <= s.fields[j].offset

(* The buffer has the size of the section, and each field holds the bytes  *)
(* of a number that the one it was given converts to.                      *)
Carries(s, buffer, given) ==
  /\ DOMAIN buffer = 0 .. s.size - 1
  /\ DOMAIN given = DOMAIN s.fields
  /\ \A i \in DOMAIN s.fields :
       /\ given[i] \in Numbers \cup {0}
       /\ \E v \in static_cast[s.fields[i].type][given[i]] : Holds(buffer, s.fields[i], v)

(* Both sides keep what they have derived from the document. *)
Derived == doc \in Docs /\ host = from_yaml(doc) /\ firmware = generate_header(doc)

IInv == /\ Derived
        /\ DOMAIN wire = Sections /\ DOMAIN meant = Sections
        /\ Agreed => \A sec \in Sections : Carries(host[sec], wire[sec], meant[sec])
-----------------------------------------------------------------------------
LEMMA LaidLayout ==
  ASSUME NEW types \in Seq(STRING), Known(types)
  PROVE  Layout([ok |-> TRUE, fields |-> Laid(types).fields, size |-> Laid(types).size])
<1> DEFINE ts == Declared(types)
           p == PackedStruct(ts)
<1>1. ts \in Seq(FieldTypes)
  BY ParsedIsPacked
<1> HIDE DEF ts
<1>2. /\ p.size \in Nat /\ p.fields \in Seq(Field) /\ DOMAIN p.fields = DOMAIN ts
      /\ \A i \in DOMAIN ts : /\ p.fields[i].type = ts[i]
                              /\ p.fields[i].offset + SizeOf[ts[i]] <= p.size
      /\ \A i, j \in DOMAIN ts :
           i < j => p.fields[i].offset + SizeOf[ts[i]] <= p.fields[j].offset
  BY <1>1, PackedLayout
<1>3. Laid(types) = p
  BY DEF Laid, ts
<1> HIDE DEF p
<1> QED
  BY <1>2, <1>3 DEF Layout

LEMMA HostLayout ==
  ASSUME Derived, host.valid
  PROVE  \A sec \in Sections : Layout(host[sec])
<1> DEFINE st == Fields(doc.state)
           cm == Fields(doc.command)
<1>1. doc \in Docs /\ from_yaml(doc).valid
  BY DEF Derived
<1>2. /\ st \in Seq(STRING) /\ Known(st) /\ cm \in Seq(STRING) /\ Known(cm)
      /\ host = [valid |-> TRUE,
                 state |-> [ok |-> TRUE, fields |-> Laid(st).fields, size |-> Laid(st).size],
                 command |-> [ok |-> TRUE, fields |-> Laid(cm).fields,
                              size |-> Laid(cm).size]]
  BY <1>1, AcceptedIsLaid DEF Derived
<1> HIDE DEF st, cm
<1>3. Layout(host.state) /\ Layout(host.command)
  BY <1>2, LaidLayout
<1> QED
  BY <1>3 DEF Sections

(* What the firmware has of a document without repeated keys *)
LEMMA FirmwareLayout ==
  ASSUME Derived, host.valid, ~Repeated(doc)
  PROVE  IF HasNoMap(doc.state) \/ HasNoMap(doc.command) THEN ~firmware.ok
         ELSE /\ firmware.ok /\ write_c_header(host) = firmware
              /\ \A sec \in Sections : /\ host[sec].fields = firmware[sec].fields
                                      /\ host[sec].size = firmware[sec].size
<1> DEFINE st == Fields(doc.state)
           cm == Fields(doc.command)
<1>1. doc \in Docs /\ from_yaml(doc).valid /\ host = from_yaml(doc)
  BY DEF Derived
<1>2. /\ host = [valid |-> TRUE,
                 state |-> [ok |-> TRUE, fields |-> Laid(st).fields, size |-> Laid(st).size],
                 command |-> [ok |-> TRUE, fields |-> Laid(cm).fields,
                              size |-> Laid(cm).size]]
      /\ write_c_header(host) =
           [ok |-> TRUE, state |-> Laid(st), command |-> Laid(cm),
            macros |-> [state |-> Laid(st).size, command |-> Laid(cm).size]]
  BY <1>1, AcceptedIsLaid
<1>3. firmware = IF HasNoMap(doc.state) \/ HasNoMap(doc.command) THEN [ok |-> FALSE]
                 ELSE write_c_header(host)
  BY <1>1, GeneratedIsLaid DEF Derived
<1> HIDE DEF st, cm
<1>4. CASE HasNoMap(doc.state) \/ HasNoMap(doc.command)
  BY <1>3, <1>4
<1>5. CASE ~(HasNoMap(doc.state) \/ HasNoMap(doc.command))
  <2>1. firmware = write_c_header(host)
    BY <1>3, <1>5
  <2>2. /\ host.state.fields = firmware.state.fields /\ host.state.size = firmware.state.size
        /\ host.command.fields = firmware.command.fields
        /\ host.command.size = firmware.command.size
        /\ firmware.ok
    BY <1>2, <2>1
  <2> QED
    BY <1>5, <2>1, <2>2 DEF Sections
<1> QED
  BY <1>4, <1>5

LEMMA AgreedLayout ==
  ASSUME Derived, Agreed
  PROVE  \A sec \in Sections : /\ Layout(host[sec])
                               /\ host[sec].fields = firmware[sec].fields
                               /\ host[sec].size = firmware[sec].size
BY HostLayout, FirmwareLayout DEF Agreed

LEMMA WriteCarries ==
  ASSUME NEW s, Layout(s), NEW buffer, NEW given, Carries(s, buffer, given),
         NEW i \in DOMAIN s.fields, NEW h \in Numbers,
         NEW v \in static_cast[s.fields[i].type][h]
  PROVE  Carries(s, Store(buffer, s.fields[i].offset, Bytes(s.fields[i].type, v)),
                 [given EXCEPT ![i] = h])
<1> DEFINE f == s.fields[i]
           b == Store(buffer, f.offset, Bytes(f.type, v))
           new == [given EXCEPT ![i] = h]
<1>1. \A j \in DOMAIN s.fields : s.fields[j] \in Field
  BY DEF Layout
<1>2. /\ DOMAIN b = 0 .. s.size - 1
      /\ Holds(b, f, v)
      /\ \A g \in Field : \A u :
           /\ Holds(buffer, g, u)
           /\ \/ g.offset + SizeOf[g.type] <= f.offset
              \/ f.offset + SizeOf[f.type] <= g.offset
           => Holds(b, g, u)
  BY <1>1, StoreIsLocal DEF Layout, Carries
<1> HIDE DEF b
<1>3. ASSUME NEW j \in DOMAIN s.fields
      PROVE  /\ new[j] \in Numbers \cup {0}
             /\ \E u \in static_cast[s.fields[j].type][new[j]] : Holds(b, s.fields[j], u)
  <2>1. CASE j = i
    <3>1. new[j] = h
      BY <2>1 DEF Carries
    <3> QED
      BY <1>2, <2>1, <3>1
  <2>2. CASE j # i
    <3>1. new[j] = given[j]
      BY <2>2 DEF Carries
    <3>2. \/ s.fields[j].offset + SizeOf[s.fields[j].type] <= f.offset
          \/ f.offset + SizeOf[f.type] <= s.fields[j].offset
      <4>1. i \in Int /\ j \in Int
        BY DEF Layout
      <4>2. i < j \/ j < i
        BY <2>2, <4>1
      <4> QED
        BY <4>2 DEF Layout
    <3>3. PICK u \in static_cast[s.fields[j].type][given[j]] : Holds(buffer, s.fields[j], u)
      BY DEF Carries
    <3>4. Holds(b, s.fields[j], u)
      BY <1>1, <1>2, <3>2, <3>3
    <3>5. given[j] \in Numbers \cup {0}
      BY DEF Carries
    <3> HIDE DEF new
    <3> QED
      BY <3>1, <3>3, <3>4, <3>5
  <2> QED
    BY <2>1, <2>2
<1>4. DOMAIN new = DOMAIN s.fields
  BY DEF Carries
<1> QED
  BY <1>2, <1>3, <1>4 DEF Carries, b

LEMMA ZeroCarries ==
  ASSUME NEW s, Layout(s)
  PROVE  Carries(s, Zeros(s.size), [i \in DOMAIN s.fields |-> 0])
<1> DEFINE b == Zeros(s.size)
<1>1. \A a \in 0 .. s.size - 1 : a \in DOMAIN b /\ b[a] = <<0>>
  BY DEF Zeros
<1>2. ASSUME NEW i \in DOMAIN s.fields
      PROVE  0 \in static_cast[s.fields[i].type][0] /\ Holds(b, s.fields[i], 0)
  <2> DEFINE f == s.fields[i]
             o == f.offset
             n == SizeOf[f.type]
  <2>1. f \in Field /\ o + n <= s.size
    BY DEF Layout
  <2>2. o \in Nat /\ n \in Nat /\ field_byte_size(f.type) = n /\ s.size \in Nat
    <3>1. o \in Nat /\ f.type \in FieldTypes
      BY <2>1 DEF Field
    <3>2. field_byte_size(f.type) = n /\ n \in 1 .. 8
      <4> HIDE DEF f
      <4> QED
        BY <3>1, SizesAgree
    <3>3. s.size \in Nat
      BY DEF Layout
    <3> HIDE DEF n
    <3> QED
      BY <3>1, <3>2, <3>3
  <2>3. ASSUME NEW k \in 0 .. n - 1
        PROVE  o + k \in DOMAIN b /\ b[o + k] = Bytes(f.type, 0)[k]
    <3>1. Bytes(f.type, 0)[k] = <<0>>
      BY <2>2 DEF Bytes
    <3>2. o + k \in 0 .. s.size - 1
      <4> HIDE DEF o, n
      <4> QED
        BY <2>1, <2>2
    <3> QED
      BY <1>1, <3>1, <3>2
  <2>4. 0 \in static_cast[f.type][0]
    BY <2>1, ZeroIsHeld DEF Field
  <2> QED
    BY <2>2, <2>3, <2>4 DEF Holds
<1>3. DOMAIN b = 0 .. s.size - 1
  BY DEF Zeros
<1> HIDE DEF b
<1>4. ASSUME NEW i \in DOMAIN s.fields
      PROVE  \E v \in static_cast[s.fields[i].type][0] : Holds(b, s.fields[i], v)
  BY <1>2
<1> QED
  BY <1>3, <1>4 DEF Carries, b

LEMMA InitIInv == Init => IInv
<1> SUFFICES ASSUME Init PROVE IInv
  OBVIOUS
<1>1. Derived
  BY DEF Init, Derived
<1>2. DOMAIN wire = Sections /\ DOMAIN meant = Sections
  BY DEF Init, Sections
<1>3. ASSUME Agreed, NEW sec \in Sections
      PROVE  Carries(host[sec], wire[sec], meant[sec])
  <2>1. Layout(host[sec]) /\ host.state.size = firmware.state.size
    BY <1>1, <1>3, AgreedLayout DEF Sections
  <2>2. wire[sec] = Zeros(host[sec].size)
    BY <1>3, <2>1 DEF Init, Sections, Agreed
  <2>3. meant[sec] = [i \in DOMAIN host[sec].fields |-> 0]
    BY DEF Init
  <2> QED
    BY <2>1, <2>2, <2>3, ZeroCarries
<1> QED
  BY <1>1, <1>2, <1>3 DEF IInv

(* Writing field i of a section keeps the section, and does not touch the  *)
(* other one.                                                              *)
LEMMA WriteKeepsIInv ==
  ASSUME IInv, Agreed, UNCHANGED <<doc, host, firmware>>,
         NEW sec \in Sections, NEW i \in DOMAIN host[sec].fields, NEW h \in Numbers,
         NEW v \in static_cast[host[sec].fields[i].type][h],
         wire' = [wire EXCEPT ![sec] = Store(@, host[sec].fields[i].offset,
                                             Bytes(host[sec].fields[i].type, v))],
         meant' = [meant EXCEPT ![sec][i] = h]
  PROVE  IInv'
<1>1. Derived' /\ DOMAIN wire' = Sections /\ DOMAIN meant' = Sections
  BY DEF IInv, Derived
<1>2. \A r \in Sections : Layout(host[r]) /\ Carries(host[r], wire[r], meant[r])
  BY AgreedLayout DEF IInv
<1>3. ASSUME NEW r \in Sections PROVE Carries(host[r], wire'[r], meant'[r])
  <2>1. CASE r = sec
    <3>1. /\ wire'[r] = Store(wire[r], host[r].fields[i].offset,
                              Bytes(host[r].fields[i].type, v))
          /\ meant'[r] = [meant[r] EXCEPT ![i] = h]
      BY <2>1 DEF IInv
    <3> DEFINE s == host[r]
               buffer == wire[r]
               given == meant[r]
    <3>2. /\ Layout(s) /\ Carries(s, buffer, given)
          /\ i \in DOMAIN s.fields /\ v \in static_cast[s.fields[i].type][h]
      BY <1>2, <2>1
    <3> HIDE DEF s, buffer, given
    <3>3. Carries(s, Store(buffer, s.fields[i].offset, Bytes(s.fields[i].type, v)),
                  [given EXCEPT ![i] = h])
      BY <3>2, WriteCarries
    <3> QED
      BY <3>1, <3>3, Zenon DEF s, buffer, given
  <2>2. CASE r # sec
    BY <1>2, <2>2 DEF IInv
  <2> QED
    BY <2>1, <2>2
<1> QED
  BY <1>1, <1>3 DEF IInv

(* Where the two sides do not agree, only what they derived is kept. *)
LEMMA DisagreedIInv ==
  ASSUME IInv, ~Agreed, UNCHANGED <<doc, host, firmware>>,
         DOMAIN wire' = DOMAIN wire, DOMAIN meant' = DOMAIN meant
  PROVE  IInv'
<1>1. ~Agreed'
  BY DEF Agreed, Repeated, HasRepeats
<1>2. Derived' /\ DOMAIN wire' = Sections /\ DOMAIN meant' = Sections
  BY DEF IInv, Derived
<1> QED
  BY <1>1, <1>2 DEF IInv

LEMMA NextIInv == IInv /\ [Next]_vars => IInv'
<1> SUFFICES ASSUME IInv, [Next]_vars PROVE IInv'
  OBVIOUS
<1>1. ASSUME NEW h \in Numbers, NEW i \in 1 .. Len(host.command.fields) + 1,
             write_command_field(i, h)
      PROVE  IInv'
  <2>1. host.valid /\ UNCHANGED <<doc, host, firmware>>
    BY <1>1 DEF write_command_field
  <2>2. CASE i > Len(host.command.fields)
    <3>1. UNCHANGED <<doc, host, firmware, wire, meant>>
      BY <1>1, <2>2 DEF write_command_field
    <3> QED
      BY <3>1 DEF IInv, Derived, Agreed
  <2>3. CASE ~(i > Len(host.command.fields))
    <3> DEFINE f == host.command.fields[i]
    <3>1. PICK v \in static_cast[f.type][h] :
            /\ wire' = [wire EXCEPT !.command = Store(@, f.offset, Bytes(f.type, v))]
            /\ meant' = [meant EXCEPT !.command[i] = h]
      BY <1>1, <2>3 DEF write_command_field
    <3>2. i \in DOMAIN host["command"].fields /\ "command" \in Sections
      <4>1. Layout(host.command)
        BY <2>1, HostLayout DEF IInv, Sections
      <4> QED
        BY <2>3, <4>1 DEF Layout, Sections
    <3>3. CASE Agreed
      BY <2>1, <3>1, <3>2, <3>3, WriteKeepsIInv
    <3>4. CASE ~Agreed
      <4>1. DOMAIN wire' = DOMAIN wire /\ DOMAIN meant' = DOMAIN meant
        BY <3>1
      <4> QED
        BY <2>1, <3>4, <4>1, DisagreedIInv
    <3> QED
      BY <3>3, <3>4
  <2> QED
    BY <2>2, <2>3
<1>2. ASSUME NEW h \in Numbers, NEW i \in 1 .. Len(host.state.fields),
             AssignStateMember(i, h)
      PROVE  IInv'
  <2> DEFINE f == firmware.state.fields[i]
  <2>1. i \in DOMAIN firmware.state.fields /\ UNCHANGED <<doc, host, firmware>>
    BY <1>2 DEF AssignStateMember
  <2>2. PICK v \in static_cast[f.type][h] :
          /\ wire' = [wire EXCEPT !.state = Store(@, f.offset, Bytes(f.type, v))]
          /\ meant' = [meant EXCEPT !.state[i] = h]
    BY <1>2 DEF AssignStateMember
  <2>3. CASE Agreed
    <3>1. firmware.state.fields = host["state"].fields /\ "state" \in Sections
      BY <2>3, AgreedLayout DEF IInv, Sections
    <3> QED
      BY <2>1, <2>2, <2>3, <3>1, WriteKeepsIInv
  <2>4. CASE ~Agreed
    <3>1. DOMAIN wire' = DOMAIN wire /\ DOMAIN meant' = DOMAIN meant
      BY <2>2
    <3> QED
      BY <2>1, <2>4, <3>1, DisagreedIInv
  <2> QED
    BY <2>3, <2>4
<1>3. CASE UNCHANGED vars
  BY <1>3 DEF vars, IInv, Derived, Agreed
<1> QED
  BY <1>1, <1>2, <1>3 DEF Next

(* A field has what was last meant for it. *)
LEMMA FieldArrives ==
  ASSUME IInv, Agreed, NEW sec \in Sections, NEW i \in DOMAIN meant[sec]
  PROVE  LET f == firmware[sec].fields[i]
         IN  Arrives(f.type, meant[sec][i], Load(wire[sec], f), read_field(sec, i))
<1> DEFINE f == host[sec].fields[i]
           given == meant[sec][i]
<1>1. /\ Layout(host[sec]) /\ Carries(host[sec], wire[sec], meant[sec])
      /\ firmware[sec].fields = host[sec].fields
  BY AgreedLayout DEF IInv
<1>2. /\ i \in DOMAIN host[sec].fields /\ f \in Field
      /\ given \in Numbers \cup {0}
      /\ \E v \in static_cast[f.type][given] : Holds(wire[sec], f, v)
  BY <1>1 DEF Layout, Carries
<1> HIDE DEF f, given
<1>3. PICK v \in static_cast[f.type][given] : Holds(wire[sec], f, v)
  BY <1>2
<1>4. f.type \in FieldTypes
  BY <1>2 DEF Field
<1>5. v \in Stored[f.type]
  BY <1>2, <1>3, <1>4 DEF Stored
<1>6. Load(wire[sec], f) = v
  BY <1>2, <1>3, <1>5, LoadFinds
<1>7. ~(i > Len(host[sec].fields))
  BY <1>1, <1>2 DEF Layout
<1>8. read_field(sec, i) = ToDouble(v)
  BY <1>6, <1>7, Zenon DEF read_field, f
<1>9. CanHold(f.type, given) => v = given
  BY <1>2, <1>3, <1>4, CastType
<1>10. Shows(ToDouble(v), v)
  BY <1>4, <1>5, ReadShows
<1>11. Arrives(f.type, given, v, ToDouble(v))
  BY <1>3, <1>9, <1>10, Zenon DEF Arrives
<1> QED
  BY <1>1, <1>6, <1>8, <1>11, Zenon DEF f, given

(* Whatever is written, both sides keep the layout of the document and     *)
(* each field the bytes it was given.                                      *)
THEOREM Inductive == Spec => []IInv
  BY InitIInv, NextIInv, PTL DEF Spec

(* For every document without repeated keys that from_yaml() accepts,      *)
(* generate_header() and write_c_header() give the same packed structs and *)
(* sizes, or generate_header() fails on a key with nothing behind it.      *)
THEOREM SameWire == Spec => []WireCompatible
<1>1. IInv => WireCompatible
  BY FirmwareLayout DEF IInv, WireCompatible
<1> QED
  BY <1>1, Inductive, PTL

(* For every layout, every width of the types and every sequence of        *)
(* write_command_field(), each member of the command struct has what the   *)
(* host gave it last, unchanged where its type can hold it.                *)
THEOREM CommandsAreFound == Spec => []CommandsArrive
<1>1. IInv => CommandsArrive
  <2> SUFFICES ASSUME IInv, Agreed PROVE CommandsArrive
    BY DEF CommandsArrive
  <2>1. DOMAIN wire.command = 0 .. host.command.size - 1
    BY DEF IInv, Carries, Sections
  <2>2. "command" \in Sections
    BY DEF Sections
  <2>3. ASSUME NEW i \in DOMAIN meant.command
        PROVE  LET f == firmware.command.fields[i]
               IN  Arrives(f.type, meant.command[i], Load(wire.command, f),
                           read_field("command", i))
    BY <2>2, FieldArrives
  <2> QED
    BY <2>1, <2>3 DEF CommandsArrive
<1> QED
  BY <1>1, Inductive, PTL

(* Each state interface shows the number the firmware last assigned to the *)
(* member, or the double next to it: for every layout and every width,     *)
(* read_state_field() finds it in its place.                               *)
THEOREM StatesAreFound == Spec => []StatesArrive
<1>1. IInv => StatesArrive
  <2> SUFFICES ASSUME IInv, Agreed PROVE StatesArrive
    BY DEF StatesArrive
  <2>1. "state" \in Sections
    BY DEF Sections
  <2>2. ASSUME NEW i \in DOMAIN meant.state
        PROVE  LET f == firmware.state.fields[i]
               IN  Arrives(f.type, meant.state[i], Load(wire.state, f), read_field("state", i))
    BY <2>1, FieldArrives
  <2> QED
    BY <2>2 DEF StatesArrive
<1> QED
  BY <1>1, Inductive, PTL

-----------------------------------------------------------------------------
(* Tier 1.  Sequences of bytes *)

LEMMA CatBytes ==
  ASSUME NEW s \in Seq(Int), NEW b \in Seq(Int)
  PROVE  /\ s \o b \in Seq(Int)
         /\ Len(s) \in Nat /\ Len(b) \in Nat
         /\ Len(s \o b) = Len(s) + Len(b)
         /\ \A k \in 1 .. Len(s) : (s \o b)[k] = s[k]
         /\ \A k \in 1 .. Len(b) : (s \o b)[Len(s) + k] = b[k]
<1>1. Len(s) \in Nat /\ Len(b) \in Nat
  BY LenProperties
<1> QED
  BY <1>1, ConcatProperties

LEMMA FunctionIsSeq ==
  ASSUME NEW S, NEW n \in Nat, NEW f \in [1 .. n -> S]
  PROVE  f \in Seq(S) /\ Len(f) = n
<1>1. f \in Seq(S)
  BY SeqDef
<1>2. DOMAIN f = 1 .. n /\ DOMAIN f = 1 .. Len(f) /\ Len(f) \in Nat
  BY <1>1, LenProperties
<1> QED
  BY <1>1, <1>2

LEMMA CatAssociative ==
  ASSUME NEW a \in Seq(Int), NEW b \in Seq(Int), NEW c \in Seq(Int)
  PROVE  (a \o b) \o c = a \o (b \o c)
BY ConcatAssociative

LEMMA ZeroBytes ==
  ASSUME NEW n \in Nat
  PROVE  Zero(n) \in Seq(Int) /\ Len(Zero(n)) = n /\ \A k \in 1 .. n : Zero(n)[k] = 0
<1>1. Zero(n) \in [1 .. n -> Int]
  BY DEF Zero
<1>2. Zero(n) \in Seq(Int) /\ Len(Zero(n)) = n
  BY <1>1
<1> QED
  BY <1>2 DEF Zero

LEMMA U32Bytes ==
  ASSUME NEW n \in Int
  PROVE  /\ U32(n) \in Seq(Int) /\ Len(U32(n)) = 4
         /\ U32(n)[1] = n /\ \A k \in 2 .. 4 : U32(n)[k] = 0
<1>1. U32(n) \in Seq(Int) /\ Len(U32(n)) = 4 /\ U32(n)[1] = n
  BY DEF U32
<1>2. U32(n)[2] = 0 /\ U32(n)[3] = 0 /\ U32(n)[4] = 0
  BY DEF U32
<1> QED
  BY <1>1, <1>2

LEMMA DoublesBytes ==
  ASSUME NEW ds \in Seq(Int)
  PROVE  /\ Doubles(ds) \in Seq(Int) /\ Len(Doubles(ds)) = 8 * Len(ds) /\ Len(ds) \in Nat
         /\ \A k \in 1 .. 8 * Len(ds) : Doubles(ds)[k] = ds[(k - 1) \div 8 + 1]
<1>1. Len(ds) \in Nat /\ 8 * Len(ds) \in Nat
  BY LenProperties
<1>2. ASSUME NEW k \in 1 .. 8 * Len(ds) PROVE ds[(k - 1) \div 8 + 1] \in Int
  <2>1. (k - 1) \div 8 + 1 \in 1 .. Len(ds)
    BY <1>1
  <2> QED
    BY <2>1, ElementOfSeq
<1>3. Doubles(ds) \in [1 .. 8 * Len(ds) -> Int]
  BY <1>2 DEF Doubles
<1>4. Doubles(ds) \in Seq(Int) /\ Len(Doubles(ds)) = 8 * Len(ds)
  BY <1>1, <1>3
<1> QED
  BY <1>1, <1>4 DEF Doubles

LEMMA DoubleBytes ==
  ASSUME NEW d \in Int
  PROVE  Double(d) \in Seq(Int) /\ Len(Double(d)) = 8 /\ \A k \in 1 .. 8 : Double(d)[k] = d
<1>1. Double(d) \in [1 .. 8 -> Int]
  BY DEF Double
<1> QED
  BY <1>1 DEF Double

LEMMA CStringBytes ==
  ASSUME NEW s \in {Null} \cup Seq(Int)
  PROVE  CString(s) \in Seq(Int) /\ Len(CString(s)) \in Nat /\ Len(CString(s)) >= 1
<1>1. <<0>> \in Seq(Int) /\ Len(<<0>>) = 1 /\ <<>> \in Seq(Int)
  OBVIOUS
<1> DEFINE t == IF s = Null THEN <<>> ELSE s
<1>2. t \in Seq(Int)
  BY <1>1
<1>3. CString(s) = t \o <<0>>
  BY DEF CString
<1> HIDE DEF t
<1> QED
  BY <1>1, <1>2, <1>3, CatBytes

(* AlignUp and RefAlign agree on the alignments that occur. *)
LEMMA RefAlignBytes ==
  ASSUME NEW s \in Seq(Int), NEW a \in {4, 8}
  PROVE  /\ RefAlign(s, a) \in Seq(Int) /\ Len(s) \in Nat
         /\ Len(RefAlign(s, a)) \in Nat
         /\ Len(s) <= Len(RefAlign(s, a)) /\ Len(RefAlign(s, a)) < Len(s) + a
         /\ Len(RefAlign(s, a)) % a = 0
         /\ AlignUp(4 + Len(s), a) = 4 + Len(RefAlign(s, a))
         /\ \A k \in 1 .. Len(s) : RefAlign(s, a)[k] = s[k]
         /\ \A k \in 1 .. Len(RefAlign(s, a)) : k > Len(s) => RefAlign(s, a)[k] = 0
<1> DEFINE n == Len(s)
           z == (-n) % a
<1>1. n \in Nat
  BY LenProperties
<1>2. z \in Nat /\ z < a /\ (n + z) % a = 0 /\ AlignUp(4 + n, a) = 4 + n + z
  <2>1. CASE a = 4
    BY <1>1, <2>1 DEF AlignUp, CDR_HEADER_SIZE
  <2>2. CASE a = 8
    BY <1>1, <2>2 DEF AlignUp, CDR_HEADER_SIZE
  <2> QED
    BY <2>1, <2>2
<1>3. RefAlign(s, a) = s \o Zero(z)
  BY DEF RefAlign
<1>4. Zero(z) \in Seq(Int) /\ Len(Zero(z)) = z /\ \A k \in 1 .. z : Zero(z)[k] = 0
  <2> HIDE DEF z
  <2> QED
    BY <1>2, ZeroBytes
<1> HIDE DEF z
<1>5. /\ RefAlign(s, a) \in Seq(Int) /\ Len(RefAlign(s, a)) = n + z
      /\ \A k \in 1 .. Len(s) : RefAlign(s, a)[k] = s[k]
      /\ \A k \in 1 .. z : RefAlign(s, a)[n + k] = 0
  <2> DEFINE b == Zero(z)
  <2>1. b \in Seq(Int) /\ Len(b) = z /\ \A k \in 1 .. z : b[k] = 0
    BY <1>4
  <2>2. RefAlign(s, a) = s \o b
    BY <1>3
  <2> HIDE DEF b
  <2>3. /\ s \o b \in Seq(Int) /\ Len(s \o b) = Len(s) + Len(b)
        /\ \A k \in 1 .. Len(s) : (s \o b)[k] = s[k]
        /\ \A k \in 1 .. Len(b) : (s \o b)[Len(s) + k] = b[k]
    BY <2>1, CatBytes
  <2> QED
    BY <2>1, <2>2, <2>3
<1>6. ASSUME NEW k \in 1 .. Len(RefAlign(s, a)), k > Len(s) PROVE RefAlign(s, a)[k] = 0
  <2>1. k - n \in 1 .. z /\ n + (k - n) = k
    BY <1>1, <1>2, <1>5, <1>6
  <2>2. RefAlign(s, a)[n + (k - n)] = 0
    BY <2>1, <1>5
  <2> QED
    BY <2>1, <2>2
<1> QED
  BY <1>1, <1>2, <1>5, <1>6
-----------------------------------------------------------------------------
(* Memory *)

Buffers == UNION {[D -> Int] : D \in SUBSET Nat}

LEMMA BufferIsFunction ==
  ASSUME NEW b
  PROVE  b \in Buffers <=> DOMAIN b \subseteq Nat /\ b \in [DOMAIN b -> Int]
BY DEF Buffers

(* memcpy() writes its bytes and nothing else. *)
LEMMA CopyIsLocal ==
  ASSUME NEW b \in Buffers, NEW at \in Nat, NEW bytes \in Seq(Int)
  PROVE  /\ memcpy(b, at, bytes) \in Buffers
         /\ DOMAIN memcpy(b, at, bytes) = DOMAIN b \cup (at .. at + Len(bytes) - 1)
         /\ \A k \in 1 .. Len(bytes) : memcpy(b, at, bytes)[at + k - 1] = bytes[k]
         /\ \A a \in DOMAIN b : a < at \/ at + Len(bytes) <= a =>
                                memcpy(b, at, bytes)[a] = b[a]
<1> DEFINE n == Len(bytes)
           D == DOMAIN b \cup (at .. at + n - 1)
           f == [a \in D |-> IF a - at + 1 \in 1 .. n THEN bytes[a - at + 1] ELSE b[a]]
<1>1. n \in Nat /\ DOMAIN bytes = 1 .. n /\ \A k \in 1 .. n : bytes[k] \in Int
  BY LenProperties, ElementOfSeq
<1>2. DOMAIN b \subseteq Nat /\ b \in [DOMAIN b -> Int]
  BY BufferIsFunction
<1>3. {at + k - 1 : k \in 1 .. n} = at .. at + n - 1
  <2>1. ASSUME NEW a \in at .. at + n - 1 PROVE a \in {at + k - 1 : k \in 1 .. n}
    <3>1. a - at + 1 \in 1 .. n /\ at + (a - at + 1) - 1 = a
      BY <1>1
    <3> QED
      BY <3>1
  <2>2. ASSUME NEW k \in 1 .. n PROVE at + k - 1 \in at .. at + n - 1
    BY <1>1
  <2> QED
    BY <2>1, <2>2
<1>4. memcpy(b, at, bytes) = f
  BY <1>1, <1>3 DEF memcpy
<1>5. \A a \in D : a \in Nat /\ f[a] \in Int
  BY <1>1, <1>2
<1>6. DOMAIN f = D
  OBVIOUS
<1>7. f \in Buffers
  <2>1. D \in SUBSET Nat
    BY <1>5
  <2>2. f \in [D -> Int]
    BY <1>5
  <2> HIDE DEF f, D
  <2> QED
    BY <2>1, <2>2 DEF Buffers
<1>8. ASSUME NEW k \in 1 .. n PROVE f[at + k - 1] = bytes[k]
  <2>1. at + k - 1 \in D /\ (at + k - 1) - at + 1 = k
    BY <1>1
  <2> QED
    BY <2>1
<1>9. ASSUME NEW a \in DOMAIN b, a < at \/ at + n <= a PROVE f[a] = b[a]
  <2>1. a \in D /\ a - at + 1 \notin 1 .. n
    BY <1>1, <1>2, <1>9
  <2> QED
    BY <2>1
<1> HIDE DEF f
<1> QED
  BY <1>4, <1>6, <1>7, <1>8, <1>9

-----------------------------------------------------------------------------
(* Template and reference.  H is the set of addresses that the template    *)
(* leaves open, s the CDR up to the cursor without its four header bytes.  *)

Templates == [cells : Buffers, cursor : Nat]

Image(t, s, H) ==
  /\ t \in Templates /\ s \in Seq(Int) /\ t.cursor >= 4 + Len(s)
  /\ \A a \in DOMAIN t.cells : a < SlotSize \/ a < t.cursor
  /\ \A a \in Nat : a < SlotSize \/ a < 4 => a \in DOMAIN t.cells
  /\ t.cells[0] = 0 /\ t.cells[1] = 1 /\ t.cells[2] = 0 /\ t.cells[3] = 0
  /\ \A a \in DOMAIN t.cells \ H :
       a >= 4 => t.cells[a] = IF a < 4 + Len(s) THEN s[a - 3] ELSE 0
  /\ \A a \in H : a \in Nat /\ a < t.cursor /\ (a \in DOMAIN t.cells => t.cells[a] = 0)

Exact(t, s, H) == Image(t, s, H) /\ t.cursor = 4 + Len(s)

LEMMA PutType ==
  ASSUME NEW t \in Templates, NEW b \in Seq(Int)
  PROVE  /\ Put(t, b) \in Templates /\ Put(t, b).cursor = t.cursor + Len(b)
         /\ Put(t, b).cells = memcpy(t.cells, t.cursor, b)
         /\ Len(b) \in Nat
<1>1. t.cells \in Buffers /\ t.cursor \in Nat /\ Len(b) \in Nat
  BY LenProperties DEF Templates
<1>2. memcpy(t.cells, t.cursor, b) \in Buffers
  BY <1>1, CopyIsLocal
<1> QED
  BY <1>1, <1>2 DEF Put, Templates

LEMMA AlignType ==
  ASSUME NEW t \in Templates, NEW a \in {4, 8}
  PROVE  /\ Align(t, a) \in Templates /\ Align(t, a).cells = t.cells
         /\ Align(t, a).cursor = AlignUp(t.cursor, a)
         /\ t.cursor >= 4 => Align(t, a).cursor >= t.cursor
<1>1. t.cells \in Buffers /\ t.cursor \in Nat
  BY DEF Templates
<1>2. /\ AlignUp(t.cursor, a) \in Nat
      /\ t.cursor >= 4 => AlignUp(t.cursor, a) >= t.cursor
  <2>1. CASE a = 4
    BY <1>1, <2>1 DEF AlignUp, CDR_HEADER_SIZE
  <2>2. CASE a = 8
    BY <1>1, <2>2 DEF AlignUp, CDR_HEADER_SIZE
  <2> QED
    BY <2>1, <2>2
<1> QED
  BY <1>1, <1>2 DEF Align, Templates

(* A template whose cursor moves on over zeros or open bytes keeps its     *)
(* image.                                                                  *)
LEMMA ImageGrows ==
  ASSUME NEW t, NEW u, NEW s, NEW r, NEW H, NEW G, H \subseteq G,
         Image(t, s, H), u \in Templates, r \in Seq(Int),
         u.cells = t.cells, u.cursor >= t.cursor, u.cursor >= 4 + Len(r),
         Len(r) >= Len(s), \A k \in 1 .. Len(s) : r[k] = s[k],
         \A k \in 1 .. Len(r) : k > Len(s) => r[k] = 0 \/ k + 3 \in G,
         \A a \in G : a \in H \/ (a \in Nat /\ 4 + Len(s) <= a /\ a < u.cursor)
  PROVE  Image(u, r, G)
<1>1. t \in Templates /\ t.cursor \in Nat /\ t.cells \in Buffers /\ u.cursor \in Nat
  BY DEF Image, Templates
<1>2. Len(s) \in Nat /\ Len(r) \in Nat
  BY LenProperties DEF Image
<1>3. DOMAIN t.cells \subseteq Nat
  BY <1>1, BufferIsFunction
<1>4. ASSUME NEW a \in DOMAIN u.cells \ G, a >= 4
      PROVE  u.cells[a] = IF a < 4 + Len(r) THEN r[a - 3] ELSE 0
  <2>1. a \in DOMAIN t.cells \ H /\ a \in Nat
    BY <1>3
  <2>2. t.cells[a] = IF a < 4 + Len(s) THEN s[a - 3] ELSE 0
    BY <1>4, <2>1 DEF Image
  <2>3. CASE a < 4 + Len(s)
    BY <1>2, <1>4, <2>1, <2>2, <2>3
  <2>4. CASE 4 + Len(s) <= a /\ a < 4 + Len(r)
    <3>1. a - 3 \in 1 .. Len(r) /\ a - 3 > Len(s) /\ (a - 3) + 3 = a
      BY <1>2, <1>4, <2>1, <2>4
    <3>2. r[a - 3] = 0
      BY <3>1, <1>4
    <3> QED
      BY <2>2, <2>4, <3>1, <3>2, <1>2
  <2>5. CASE 4 + Len(r) <= a
    BY <1>2, <2>1, <2>2, <2>5
  <2> QED
    BY <1>2, <2>1, <2>3, <2>4, <2>5
<1>5. ASSUME NEW a \in G
      PROVE  a \in Nat /\ a < u.cursor /\ (a \in DOMAIN u.cells => u.cells[a] = 0)
  <2>1. CASE a \in H
    <3>1. a \in Nat /\ a < t.cursor /\ (a \in DOMAIN t.cells => t.cells[a] = 0)
      BY <2>1 DEF Image
    <3> QED
      BY <1>1, <3>1
  <2>2. CASE a \notin H
    <3>1. a \in Nat /\ 4 + Len(s) <= a /\ a < u.cursor
      BY <2>2
    <3>2. a \in DOMAIN t.cells => t.cells[a] = IF a < 4 + Len(s) THEN s[a - 3] ELSE 0
      <4>1. a >= 4
        BY <1>2, <3>1
      <4> QED
        BY <2>2, <4>1 DEF Image
    <3> QED
      BY <1>2, <3>1, <3>2
  <2> QED
    BY <2>1, <2>2
<1> QED
  BY <1>1, <1>2, <1>3, <1>4, <1>5 DEF Image

(* Bytes put into the template are bytes appended to the reference. *)
LEMMA ExactPut ==
  ASSUME NEW t, NEW s, NEW H, Exact(t, s, H), NEW b \in Seq(Int)
  PROVE  Exact(Put(t, b), s \o b, H)
<1> DEFINE c == t.cells
           n == Len(s)
           m == Len(b)
           d == memcpy(c, 4 + n, b)
           r == s \o b
<1>1. /\ t \in Templates /\ c \in Buffers /\ s \in Seq(Int) /\ t.cursor = 4 + n
      /\ n \in Nat /\ m \in Nat
  BY LenProperties DEF Exact, Image, Templates
<1>2. /\ r \in Seq(Int) /\ Len(r) = n + m
      /\ \A k \in 1 .. n : r[k] = s[k]
      /\ \A k \in 1 .. m : r[n + k] = b[k]
  BY <1>1, CatBytes
<1>3. /\ DOMAIN d = DOMAIN c \cup (4 + n .. 4 + n + m - 1)
      /\ \A k \in 1 .. m : d[4 + n + k - 1] = b[k]
      /\ \A a \in DOMAIN c : a < 4 + n \/ 4 + n + m <= a => d[a] = c[a]
  <2> DEFINE at == 4 + n
  <2>1. at \in Nat /\ c \in Buffers
    BY <1>1
  <2> HIDE DEF c, at
  <2>2. /\ DOMAIN memcpy(c, at, b) = DOMAIN c \cup (at .. at + Len(b) - 1)
        /\ \A k \in 1 .. Len(b) : memcpy(c, at, b)[at + k - 1] = b[k]
        /\ \A a \in DOMAIN c : a < at \/ at + Len(b) <= a => memcpy(c, at, b)[a] = c[a]
    BY <2>1, CopyIsLocal
  <2> QED
    BY <2>2 DEF at
<1>4. DOMAIN c \subseteq Nat
  BY <1>1, BufferIsFunction
<1>5. /\ Put(t, b) \in Templates /\ Put(t, b).cells = d /\ Put(t, b).cursor = 4 + n + m
  BY <1>1, PutType
<1>6. /\ \A a \in DOMAIN c : a < SlotSize \/ a < 4 + n
      /\ \A a \in Nat : a < SlotSize \/ a < 4 => a \in DOMAIN c
      /\ c[0] = 0 /\ c[1] = 1 /\ c[2] = 0 /\ c[3] = 0
      /\ \A a \in DOMAIN c \ H : a >= 4 => c[a] = IF a < 4 + n THEN s[a - 3] ELSE 0
      /\ \A a \in H : a \in Nat /\ a < 4 + n /\ (a \in DOMAIN c => c[a] = 0)
  BY <1>1 DEF Exact, Image
<1> HIDE DEF c, n, m, d, r
<1>7. ASSUME NEW a \in DOMAIN d \ H, a >= 4
      PROVE  d[a] = IF a < 4 + (n + m) THEN r[a - 3] ELSE 0
  <2>1. a \in Nat
    BY <1>1, <1>3, <1>4
  <2>2. CASE a < 4 + n
    <3>1. a \in DOMAIN c /\ a - 3 \in 1 .. n
      BY <1>1, <1>3, <1>7, <2>1, <2>2
    <3> QED
      <4>1. d[a] = c[a]
        BY <1>3, <2>2, <3>1
      <4>2. c[a] = s[a - 3]
        BY <1>6, <1>7, <2>2, <3>1
      <4>3. r[a - 3] = s[a - 3]
        BY <1>2, <3>1
      <4>4. a < 4 + (n + m)
        BY <1>1, <2>1, <2>2
      <4> QED
        BY <4>1, <4>2, <4>3, <4>4
  <2>3. CASE 4 + n <= a /\ a < 4 + n + m
    <3> DEFINE k == a - 3 - n
    <3>1. k \in 1 .. m /\ 4 + n + k - 1 = a /\ n + k = a - 3
      BY <1>1, <2>1, <2>3
    <3> HIDE DEF k
    <3>2. d[4 + n + k - 1] = b[k] /\ r[n + k] = b[k]
      BY <1>2, <1>3, <3>1
    <3> QED
      <4>1. d[a] = b[k] /\ r[a - 3] = b[k]
        BY <3>1, <3>2
      <4>2. a < 4 + (n + m)
        BY <1>1, <2>1, <2>3
      <4> QED
        BY <4>1, <4>2
  <2>4. CASE 4 + n + m <= a
    <3>1. a \in DOMAIN c /\ ~(a < 4 + n)
      BY <1>1, <1>3, <2>1, <2>4
    <3>2. d[a] = c[a]
      BY <1>3, <2>4, <3>1
    <3>3. c[a] = 0
      BY <1>6, <1>7, <3>1
    <3>4. ~(a < 4 + (n + m))
      BY <1>1, <2>1, <2>4
    <3> QED
      BY <3>2, <3>3, <3>4
  <2> QED
    BY <1>1, <2>1, <2>2, <2>3, <2>4
<1>8. d[0] = 0 /\ d[1] = 1 /\ d[2] = 0 /\ d[3] = 0
  <2>1. \A a \in 0 .. 3 : a \in DOMAIN c /\ a < 4 + n
    BY <1>1, <1>6
  <2> QED
    BY <1>3, <1>6, <2>1
<1>9. /\ \A a \in DOMAIN d : a < SlotSize \/ a < 4 + n + m
      /\ \A a \in Nat : a < SlotSize \/ a < 4 => a \in DOMAIN d
  BY <1>1, <1>3, <1>4, <1>6
<1>10. \A a \in H : a \in Nat /\ a < 4 + n + m /\ (a \in DOMAIN d => d[a] = 0)
  BY <1>1, <1>3, <1>6
<1>11. 4 + n + m = 4 + (n + m)
  BY <1>1
<1> QED
  <2>1. /\ Put(t, b).cursor = 4 + Len(r)
        /\ \A a \in DOMAIN d \ H : a >= 4 => d[a] = IF a < 4 + Len(r) THEN r[a - 3] ELSE 0
    BY <1>2, <1>5, <1>7, <1>11
  <2>2. Image(Put(t, b), r, H)
    BY <1>1, <1>2, <1>5, <1>8, <1>9, <1>10, <2>1 DEF Image
  <2> QED
    BY <2>1, <2>2 DEF Exact, r

(* The padding of the template is the padding of CDR. *)
LEMMA ExactAlign ==
  ASSUME NEW t, NEW s, NEW H, Exact(t, s, H), NEW a \in {4, 8}
  PROVE  Exact(Align(t, a), RefAlign(s, a), H)
<1>1. t \in Templates /\ s \in Seq(Int) /\ t.cursor = 4 + Len(s) /\ Image(t, s, H)
  BY DEF Exact, Image
<1>2. /\ RefAlign(s, a) \in Seq(Int) /\ Len(s) \in Nat
      /\ Len(RefAlign(s, a)) \in Nat
      /\ Len(s) <= Len(RefAlign(s, a))
      /\ AlignUp(4 + Len(s), a) = 4 + Len(RefAlign(s, a))
      /\ \A k \in 1 .. Len(s) : RefAlign(s, a)[k] = s[k]
      /\ \A k \in 1 .. Len(RefAlign(s, a)) : k > Len(s) => RefAlign(s, a)[k] = 0
  BY <1>1, RefAlignBytes
<1>3. /\ Align(t, a) \in Templates /\ Align(t, a).cells = t.cells
      /\ Align(t, a).cursor = 4 + Len(RefAlign(s, a))
  BY <1>1, <1>2, AlignType
<1>4. Image(Align(t, a), RefAlign(s, a), H)
  <2> DEFINE u == Align(t, a)
             r == RefAlign(s, a)
  <2>1. /\ u \in Templates /\ r \in Seq(Int) /\ u.cells = t.cells /\ u.cursor >= t.cursor
        /\ u.cursor >= 4 + Len(r) /\ Len(r) >= Len(s) /\ \A k \in 1 .. Len(s) : r[k] = s[k]
        /\ \A k \in 1 .. Len(r) : k > Len(s) => r[k] = 0 \/ k + 3 \in H
    BY <1>1, <1>2, <1>3
  <2> HIDE DEF u, r
  <2>2. Image(u, r, H)
    <3>1. H \subseteq H /\ \A x \in H : x \in H
      OBVIOUS
    <3> QED
      BY <1>1, <2>1, <3>1, ImageGrows
  <2> QED
    BY <2>2 DEF u, r
<1> QED
  BY <1>3, <1>4 DEF Exact

(* The elements of an array stay open. *)
LEMMA ExactSkip ==
  ASSUME NEW t, NEW s, NEW H, Exact(t, s, H), NEW ds \in Seq(Int)
  PROVE  Exact(Skip(t, Len(ds)), s \o Doubles(ds),
               H \cup (t.cursor .. t.cursor + 8 * Len(ds) - 1))
<1> DEFINE n == Len(ds)
           m == Len(s)
           r == s \o Doubles(ds)
           G == H \cup (t.cursor .. t.cursor + 8 * n - 1)
           u == Skip(t, n)
<1>1. /\ t \in Templates /\ t.cells \in Buffers /\ s \in Seq(Int) /\ Image(t, s, H)
      /\ t.cursor = 4 + m /\ m \in Nat /\ n \in Nat
  BY LenProperties DEF Exact, Image, Templates
<1>2. /\ r \in Seq(Int) /\ Len(r) = m + 8 * n /\ \A k \in 1 .. m : r[k] = s[k]
  <2> DEFINE b == Doubles(ds)
  <2>1. b \in Seq(Int) /\ Len(b) = 8 * n
    BY DoublesBytes
  <2> HIDE DEF b
  <2>2. /\ s \o b \in Seq(Int) /\ Len(s \o b) = m + Len(b)
        /\ \A k \in 1 .. m : (s \o b)[k] = s[k]
    BY <1>1, <2>1, CatBytes
  <2> QED
    BY <2>1, <2>2 DEF b
<1>3. u \in Templates /\ u.cells = t.cells /\ u.cursor = 4 + m + 8 * n
  BY <1>1 DEF Skip, Templates
<1>4. \A k \in 1 .. Len(r) : k > m => r[k] = 0 \/ k + 3 \in G
  BY <1>1, <1>2
<1>5. H \subseteq G
  OBVIOUS
<1>6. /\ u.cursor = 4 + Len(r) /\ u.cursor >= t.cursor /\ Len(r) >= Len(s)
      /\ \A k \in 1 .. Len(s) : r[k] = s[k]
      /\ \A k \in 1 .. Len(r) : k > Len(s) => r[k] = 0 \/ k + 3 \in G
  BY <1>1, <1>2, <1>3, <1>4
<1>7. \A a \in G : a \in H \/ (a \in Nat /\ 4 + Len(s) <= a /\ a < u.cursor)
  BY <1>1, <1>3
<1> HIDE DEF r, G, u
<1>8. u.cursor >= 4 + Len(r)
  BY <1>1, <1>2, <1>6
<1>9. Image(u, r, G)
  BY <1>1, <1>2, <1>3, <1>5, <1>6, <1>8, <1>7, ImageGrows
<1> QED
  BY <1>6, <1>9 DEF Exact, r, G, u

-----------------------------------------------------------------------------
(* The loops over names and numbers *)

LEMMA PutStringType ==
  ASSUME NEW t \in Templates, NEW s \in {Null} \cup Seq(Int)
  PROVE  PutString(t, s) \in Templates
<1> DEFINE c == CString(s)
<1>1. c \in Seq(Int) /\ Len(c) \in Int
  BY CStringBytes
<1>2. PutString(t, s) = Put(Put(t, U32(Len(c))), c)
  BY DEF PutString
<1> HIDE DEF c
<1>3. U32(Len(c)) \in Seq(Int)
  BY <1>1, U32Bytes
<1>4. Put(t, U32(Len(c))) \in Templates
  BY <1>3, PutType
<1> QED
  BY <1>1, <1>2, <1>4, PutType

(* The loop over joint_names, round by round *)
LEMMA PutStringsLoop ==
  ASSUME NEW t \in Templates, NEW ss \in Seq(Seq(Int))
  PROVE  \E f : /\ f[0] = Put(Align(t, 4), U32(Len(ss)))
                /\ \A i \in 1 .. Len(ss) : f[i] = PutString(Align(f[i - 1], 4), ss[i])
                /\ PutStrings(t, ss) = f[Len(ss)]
<1> DEFINE N == Len(ss)
           first == Put(Align(t, 4), U32(N))
           F(f) == [i \in 0 .. Len(ss) |-> IF i = 0 THEN Put(Align(t, 4), U32(Len(ss)))
                                           ELSE PutString(Align(f[i - 1], 4), ss[i])]
           g == CHOOSE f : f = F(f)
<1>1. N \in Nat /\ \A i \in 1 .. N : ss[i] \in Seq(Int)
  BY LenProperties, ElementOfSeq
<1>2. first \in Templates
  <2>1. U32(N) \in Seq(Int)
    BY <1>1, U32Bytes
  <2>2. Align(t, 4) \in Templates
    BY AlignType
  <2> QED
    BY <2>1, <2>2, PutType
<1>3. \E f : f = F(f)
  <2> DEFINE step == [i \in 1 .. N |-> [u \in Templates |-> PutString(Align(u, 4), ss[i])]]
  <2>1. ASSUME NEW i \in 1 .. N, NEW u \in Templates
        PROVE  PutString(Align(u, 4), ss[i]) \in Templates
    <3>1. Align(u, 4) \in Templates
      BY AlignType
    <3> QED
      BY <1>1, <3>1, PutStringType
  <2>2. step \in [1 .. N -> [Templates -> Templates]]
    BY <2>1
  <2>3. PICK f \in [0 .. N -> Templates] : IsLoop(f, N, first, step)
    <3> HIDE DEF step, N, first
    <3> QED
      BY <1>1, <1>2, <2>2, LoopExists, Zenon
  <2>4. ASSUME NEW i \in 1 .. N PROVE f[i] = PutString(Align(f[i - 1], 4), ss[i])
    <3>1. i - 1 \in 0 .. N
      BY <1>1
    <3>2. f[i - 1] \in Templates
      BY <3>1
    <3>3. step[i][f[i - 1]] = PutString(Align(f[i - 1], 4), ss[i])
      BY <3>2
    <3> HIDE DEF step
    <3> QED
      BY <2>3, <3>3 DEF IsLoop
  <2>5. f[0] = first
    BY <2>3 DEF IsLoop
  <2>6. f = F(f)
    BY <1>1, <2>4, <2>5
  <2> QED
    BY <2>6
<1>4. g = F(g)
  BY <1>3
<1>5. PutStrings(t, ss) = g[Len(ss)]
  BY DEF PutStrings
<1> HIDE DEF g
<1>6. g[0] = Put(Align(t, 4), U32(Len(ss)))
  BY <1>1, <1>4
<1>7. ASSUME NEW i \in 1 .. Len(ss) PROVE g[i] = PutString(Align(g[i - 1], 4), ss[i])
  <2>1. i \in 0 .. Len(ss) /\ i # 0
    BY <1>1
  <2>2. F(g)[i] = PutString(Align(g[i - 1], 4), ss[i])
    BY <2>1
  <2> QED
    BY <1>4, <2>2
<1> QED
  BY <1>5, <1>6, <1>7

LEMMA RefStringBytes ==
  ASSUME NEW s \in Seq(Int), NEW c \in Seq(Int)
  PROVE  /\ RefString(s, c) \in Seq(Int) /\ Len(s) \in Nat
         /\ Len(RefString(s, c)) >= Len(s)
         /\ \A k \in 1 .. Len(s) : RefString(s, c)[k] = s[k]
<1> DEFINE a == RefAlign(s, 4)
           u == U32(Len(c))
<1>1. /\ a \in Seq(Int) /\ Len(s) \in Nat /\ Len(a) \in Nat /\ Len(a) >= Len(s)
      /\ \A k \in 1 .. Len(s) : a[k] = s[k]
  BY RefAlignBytes
<1>2. u \in Seq(Int) /\ Len(u) = 4
  BY LenProperties, U32Bytes
<1>3. RefString(s, c) = (a \o u) \o c
  BY DEF RefString
<1> HIDE DEF a, u
<1>4. /\ a \o u \in Seq(Int) /\ Len(a \o u) = Len(a) + Len(u)
      /\ \A k \in 1 .. Len(a) : (a \o u)[k] = a[k]
  BY <1>1, <1>2, CatBytes
<1> DEFINE v == a \o u
<1>5. v \in Seq(Int) /\ Len(v) = Len(a) + 4 /\ \A k \in 1 .. Len(a) : v[k] = a[k]
  BY <1>2, <1>4
<1>6. RefString(s, c) = v \o c
  BY <1>3
<1> HIDE DEF v
<1>7. v \o c \in Seq(Int) /\ Len(v \o c) >= Len(v) /\ \A k \in 1 .. Len(v) : (v \o c)[k] = v[k]
  BY <1>5, CatBytes
<1>8. /\ v \o c \in Seq(Int) /\ Len(v \o c) >= Len(s)
      /\ \A k \in 1 .. Len(s) : (v \o c)[k] = s[k]
  <2>1. Len(s) \in Nat /\ Len(a) \in Nat /\ Len(a) >= Len(s) /\ Len(v) = Len(a) + 4
    BY <1>1, <1>5
  <2>2. Len(v \o c) \in Nat /\ Len(v \o c) >= Len(v)
    BY <1>7, LenProperties
  <2>3. Len(v \o c) >= Len(s)
    BY <2>1, <2>2
  <2>4. ASSUME NEW k \in 1 .. Len(s) PROVE (v \o c)[k] = s[k]
    <3>1. k \in 1 .. Len(a) /\ k \in 1 .. Len(v)
      BY <2>1
    <3>2. (v \o c)[k] = v[k] /\ v[k] = a[k] /\ a[k] = s[k]
      BY <1>1, <1>5, <1>7, <3>1
    <3> QED
      BY <3>2
  <2> QED
    BY <1>7, <2>3, <2>4
<1> QED
  BY <1>1, <1>6, <1>8

(* The strings of the reference, one by one *)
LEMMA RefStringsLoop ==
  ASSUME NEW s \in Seq(Int), NEW cs \in Seq(Seq(Int))
  PROVE  \E f \in [0 .. Len(cs) -> Seq(Int)] :
           /\ f[0] = RefAlign(s, 4) \o U32(Len(cs))
           /\ \A i \in 1 .. Len(cs) : f[i] = RefString(f[i - 1], cs[i])
           /\ RefStrings(s, cs) = f[Len(cs)]
<1> DEFINE N == Len(cs)
           first == RefAlign(s, 4) \o U32(N)
           F(f) == [i \in 0 .. Len(cs) |-> IF i = 0 THEN RefAlign(s, 4) \o U32(Len(cs))
                                           ELSE RefString(f[i - 1], cs[i])]
           g == CHOOSE f : f = F(f)
<1>1. N \in Nat /\ \A i \in 1 .. N : cs[i] \in Seq(Int)
  BY LenProperties, ElementOfSeq
<1>2. first \in Seq(Int)
  <2>1. U32(N) \in Seq(Int)
    BY <1>1, U32Bytes
  <2>2. RefAlign(s, 4) \in Seq(Int)
    BY RefAlignBytes
  <2> QED
    BY <2>1, <2>2, CatBytes
<1>3. \E f : f = F(f)
  <2> DEFINE step == [i \in 1 .. N |-> [u \in Seq(Int) |-> RefString(u, cs[i])]]
  <2>1. ASSUME NEW i \in 1 .. N, NEW u \in Seq(Int)
        PROVE  RefString(u, cs[i]) \in Seq(Int)
    BY <1>1, RefStringBytes
  <2>2. step \in [1 .. N -> [Seq(Int) -> Seq(Int)]]
    BY <2>1
  <2>3. PICK f \in [0 .. N -> Seq(Int)] : IsLoop(f, N, first, step)
    <3> HIDE DEF step, N, first
    <3> QED
      BY <1>1, <1>2, <2>2, LoopExists, Zenon
  <2>4. ASSUME NEW i \in 1 .. N PROVE f[i] = RefString(f[i - 1], cs[i])
    <3>1. i - 1 \in 0 .. N
      BY <1>1
    <3>2. f[i - 1] \in Seq(Int)
      BY <3>1
    <3>3. step[i][f[i - 1]] = RefString(f[i - 1], cs[i])
      BY <3>2
    <3> HIDE DEF step
    <3> QED
      BY <2>3, <3>3 DEF IsLoop
  <2>5. f[0] = first
    BY <2>3 DEF IsLoop
  <2>6. f = F(f)
    BY <1>1, <2>4, <2>5
  <2> QED
    BY <2>6
<1>4. g = F(g)
  BY <1>3
<1>5. RefStrings(s, cs) = g[Len(cs)]
  BY DEF RefStrings
<1> HIDE DEF g
<1>6. g[0] = RefAlign(s, 4) \o U32(Len(cs))
  BY <1>1, <1>4
<1>7. ASSUME NEW i \in 1 .. Len(cs) PROVE g[i] = RefString(g[i - 1], cs[i])
  <2>1. i \in 0 .. Len(cs) /\ i # 0
    BY <1>1
  <2>2. F(g)[i] = RefString(g[i - 1], cs[i])
    BY <2>1
  <2> QED
    BY <1>4, <2>2
<1> DEFINE T == {i \in 0 .. N : g[i] \in Seq(Int)}
<1>8. T = 0 .. N
  <2>1. 0 \in T /\ T \in SUBSET (0 .. N)
    <3>1. g[0] \in Seq(Int) /\ 0 \in 0 .. N
      BY <1>1, <1>2, <1>6
    <3> QED
      BY <3>1
  <2>2. ASSUME NEW n \in 1 .. N, n - 1 \in T PROVE n \in T
    <3>1. g[n - 1] \in Seq(Int)
      BY <2>2
    <3>2. g[n] \in Seq(Int)
      BY <1>1, <1>7, <3>1, RefStringBytes
    <3> QED
      BY <3>2
  <2> HIDE DEF T
  <2> QED
    BY <1>1, <2>1, <2>2, InductionTo
<1>9. \A i \in 0 .. N : g[i] \in Seq(Int)
  BY <1>8
<1>10. g \in [0 .. Len(cs) -> Seq(Int)]
  BY <1>4, <1>9
<1> QED
  BY <1>5, <1>6, <1>7, <1>10

(* The doubles of the reference, one by one *)
LEMMA RefDoublesLoop ==
  ASSUME NEW s \in Seq(Int), NEW ds \in Seq(Int)
  PROVE  \E f \in [0 .. Len(ds) -> Seq(Int)] :
           /\ f[0] = RefAlign(s, 4) \o U32(Len(ds))
           /\ \A j \in 1 .. Len(ds) : f[j] = RefAlign(f[j - 1], 8) \o Double(ds[j])
           /\ RefDoubles(s, ds) = f[Len(ds)]
<1> DEFINE N == Len(ds)
           first == RefAlign(s, 4) \o U32(N)
           F(f) == [j \in 0 .. Len(ds) |-> IF j = 0 THEN RefAlign(s, 4) \o U32(Len(ds))
                                           ELSE RefAlign(f[j - 1], 8) \o Double(ds[j])]
           g == CHOOSE f : f = F(f)
<1>1. N \in Nat /\ \A j \in 1 .. N : ds[j] \in Int
  BY LenProperties, ElementOfSeq
<1>2. first \in Seq(Int)
  <2>1. U32(N) \in Seq(Int)
    BY <1>1, U32Bytes
  <2>2. RefAlign(s, 4) \in Seq(Int)
    BY RefAlignBytes
  <2> QED
    BY <2>1, <2>2, CatBytes
<1>3. ASSUME NEW j \in 1 .. N, NEW u \in Seq(Int)
      PROVE  RefAlign(u, 8) \o Double(ds[j]) \in Seq(Int)
  <2>1. RefAlign(u, 8) \in Seq(Int)
    BY RefAlignBytes
  <2>2. Double(ds[j]) \in Seq(Int)
    BY <1>1, DoubleBytes
  <2> QED
    BY <2>1, <2>2, CatBytes
<1>4. \E f : f = F(f)
  <2> DEFINE step == [j \in 1 .. N |-> [u \in Seq(Int) |-> RefAlign(u, 8) \o Double(ds[j])]]
  <2>1. step \in [1 .. N -> [Seq(Int) -> Seq(Int)]]
    BY <1>3
  <2>2. PICK f \in [0 .. N -> Seq(Int)] : IsLoop(f, N, first, step)
    <3> HIDE DEF step, N, first
    <3> QED
      BY <1>1, <1>2, <2>1, LoopExists, Zenon
  <2>3. ASSUME NEW j \in 1 .. N PROVE f[j] = RefAlign(f[j - 1], 8) \o Double(ds[j])
    <3>1. j - 1 \in 0 .. N
      BY <1>1
    <3>2. f[j - 1] \in Seq(Int)
      BY <3>1
    <3>3. step[j][f[j - 1]] = RefAlign(f[j - 1], 8) \o Double(ds[j])
      BY <3>2
    <3> HIDE DEF step
    <3> QED
      BY <2>2, <3>3 DEF IsLoop
  <2>4. f[0] = first
    BY <2>2 DEF IsLoop
  <2>5. f = F(f)
    <3>1. ASSUME NEW j \in 0 .. N PROVE f[j] = F(f)[j]
      <4>1. CASE j = 0
        BY <2>4, <4>1
      <4>2. CASE j \in 1 .. N
        BY <1>1, <2>3, <4>2
      <4>3. j = 0 \/ j \in 1 .. N
        BY <1>1
      <4> QED
        BY <4>1, <4>2, <4>3
    <3> HIDE DEF first
    <3> QED
      BY <3>1
  <2> QED
    BY <2>5
<1>5. g = F(g)
  BY <1>4
<1>6. RefDoubles(s, ds) = g[Len(ds)]
  BY DEF RefDoubles
<1> HIDE DEF g
<1>7. g[0] = RefAlign(s, 4) \o U32(Len(ds))
  BY <1>1, <1>5
<1>8. ASSUME NEW j \in 1 .. Len(ds) PROVE g[j] = RefAlign(g[j - 1], 8) \o Double(ds[j])
  <2>1. j \in 0 .. Len(ds) /\ j # 0
    BY <1>1
  <2>2. F(g)[j] = RefAlign(g[j - 1], 8) \o Double(ds[j])
    BY <2>1
  <2> QED
    BY <1>5, <2>2
<1> DEFINE T == {j \in 0 .. N : g[j] \in Seq(Int)}
<1>9. T = 0 .. N
  <2>1. 0 \in T /\ T \in SUBSET (0 .. N)
    <3>1. g[0] \in Seq(Int) /\ 0 \in 0 .. N
      BY <1>1, <1>2, <1>7
    <3> QED
      BY <3>1
  <2>2. ASSUME NEW n \in 1 .. N, n - 1 \in T PROVE n \in T
    <3>1. g[n - 1] \in Seq(Int)
      BY <2>2
    <3>2. g[n] \in Seq(Int)
      BY <1>3, <1>8, <3>1
    <3> QED
      BY <3>2
  <2> HIDE DEF T
  <2> QED
    BY <1>1, <2>1, <2>2, InductionTo
<1>10. \A j \in 0 .. N : g[j] \in Seq(Int)
  BY <1>9
<1>11. g \in [0 .. Len(ds) -> Seq(Int)]
  BY <1>5, <1>10
<1> QED
  BY <1>6, <1>7, <1>8, <1>11

(* What is aligned needs no padding. *)
LEMMA AlignedStays ==
  ASSUME NEW s \in Seq(Int), Len(s) % 8 = 0
  PROVE  RefAlign(s, 8) = s
<1>1. /\ RefAlign(s, 8) \in Seq(Int) /\ Len(s) \in Nat /\ Len(RefAlign(s, 8)) \in Nat
      /\ Len(s) <= Len(RefAlign(s, 8)) /\ Len(RefAlign(s, 8)) < Len(s) + 8
      /\ Len(RefAlign(s, 8)) % 8 = 0
      /\ \A k \in 1 .. Len(s) : RefAlign(s, 8)[k] = s[k]
  BY RefAlignBytes
<1>2. \A p, q \in Nat : p % 8 = 0 /\ q % 8 = 0 /\ p <= q /\ q < p + 8 => q = p
  OBVIOUS
<1>3. Len(RefAlign(s, 8)) = Len(s)
  BY <1>1, <1>2
<1> QED
  BY <1>1, <1>3, SeqEqual

(* The first j of the numbers as bytes *)
DoublesTo(ds, j) == [k \in 1 .. 8 * j |-> ds[(k - 1) \div 8 + 1]]

LEMMA DoublesToBytes ==
  ASSUME NEW ds \in Seq(Int), NEW j \in 0 .. Len(ds)
  PROVE  DoublesTo(ds, j) \in Seq(Int) /\ Len(DoublesTo(ds, j)) = 8 * j
<1>1. Len(ds) \in Nat /\ 8 * j \in Nat
  BY LenProperties
<1>2. ASSUME NEW k \in 1 .. 8 * j PROVE ds[(k - 1) \div 8 + 1] \in Int
  <2>1. (k - 1) \div 8 + 1 \in 1 .. Len(ds)
    BY <1>1
  <2> QED
    BY <2>1, ElementOfSeq
<1>3. DoublesTo(ds, j) \in [1 .. 8 * j -> Int]
  BY <1>2 DEF DoublesTo
<1> QED
  BY <1>1, <1>3

LEMMA DoublesToNext ==
  ASSUME NEW ds \in Seq(Int), NEW j \in 1 .. Len(ds)
  PROVE  DoublesTo(ds, j - 1) \o Double(ds[j]) = DoublesTo(ds, j)
<1> DEFINE a == DoublesTo(ds, j - 1)
           b == Double(ds[j])
           c == DoublesTo(ds, j)
<1>1. Len(ds) \in Nat /\ j - 1 \in 0 .. Len(ds) /\ j \in 0 .. Len(ds) /\ ds[j] \in Int
  BY LenProperties, ElementOfSeq
<1>2. /\ a \in Seq(Int) /\ Len(a) = 8 * (j - 1) /\ c \in Seq(Int) /\ Len(c) = 8 * j
  BY <1>1, DoublesToBytes
<1>3. b \in Seq(Int) /\ Len(b) = 8 /\ \A k \in 1 .. 8 : b[k] = ds[j]
  BY <1>1, DoubleBytes
<1>4. /\ \A k \in 1 .. 8 * (j - 1) : a[k] = ds[(k - 1) \div 8 + 1]
      /\ \A k \in 1 .. 8 * j : c[k] = ds[(k - 1) \div 8 + 1]
  BY DEF DoublesTo
<1> HIDE DEF a, b, c
<1>5. /\ a \o b \in Seq(Int) /\ Len(a \o b) = Len(a) + Len(b)
      /\ \A k \in 1 .. Len(a) : (a \o b)[k] = a[k]
      /\ \A k \in 1 .. Len(b) : (a \o b)[Len(a) + k] = b[k]
  BY <1>2, <1>3, CatBytes
<1>6. Len(a \o b) = Len(c)
  BY <1>1, <1>2, <1>3, <1>5
<1>7. ASSUME NEW k \in 1 .. Len(c) PROVE (a \o b)[k] = c[k]
  <2>1. k \in 1 .. 8 * j /\ k \in Int /\ c[k] = ds[(k - 1) \div 8 + 1]
    <3>1. Len(c) = 8 * j /\ k \in 1 .. 8 * j
      BY <1>2
    <3>2. c[k] = ds[(k - 1) \div 8 + 1]
      BY <1>4, <3>1
    <3> QED
      BY <3>1, <3>2
  <2>2. CASE k <= 8 * (j - 1)
    <3>1. k \in 1 .. Len(a) /\ k \in 1 .. 8 * (j - 1)
      BY <1>1, <1>2, <2>1, <2>2
    <3> QED
      BY <1>4, <1>5, <2>1, <3>1
  <2>3. CASE k > 8 * (j - 1)
    <3> DEFINE i == k - 8 * (j - 1)
    <3>1. i \in 1 .. 8 /\ 8 * (j - 1) + i = k /\ (k - 1) \div 8 + 1 = j
      BY <1>1, <2>1, <2>3
    <3> HIDE DEF i
    <3>2. (a \o b)[Len(a) + i] = b[i] /\ b[i] = ds[j]
      BY <1>3, <1>5, <3>1
    <3> QED
      BY <1>2, <2>1, <3>1, <3>2
  <2>4. k <= 8 * (j - 1) \/ k > 8 * (j - 1)
    BY <1>1
  <2> QED
    BY <2>2, <2>3, <2>4
<1>8. a \o b = c
  BY <1>2, <1>5, <1>6, <1>7, SeqEqual
<1> QED
  BY <1>8 DEF a, b, c

(* The reference aligns before every element; after the first there is     *)
(* nothing left to align.                                                  *)
LEMMA RefDoublesAlignOnce ==
  ASSUME NEW s \in Seq(Int), NEW ds \in Seq(Int), Len(ds) >= 1
  PROVE  RefDoubles(s, ds) = RefAlign(RefAlign(s, 4) \o U32(Len(ds)), 8) \o Doubles(ds)
<1> DEFINE N == Len(ds)
           B == RefAlign(RefAlign(s, 4) \o U32(N), 8)
           E(j) == B \o DoublesTo(ds, j)
<1>1. N \in Nat /\ N >= 1 /\ \A j \in 1 .. N : ds[j] \in Int
  BY LenProperties, ElementOfSeq
<1>2. PICK f \in [0 .. N -> Seq(Int)] :
        /\ f[0] = RefAlign(s, 4) \o U32(N)
        /\ \A j \in 1 .. N : f[j] = RefAlign(f[j - 1], 8) \o Double(ds[j])
        /\ RefDoubles(s, ds) = f[N]
  BY RefDoublesLoop
<1>3. B = RefAlign(f[0], 8) /\ f[0] \in Seq(Int)
  <2>1. 0 \in 0 .. N
    BY <1>1
  <2>2. f[0] \in Seq(Int)
    BY <2>1
  <2>3. B = RefAlign(f[0], 8)
    BY <1>2
  <2> QED
    BY <2>2, <2>3
<1>4. B \in Seq(Int) /\ Len(B) \in Nat /\ Len(B) % 8 = 0
  <2> HIDE DEF B
  <2> QED
    BY <1>3, RefAlignBytes
<1> HIDE DEF B
<1>5. ASSUME NEW j \in 0 .. N PROVE E(j) \in Seq(Int) /\ Len(E(j)) % 8 = 0
  <2> DEFINE d == DoublesTo(ds, j)
  <2>1. d \in Seq(Int) /\ Len(d) = 8 * j
    BY DoublesToBytes
  <2>2. E(j) = B \o d
    OBVIOUS
  <2> HIDE DEF d, E
  <2>3. B \o d \in Seq(Int) /\ Len(B \o d) = Len(B) + Len(d)
    BY <1>4, <2>1, CatBytes
  <2> QED
    BY <1>1, <1>4, <2>1, <2>2, <2>3
<1>6. ASSUME NEW j \in 1 .. N PROVE E(j - 1) \o Double(ds[j]) = E(j)
  <2>1. DoublesTo(ds, j - 1) \in Seq(Int)
    <3>1. j - 1 \in 0 .. Len(ds)
      BY <1>1
    <3> QED
      BY <3>1, DoublesToBytes
  <2>2. Double(ds[j]) \in Seq(Int)
    BY <1>1, DoubleBytes
  <2>3. DoublesTo(ds, j - 1) \o Double(ds[j]) = DoublesTo(ds, j)
    BY DoublesToNext
  <2>4. (B \o DoublesTo(ds, j - 1)) \o Double(ds[j])
          = B \o (DoublesTo(ds, j - 1) \o Double(ds[j]))
    <3> DEFINE d == DoublesTo(ds, j - 1)
               e == Double(ds[j])
    <3>1. B \in Seq(Int) /\ d \in Seq(Int) /\ e \in Seq(Int)
      BY <1>4, <2>1, <2>2
    <3> HIDE DEF d, e
    <3>2. (B \o d) \o e = B \o (d \o e)
      BY <3>1, CatAssociative, ZenonT(30)
    <3> QED
      BY <3>2 DEF d, e
  <2> QED
    BY <2>3, <2>4
<1>7. E(0) = B
  <2>1. DoublesTo(ds, 0) = <<>>
    BY DEF DoublesTo
  <2> QED
    BY <1>4, <2>1, ConcatEmptySeq
<1> HIDE DEF E
<1> DEFINE T == {j \in 0 .. N : RefAlign(f[j], 8) = E(j)}
<1>8. T = 0 .. N
  <2>1. 0 \in T /\ T \in SUBSET (0 .. N)
    BY <1>1, <1>3, <1>7
  <2>2. ASSUME NEW j \in 1 .. N, j - 1 \in T PROVE j \in T
    <3>1. f[j] = E(j)
      BY <1>2, <1>6, <2>2
    <3>2. j \in 0 .. N
      BY <1>1
    <3>3. RefAlign(E(j), 8) = E(j)
      BY <1>5, <3>2, AlignedStays
    <3> QED
      BY <3>1, <3>2, <3>3
  <2> HIDE DEF T
  <2> QED
    BY <1>1, <2>1, <2>2, InductionTo
<1>9. f[N] = E(N)
  <2>1. N - 1 \in 0 .. N /\ N \in 1 .. N
    BY <1>1
  <2>2. RefAlign(f[N - 1], 8) = E(N - 1)
    BY <1>8, <2>1
  <2> QED
    BY <1>2, <1>6, <2>1, <2>2
<1>10. DoublesTo(ds, N) = Doubles(ds)
  BY DEF DoublesTo, Doubles
<1> QED
  BY <1>2, <1>9, <1>10 DEF E, B

(* An empty sequence is its count alone. *)
LEMMA RefDoublesOfNone ==
  ASSUME NEW s \in Seq(Int), NEW ds \in Seq(Int), Len(ds) = 0
  PROVE  RefDoubles(s, ds) = RefAlign(s, 4) \o U32(0)
<1>1. PICK f \in [0 .. Len(ds) -> Seq(Int)] :
        f[0] = RefAlign(s, 4) \o U32(Len(ds)) /\ RefDoubles(s, ds) = f[Len(ds)]
  BY RefDoublesLoop
<1>2. f[0] = RefAlign(s, 4) \o U32(Len(ds)) /\ RefDoubles(s, ds) = f[Len(ds)]
  BY <1>1
<1> QED
  BY ONLY Len(ds) = 0, <1>2, Zenon

-----------------------------------------------------------------------------
(* Template and reference grow together. *)

Continues(r, s) == r \in Seq(Int) /\ Len(r) >= Len(s) /\ \A k \in 1 .. Len(s) : r[k] = s[k]

LEMMA ContinuesOn ==
  ASSUME NEW s \in Seq(Int), NEW r, NEW q, Continues(r, s), Continues(q, r)
  PROVE  Continues(q, s)
<1>1. Len(s) \in Nat /\ Len(r) \in Nat /\ Len(q) \in Nat
  BY LenProperties DEF Continues
<1>2. \A k \in 1 .. Len(s) : k \in 1 .. Len(r)
  BY <1>1 DEF Continues
<1> QED
  BY <1>1, <1>2 DEF Continues

LEMMA CatContinues ==
  ASSUME NEW s \in Seq(Int), NEW b \in Seq(Int)
  PROVE  Continues(s \o b, s)
BY CatBytes DEF Continues

LEMMA AlignContinues ==
  ASSUME NEW s \in Seq(Int), NEW a \in {4, 8}
  PROVE  Continues(RefAlign(s, a), s)
BY RefAlignBytes DEF Continues

LEMMA StringContinues ==
  ASSUME NEW s \in Seq(Int), NEW c \in Seq(Int)
  PROVE  Continues(RefString(s, c), s)
BY RefStringBytes DEF Continues

(* A string of the template is a string of CDR, for a null pointer too. *)
LEMMA ExactString ==
  ASSUME NEW t, NEW s, NEW H, Exact(t, s, H), NEW x \in {Null} \cup Seq(Int)
  PROVE  Exact(PutString(Align(t, 4), x), RefString(s, CString(x)), H)
<1> DEFINE c == CString(x)
           u == U32(Len(c))
           t1 == Align(t, 4)
           s1 == RefAlign(s, 4)
<1>1. c \in Seq(Int) /\ Len(c) \in Int
  BY CStringBytes
<1>2. u \in Seq(Int)
  BY <1>1, U32Bytes
<1>3. PutString(t1, x) = Put(Put(t1, u), c)
  BY DEF PutString
<1>4. RefString(s, c) = (s1 \o u) \o c
  BY DEF RefString
<1>5. Exact(t1, s1, H)
  BY ExactAlign
<1> HIDE DEF c, u, t1, s1
<1>6. Exact(Put(t1, u), s1 \o u, H)
  BY <1>2, <1>5, ExactPut
<1>7. Exact(Put(Put(t1, u), c), (s1 \o u) \o c, H)
  BY <1>1, <1>6, ExactPut
<1> QED
  BY <1>3, <1>4, <1>7 DEF c, t1

(* So are the names of the joints. *)
LEMMA ExactStrings ==
  ASSUME NEW t, NEW s, NEW H, Exact(t, s, H), NEW ss \in Seq(Seq(Int))
  PROVE  LET cs == [i \in DOMAIN ss |-> CString(ss[i])]
         IN  /\ Exact(PutStrings(t, ss), RefStrings(s, cs), H)
             /\ Continues(RefStrings(s, cs), s)
<1> DEFINE N == Len(ss)
           cs == [i \in DOMAIN ss |-> CString(ss[i])]
<1>1. N \in Nat /\ DOMAIN ss = 1 .. N /\ \A i \in 1 .. N : ss[i] \in {Null} \cup Seq(Int)
  BY LenProperties, ElementOfSeq
<1>2. \A i \in 1 .. N : CString(ss[i]) \in Seq(Int)
  BY <1>1, CStringBytes
<1>3. cs \in [1 .. N -> Seq(Int)]
  BY <1>1, <1>2
<1>4. cs \in Seq(Seq(Int)) /\ Len(cs) = N /\ \A i \in 1 .. N : cs[i] = CString(ss[i])
  <2>1. \A i \in 1 .. N : cs[i] = CString(ss[i])
    BY <1>1
  <2> HIDE DEF cs
  <2> QED
    BY <1>1, <1>3, <2>1, FunctionIsSeq
<1> HIDE DEF cs
<1>5. t \in Templates /\ s \in Seq(Int)
  BY DEF Exact, Image
<1>6. PICK f : /\ f[0] = Put(Align(t, 4), U32(N))
               /\ \A i \in 1 .. N : f[i] = PutString(Align(f[i - 1], 4), ss[i])
               /\ PutStrings(t, ss) = f[N]
  BY <1>5, PutStringsLoop
<1>7. PICK g \in [0 .. N -> Seq(Int)] :
        /\ g[0] = RefAlign(s, 4) \o U32(N)
        /\ \A i \in 1 .. N : g[i] = RefString(g[i - 1], cs[i])
        /\ RefStrings(s, cs) = g[N]
  <2>1. PICK g \in [0 .. Len(cs) -> Seq(Int)] :
          /\ g[0] = RefAlign(s, 4) \o U32(Len(cs))
          /\ \A i \in 1 .. Len(cs) : g[i] = RefString(g[i - 1], cs[i])
          /\ RefStrings(s, cs) = g[Len(cs)]
    BY <1>4, <1>5, RefStringsLoop, Zenon
  <2> HIDE DEF N
  <2>2. g \in [0 .. N -> Seq(Int)]
    BY <1>4
  <2> QED
    BY <1>4, <2>1, <2>2
<1>8. Exact(f[0], g[0], H) /\ Continues(g[0], s)
  <2>1. Exact(Align(t, 4), RefAlign(s, 4), H) /\ Continues(RefAlign(s, 4), s)
    BY <1>5, ExactAlign, AlignContinues
  <2>2. U32(N) \in Seq(Int) /\ RefAlign(s, 4) \in Seq(Int)
    BY <1>1, <1>5, U32Bytes, RefAlignBytes
  <2>3. Exact(f[0], g[0], H)
    BY <1>6, <1>7, <2>1, <2>2, ExactPut
  <2>4. Continues(g[0], RefAlign(s, 4))
    BY <1>7, <2>2, CatContinues
  <2> QED
    BY <1>5, <2>1, <2>3, <2>4, ContinuesOn
<1> DEFINE T == {i \in 0 .. N : Exact(f[i], g[i], H) /\ Continues(g[i], s)}
<1>9. T = 0 .. N
  <2>1. 0 \in T /\ T \in SUBSET (0 .. N)
    BY <1>1, <1>8
  <2>2. ASSUME NEW i \in 1 .. N, i - 1 \in T PROVE i \in T
    <3>1. Exact(f[i - 1], g[i - 1], H) /\ Continues(g[i - 1], s) /\ g[i - 1] \in Seq(Int)
      BY <2>2 DEF Continues
    <3>2. f[i] = PutString(Align(f[i - 1], 4), ss[i]) /\ g[i] = RefString(g[i - 1], CString(ss[i]))
      BY <1>4, <1>6, <1>7
    <3>3. Exact(f[i], g[i], H)
      BY <1>1, <3>1, <3>2, ExactString
    <3>4. Continues(g[i], g[i - 1])
      BY <1>2, <3>1, <3>2, StringContinues
    <3>5. Continues(g[i], s)
      BY <1>5, <3>1, <3>4, ContinuesOn
    <3>6. i \in 0 .. N
      BY <1>1
    <3> QED
      BY <3>3, <3>5, <3>6
  <2> HIDE DEF T
  <2> QED
    BY <1>1, <2>1, <2>2, InductionTo
<1>10. Exact(f[N], g[N], H) /\ Continues(g[N], s)
  <2>1. N \in T
    BY <1>1, <1>9
  <2> QED
    BY <2>1
<1> QED
  BY <1>6, <1>7, <1>10 DEF cs

(* The bytes of the stamp stay open. *)
StampHole == 4 .. 11

(* The header and the open bytes of the stamp *)
LEMMA ExactStart ==
  ASSUME NEW st \in Seq(Int), Len(st) = 8
  PROVE  Exact([cells |-> memcpy(EmptySlot, 0, <<0, 1, 0, 0>>), cursor |-> 12], st, StampHole)
<1> DEFINE h == <<0, 1, 0, 0>>
           d == memcpy(EmptySlot, 0, h)
           t == [cells |-> d, cursor |-> 12]
<1>1. SlotSize \in Nat
  BY CdrAssumption DEF CdrAssumption
<1>2. EmptySlot \in Buffers /\ DOMAIN EmptySlot = 0 .. SlotSize - 1
  <2>1. EmptySlot \in [0 .. SlotSize - 1 -> Int] /\ 0 .. SlotSize - 1 \in SUBSET Nat
    BY <1>1 DEF EmptySlot
  <2> QED
    BY <2>1 DEF Buffers
<1>3. h \in Seq(Int) /\ Len(h) = 4 /\ h[1] = 0 /\ h[2] = 1 /\ h[3] = 0 /\ h[4] = 0
  OBVIOUS
<1> HIDE DEF h
<1>4. /\ d \in Buffers
      /\ DOMAIN d = DOMAIN EmptySlot \cup (0 .. 0 + Len(h) - 1)
      /\ \A k \in 1 .. Len(h) : d[0 + k - 1] = h[k]
      /\ \A a \in DOMAIN EmptySlot : a < 0 \/ 0 + Len(h) <= a => d[a] = EmptySlot[a]
  <2>1. h \in Seq(Int) /\ EmptySlot \in Buffers /\ 0 \in Nat
    BY <1>2, <1>3
  <2> QED
    BY <2>1, CopyIsLocal, Zenon
<1> HIDE DEF d
<1>5. DOMAIN d = (0 .. SlotSize - 1) \cup (0 .. 3)
  BY <1>2, <1>3, <1>4
<1>6. d[0] = 0 /\ d[1] = 1 /\ d[2] = 0 /\ d[3] = 0
  <2>1. d[0 + 1 - 1] = h[1] /\ d[0 + 2 - 1] = h[2] /\ d[0 + 3 - 1] = h[3] /\ d[0 + 4 - 1] = h[4]
    BY <1>3, <1>4
  <2>2. 0 + 1 - 1 = 0 /\ 0 + 2 - 1 = 1 /\ 0 + 3 - 1 = 2 /\ 0 + 4 - 1 = 3
    OBVIOUS
  <2> QED
    BY <1>3, <2>1, <2>2
<1>7. ASSUME NEW a \in DOMAIN d \ StampHole, a >= 4
      PROVE  d[a] = IF a < 4 + Len(st) THEN st[a - 3] ELSE 0
  <2>1. a \in Nat /\ a < SlotSize /\ a >= 12
    BY <1>1, <1>5, <1>7 DEF StampHole
  <2>2. a \in DOMAIN EmptySlot /\ 0 + Len(h) <= a /\ ~(a < 4 + 8)
    BY <1>1, <1>2, <1>3, <2>1
  <2>3. d[a] = 0
    BY <1>4, <2>2 DEF EmptySlot
  <2> QED
    BY <2>2, <2>3
<1>8. t \in Templates /\ t.cells = d /\ t.cursor = 12
  BY <1>4 DEF Templates
<1> HIDE DEF t
<1>9. /\ \A a \in DOMAIN d : a < SlotSize \/ a < 12
      /\ \A a \in Nat : a < SlotSize \/ a < 4 => a \in DOMAIN d
  BY <1>1, <1>5
<1>10. t.cursor = 4 + Len(st) /\ t.cursor >= 4 + Len(st)
  BY <1>8
<1>11. ASSUME NEW a \in StampHole
       PROVE  a \in Nat /\ a < 12 /\ (a \in DOMAIN d => d[a] = 0)
  <2>1. a \in Nat /\ 4 <= a /\ a < 12
    BY DEF StampHole
  <2>2. ASSUME a \in DOMAIN d PROVE d[a] = 0
    <3>1. a \in DOMAIN EmptySlot /\ 0 + Len(h) <= a
      BY <1>1, <1>2, <1>3, <1>5, <2>1, <2>2
    <3> QED
      BY <1>4, <3>1 DEF EmptySlot
  <2> QED
    BY <2>1, <2>2
<1>12. Image(t, st, StampHole)
  BY <1>6, <1>7, <1>8, <1>9, <1>10, <1>11 DEF Image
<1> QED
  BY <1>10, <1>12 DEF Exact, t, d, h

(* The reference up to the names of the joints, as in RefHeader *)
RefNames(st, frame, names) ==
  RefStrings(RefString(st, CString(frame)), [i \in DOMAIN names |-> CString(names[i])])

(* Template and reference agree up to the names of the joints. *)
LEMMA ExactNames ==
  ASSUME NEW p, NEW st \in Seq(Int), Len(st) = 8,
         p.frame \in {Null} \cup Seq(Int), p.names \in Seq(Seq(Int))
  PROVE  /\ Exact(PutNames(EmptySlot, p), RefNames(st, p.frame, p.names), StampHole)
         /\ Continues(RefNames(st, p.frame, p.names), st)
<1> DEFINE t == [cells |-> memcpy(EmptySlot, 0, <<0, 1, 0, 0>>), cursor |-> 12]
           u == PutString(t, p.frame)
           r == RefString(st, CString(p.frame))
<1>1. Exact(t, st, StampHole)
  BY ExactStart
<1>2. PutNames(EmptySlot, p) = PutStrings(u, p.names)
  BY DEF PutNames, CDR_HEADER_SIZE
<1>3. Align(t, 4) = t
  <2>1. AlignUp(12, 4) = 12
    BY DEF AlignUp, CDR_HEADER_SIZE
  <2> QED
    BY <2>1 DEF Align
<1> HIDE DEF t
<1>4. Exact(PutString(Align(t, 4), p.frame), r, StampHole)
  BY <1>1, ExactString
<1>5. Exact(u, r, StampHole)
  BY <1>3, <1>4
<1>6. Continues(r, st)
  BY CStringBytes, StringContinues
<1> HIDE DEF u, r
<1>7. /\ Exact(PutStrings(u, p.names), RefNames(st, p.frame, p.names), StampHole)
      /\ Continues(RefNames(st, p.frame, p.names), r)
  BY <1>5, ExactStrings DEF RefNames, r
<1> QED
  BY <1>2, <1>6, <1>7, ContinuesOn

-----------------------------------------------------------------------------
(* Arrays.  Without elements, the cursor of the code runs ahead of the     *)
(* reference: it is aligned for elements that do not come.                 *)

Joined(t, s, H, n) == Image(t, s, H) /\ (n >= 1 => t.cursor = 4 + Len(s))

(* r has the bytes of ds where they go to address at of the buffer. *)
Carried(r, at, ds) ==
  \A k \in 1 .. 8 * Len(ds) : at - 4 + k <= Len(r) /\ r[at - 4 + k] = Doubles(ds)[k]

LEMMA CarriedOn ==
  ASSUME NEW r \in Seq(Int), NEW q, Continues(q, r), NEW ds \in Seq(Int),
         NEW at \in Nat, at >= 4, Carried(r, at, ds)
  PROVE  Carried(q, at, ds)
<1>1. Len(r) \in Nat /\ Len(q) \in Nat /\ Len(ds) \in Nat
  BY LenProperties DEF Continues
<1>2. ASSUME NEW k \in 1 .. 8 * Len(ds)
      PROVE  at - 4 + k <= Len(q) /\ q[at - 4 + k] = Doubles(ds)[k]
  <2>1. at - 4 + k \in 1 .. Len(r)
    BY <1>1 DEF Carried
  <2>2. q[at - 4 + k] = r[at - 4 + k] /\ Len(q) >= Len(r)
    BY <2>1 DEF Continues
  <2>3. r[at - 4 + k] = Doubles(ds)[k]
    BY DEF Carried
  <2> QED
    BY <1>1, <2>1, <2>2, <2>3
<1> QED
  BY <1>2 DEF Carried

(* A count of zero behind the end of the reference changes nothing. *)
LEMMA PutNothing ==
  ASSUME NEW t, NEW s, NEW H, Image(t, s, H)
  PROVE  Image(Put(t, U32(0)), s, H)
<1> DEFINE c == t.cells
           n == Len(s)
           at == t.cursor
           b == U32(0)
           d == memcpy(c, at, b)
<1>1. /\ t \in Templates /\ c \in Buffers /\ s \in Seq(Int) /\ at \in Nat /\ at >= 4 + n
      /\ n \in Nat
  BY LenProperties DEF Image, Templates
<1>2. b \in Seq(Int) /\ Len(b) = 4 /\ \A k \in 1 .. 4 : b[k] = 0
  <2>1. /\ U32(0) \in Seq(Int) /\ Len(U32(0)) = 4 /\ U32(0)[1] = 0
        /\ \A k \in 2 .. 4 : U32(0)[k] = 0
    BY U32Bytes
  <2> QED
    BY <2>1
<1> HIDE DEF b
<1>3. /\ DOMAIN d = DOMAIN c \cup (at .. at + Len(b) - 1)
      /\ \A k \in 1 .. Len(b) : d[at + k - 1] = b[k]
      /\ \A a \in DOMAIN c : a < at \/ at + Len(b) <= a => d[a] = c[a]
  <2>1. c \in Buffers /\ at \in Nat /\ b \in Seq(Int)
    BY <1>1, <1>2
  <2> HIDE DEF c, at
  <2> QED
    BY <2>1, CopyIsLocal
<1>4. DOMAIN c \subseteq Nat
  BY <1>1, BufferIsFunction
<1>5. /\ Put(t, b) \in Templates /\ Put(t, b).cells = d /\ Put(t, b).cursor = at + 4
  BY <1>1, <1>2, PutType
<1>6. /\ \A a \in DOMAIN c : a < SlotSize \/ a < at
      /\ \A a \in Nat : a < SlotSize \/ a < 4 => a \in DOMAIN c
      /\ c[0] = 0 /\ c[1] = 1 /\ c[2] = 0 /\ c[3] = 0
      /\ \A a \in DOMAIN c \ H : a >= 4 => c[a] = IF a < 4 + n THEN s[a - 3] ELSE 0
      /\ \A a \in H : a \in Nat /\ a < at /\ (a \in DOMAIN c => c[a] = 0)
  BY DEF Image
<1> HIDE DEF c, n, at, d
<1>7. ASSUME NEW a \in DOMAIN d \ H, a >= 4
      PROVE  d[a] = IF a < 4 + n THEN s[a - 3] ELSE 0
  <2>1. a \in Nat
    BY <1>1, <1>2, <1>3, <1>4
  <2>2. CASE a < at \/ at + 4 <= a
    <3>1. a \in DOMAIN c
      BY <1>1, <1>2, <1>3, <2>1, <2>2
    <3>2. d[a] = c[a]
      BY <1>2, <1>3, <2>2, <3>1
    <3> QED
      BY <1>6, <1>7, <3>1, <3>2
  <2>3. CASE at <= a /\ a < at + 4
    <3> DEFINE k == a - at + 1
    <3>1. k \in 1 .. 4 /\ at + k - 1 = a /\ ~(a < 4 + n)
      BY <1>1, <2>1, <2>3
    <3> HIDE DEF k
    <3>2. d[at + k - 1] = b[k] /\ b[k] = 0
      BY <1>2, <1>3, <3>1
    <3> QED
      BY <3>1, <3>2
  <2> QED
    BY <1>1, <2>1, <2>2, <2>3
<1>8. d[0] = 0 /\ d[1] = 1 /\ d[2] = 0 /\ d[3] = 0
  <2>1. \A a \in 0 .. 3 : a \in DOMAIN c /\ a < at
    BY <1>1, <1>6
  <2> QED
    BY <1>3, <1>6, <2>1
<1>9. /\ \A a \in DOMAIN d : a < SlotSize \/ a < at + 4
      /\ \A a \in Nat : a < SlotSize \/ a < 4 => a \in DOMAIN d
  BY <1>1, <1>2, <1>3, <1>4, <1>6
<1>10. \A a \in H : a \in Nat /\ a < at + 4 /\ (a \in DOMAIN d => d[a] = 0)
  BY <1>1, <1>2, <1>3, <1>6
<1> DEFINE u == Put(t, b)
<1>11. /\ u \in Templates /\ u.cells = d /\ u.cursor = at + 4 /\ u.cursor >= 4 + n
  BY <1>1, <1>5
<1> HIDE DEF u
<1>12. Image(u, s, H)
  BY <1>1, <1>7, <1>8, <1>9, <1>11, <1>10 DEF Image, n
<1> QED
  BY <1>12 DEF u, b

(* The count of an empty array, and the padding that CDR does not have *)
LEMMA CountOfNone ==
  ASSUME NEW t, NEW s, NEW H, Image(t, s, H), NEW ds \in Seq(Int), Len(ds) = 0
  PROVE  /\ Image(PutCount(t, 0), RefDoubles(s, ds), H)
         /\ Continues(RefDoubles(s, ds), s)
         /\ PutCount(t, 0).cursor >= t.cursor
<1> DEFINE r == RefDoubles(s, ds)
           e == RefAlign(s, 4)
           t1 == Align(t, 4)
           t2 == Put(t1, U32(0))
           t3 == Align(t2, 8)
<1>1. /\ t \in Templates /\ t.cursor \in Nat /\ s \in Seq(Int) /\ Len(s) \in Nat
      /\ t.cursor >= 4 + Len(s)
  BY LenProperties DEF Image, Templates
<1>2. /\ e \in Seq(Int) /\ Len(e) \in Nat /\ Len(s) <= Len(e)
      /\ AlignUp(4 + Len(s), 4) = 4 + Len(e)
      /\ \A k \in 1 .. Len(s) : e[k] = s[k]
      /\ \A k \in 1 .. Len(e) : k > Len(s) => e[k] = 0
  BY <1>1, RefAlignBytes
<1>3. /\ U32(0) \in Seq(Int) /\ Len(U32(0)) = 4 /\ \A k \in 1 .. 4 : U32(0)[k] = 0
  <2>1. /\ U32(0) \in Seq(Int) /\ Len(U32(0)) = 4 /\ U32(0)[1] = 0
        /\ \A k \in 2 .. 4 : U32(0)[k] = 0
    BY U32Bytes
  <2> QED
    BY <2>1
<1>4. r = e \o U32(0)
  BY <1>1, RefDoublesOfNone
<1>5. /\ t1 \in Templates /\ t1.cells = t.cells /\ t1.cursor = AlignUp(t.cursor, 4)
      /\ t1.cursor >= t.cursor
  BY <1>1, AlignType
<1>6. t2 \in Templates /\ t2.cursor = t1.cursor + 4
  <2>1. t1 \in Templates /\ U32(0) \in Seq(Int) /\ Len(U32(0)) = 4
    BY <1>3, <1>5
  <2> HIDE DEF t1
  <2>2. t2 \in Templates /\ t2.cursor = t1.cursor + Len(U32(0))
    BY <2>1, PutType
  <2> QED
    BY <2>1, <2>2
<1>7. /\ t3 \in Templates /\ t3.cells = t2.cells /\ t3.cursor >= t2.cursor
  <2>1. t1.cursor \in Nat /\ t2.cursor >= 4
    BY <1>1, <1>5, <1>6 DEF Templates
  <2> QED
    BY <1>6, <2>1, AlignType
<1>8. t1.cursor \in Nat /\ t2.cursor \in Nat /\ t3.cursor \in Nat
  BY <1>5, <1>6, <1>7 DEF Templates
<1>9. PutCount(t, 0) = t3
  BY DEF PutCount
<1> HIDE DEF r, e, t1, t2, t3
<1>10. t1.cursor >= 4 + Len(e)
  BY <1>1, <1>2, <1>5 DEF AlignUp, CDR_HEADER_SIZE
<1>11. Image(t1, s, H)
  <2>1. t1.cursor >= 4 + Len(s) /\ H \subseteq H /\ \A a \in H : a \in H
    BY <1>1, <1>5, <1>8
  <2>2. \A k \in 1 .. Len(s) : k > Len(s) => s[k] = 0 \/ k + 3 \in H
    BY <1>1
  <2> QED
    BY <1>1, <1>5, <1>8, <2>1, <2>2, ImageGrows
<1>12. Image(t2, s, H)
  BY <1>11, PutNothing DEF t2
<1>13. /\ r \in Seq(Int) /\ Len(r) = Len(e) + 4
       /\ \A k \in 1 .. Len(e) : r[k] = e[k]
       /\ \A k \in 1 .. 4 : r[Len(e) + k] = 0
  <2> DEFINE b == U32(0)
  <2>1. b \in Seq(Int) /\ Len(b) = 4 /\ \A k \in 1 .. 4 : b[k] = 0
    BY <1>3
  <2>2. r = e \o b
    BY <1>4
  <2> HIDE DEF b
  <2>3. /\ e \o b \in Seq(Int) /\ Len(e \o b) = Len(e) + Len(b)
        /\ \A k \in 1 .. Len(e) : (e \o b)[k] = e[k]
        /\ \A k \in 1 .. Len(b) : (e \o b)[Len(e) + k] = b[k]
    BY <1>2, <2>1, CatBytes
  <2> QED
    BY <2>1, <2>2, <2>3
<1>14. Len(r) >= Len(s) /\ \A k \in 1 .. Len(s) : r[k] = s[k]
  <2>1. \A k \in 1 .. Len(s) : k \in 1 .. Len(e)
    BY <1>1, <1>2
  <2> QED
    BY <1>1, <1>2, <1>13, <2>1
<1>15. ASSUME NEW k \in 1 .. Len(r), k > Len(s) PROVE r[k] = 0
  <2>1. CASE k <= Len(e)
    <3>1. k \in 1 .. Len(e)
      BY <1>2, <2>1
    <3> QED
      BY <1>2, <1>13, <1>15, <3>1
  <2>2. CASE k > Len(e)
    <3>1. Len(r) = Len(e) + 4 /\ Len(e) \in Nat
      BY <1>2, <1>13
    <3>2. k - Len(e) \in 1 .. 4 /\ Len(e) + (k - Len(e)) = k
      BY <2>2, <3>1
    <3>3. r[Len(e) + (k - Len(e))] = 0
      BY <1>13, <3>2
    <3> QED
      BY <3>2, <3>3
  <2>3. k <= Len(e) \/ k > Len(e)
    BY <1>2
  <2> QED
    BY <2>1, <2>2, <2>3
<1>16. t3.cursor >= 4 + Len(r) /\ t3.cursor >= t.cursor
  <2>1. /\ Len(r) = Len(e) + 4 /\ Len(e) \in Nat /\ t.cursor \in Nat
        /\ t1.cursor >= t.cursor /\ t1.cursor >= 4 + Len(e)
        /\ t2.cursor = t1.cursor + 4 /\ t3.cursor >= t2.cursor
    BY <1>1, <1>2, <1>5, <1>6, <1>7, <1>10, <1>13
  <2> QED
    BY <1>8, <2>1
<1>17. Image(t3, r, H)
  <2>1. H \subseteq H /\ \A a \in H : a \in H
    OBVIOUS
  <2> QED
    BY <1>1, <1>7, <1>12, <1>13, <1>14, <1>15, <1>16, <2>1, ImageGrows
<1>18. Continues(r, s)
  BY <1>13, <1>14 DEF Continues
<1> QED
  BY <1>9, <1>16, <1>17, <1>18 DEF r

(* An array with elements: count, padding and open bytes are those of CDR. *)
LEMMA CountOfSome ==
  ASSUME NEW t, NEW s, NEW H, Exact(t, s, H), NEW ds \in Seq(Int), Len(ds) >= 1
  PROVE  LET n == Len(ds)
             c == PutCount(t, n)
         IN  /\ Exact(Skip(c, n), RefDoubles(s, ds), H \cup (c.cursor .. c.cursor + 8 * n - 1))
             /\ Continues(RefDoubles(s, ds), s)
             /\ Carried(RefDoubles(s, ds), c.cursor, ds)
             /\ c.cursor >= t.cursor /\ c.cursor \in Nat /\ c \in Templates
<1> DEFINE n == Len(ds)
           c == PutCount(t, n)
           s1 == RefAlign(s, 4)
           s2 == s1 \o U32(n)
           s3 == RefAlign(s2, 8)
           r == RefDoubles(s, ds)
<1>1. /\ t \in Templates /\ t.cursor \in Nat /\ s \in Seq(Int) /\ Len(s) \in Nat /\ n \in Nat
      /\ t.cursor = 4 + Len(s)
  BY LenProperties DEF Exact, Image, Templates
<1>2. s1 \in Seq(Int) /\ Continues(s1, s) /\ Exact(Align(t, 4), s1, H)
  BY <1>1, ExactAlign, RefAlignBytes, AlignContinues
<1>3. U32(n) \in Seq(Int)
  BY <1>1, U32Bytes
<1> HIDE DEF s1
<1>4. s2 \in Seq(Int) /\ Continues(s2, s1) /\ Exact(Put(Align(t, 4), U32(n)), s2, H)
  BY <1>2, <1>3, ExactPut, CatBytes, CatContinues
<1> HIDE DEF s2
<1>5. s3 \in Seq(Int) /\ Continues(s3, s2) /\ Exact(c, s3, H)
  BY <1>4, ExactAlign, RefAlignBytes, AlignContinues DEF PutCount
<1>6. r = s3 \o Doubles(ds)
  BY <1>1, RefDoublesAlignOnce DEF s1, s2
<1> HIDE DEF s3, c, r
<1>7. Doubles(ds) \in Seq(Int) /\ Len(Doubles(ds)) = 8 * n
  BY DoublesBytes
<1>8. Exact(Skip(c, n), r, H \cup (c.cursor .. c.cursor + 8 * n - 1))
  BY <1>5, <1>6, ExactSkip
<1>9. Continues(r, s3)
  BY <1>5, <1>6, <1>7, CatContinues
<1>10. Continues(s3, s)
  <2>1. Continues(s2, s)
    BY <1>1, <1>2, <1>4, ContinuesOn
  <2> QED
    BY <1>1, <1>5, <2>1, ContinuesOn
<1>11. Continues(r, s)
  BY <1>1, <1>9, <1>10, ContinuesOn
<1>12. c.cursor = 4 + Len(s3) /\ c \in Templates /\ c.cursor \in Nat /\ Len(s3) \in Nat
  BY <1>5, LenProperties DEF Exact, Image, Templates
<1>13. c.cursor >= t.cursor
  BY <1>1, <1>10, <1>12 DEF Continues
<1>14. Carried(r, c.cursor, ds)
  <2> DEFINE b == Doubles(ds)
  <2>1. b \in Seq(Int) /\ Len(b) = 8 * n /\ r = s3 \o b
    BY <1>6, <1>7
  <2> HIDE DEF b, n
  <2>2. Len(s3 \o b) = Len(s3) + Len(b) /\ \A k \in 1 .. Len(b) : (s3 \o b)[Len(s3) + k] = b[k]
    BY <1>5, <2>1, CatBytes
  <2>3. ASSUME NEW k \in 1 .. 8 * n PROVE c.cursor - 4 + k <= Len(r) /\ r[c.cursor - 4 + k] = b[k]
    <3>1. c.cursor - 4 + k = Len(s3) + k
      BY <1>1, <1>12
    <3> QED
      BY <1>1, <1>12, <2>1, <2>2, <3>1
  <2> QED
    BY <2>3 DEF Carried, b, n
<1> QED
  BY <1>8, <1>11, <1>12, <1>13, <1>14 DEF c, r

(* An array of any length, in a template that may have run ahead *)
LEMMA JoinedArray ==
  ASSUME NEW t, NEW s, NEW H, NEW ds \in Seq(Int), NEW n, n = Len(ds), Joined(t, s, H, n)
  PROVE  LET c == PutCount(t, n)
         IN  /\ Joined(Skip(c, n), RefDoubles(s, ds),
                       H \cup (c.cursor .. c.cursor + 8 * n - 1), n)
             /\ Continues(RefDoubles(s, ds), s)
             /\ Carried(RefDoubles(s, ds), c.cursor, ds)
             /\ c.cursor >= t.cursor /\ c.cursor \in Nat /\ c \in Templates
<1>1. n \in Nat
  BY LenProperties
<1>2. CASE n >= 1
  <2>1. Exact(t, s, H)
    BY <1>2 DEF Joined, Exact
  <2> DEFINE c == PutCount(t, n)
  <2>2. /\ Exact(Skip(c, n), RefDoubles(s, ds), H \cup (c.cursor .. c.cursor + 8 * n - 1))
        /\ Continues(RefDoubles(s, ds), s)
        /\ Carried(RefDoubles(s, ds), c.cursor, ds)
        /\ c.cursor >= t.cursor /\ c.cursor \in Nat /\ c \in Templates
    BY <1>2, <2>1, CountOfSome
  <2> HIDE DEF c
  <2>3. Joined(Skip(c, n), RefDoubles(s, ds), H \cup (c.cursor .. c.cursor + 8 * n - 1), n)
    BY <2>2 DEF Joined, Exact
  <2> QED
    BY <2>2, <2>3 DEF c
<1>3. CASE n = 0
  <2> DEFINE c == PutCount(t, n)
  <2>1. /\ Image(c, RefDoubles(s, ds), H)
        /\ Continues(RefDoubles(s, ds), s)
        /\ c.cursor >= t.cursor
    BY <1>3, CountOfNone DEF Joined
  <2> HIDE DEF c
  <2>2. c \in Templates /\ c.cursor \in Nat
    BY <2>1 DEF Image, Templates
  <2>3. Skip(c, n) = c
    BY <1>3, <2>2 DEF Skip, Templates
  <2>4. H \cup (c.cursor .. c.cursor + 8 * n - 1) = H
    BY <1>3, <2>2
  <2>5. Carried(RefDoubles(s, ds), c.cursor, ds)
    BY <1>3 DEF Carried
  <2>6. Joined(Skip(c, n), RefDoubles(s, ds), H \cup (c.cursor .. c.cursor + 8 * n - 1), n)
    <3>1. ~(n >= 1)
      BY <1>3
    <3>2. Joined(c, RefDoubles(s, ds), H, n)
      BY <2>1, <3>1 DEF Joined
    <3> QED
      BY <2>3, <2>4, <3>2
  <2> QED
    BY <2>1, <2>2, <2>5, <2>6 DEF c
<1> QED
  BY <1>1, <1>2, <1>3

LEMMA SkipType ==
  ASSUME NEW t \in Templates, NEW n \in Nat
  PROVE  /\ Skip(t, n) \in Templates /\ Skip(t, n).cells = t.cells
         /\ Skip(t, n).cursor = t.cursor + 8 * n
         /\ Skip(t, n) = [cells |-> t.cells, cursor |-> Skip(t, n).cursor]
<1>1. t.cells \in Buffers /\ t.cursor \in Nat /\ t = [cells |-> t.cells, cursor |-> t.cursor]
  BY DEF Templates
<1>2. Skip(t, n) = [cells |-> t.cells, cursor |-> t.cursor + 8 * n]
  BY <1>1 DEF Skip
<1> QED
  BY <1>1, <1>2 DEF Templates

-----------------------------------------------------------------------------
(* The two kinds of messages *)

Hole(at, n) == at .. at + 8 * n - 1

LEMMA StampBytes ==
  ASSUME NEW m, m.sec \in Int, m.nanosec \in Int
  PROVE  /\ Stamp(m) \in Seq(Int) /\ Len(Stamp(m)) = 8
         /\ Stamp(m)[1] = m.sec /\ Stamp(m)[5] = m.nanosec
         /\ m.sec = 0 /\ m.nanosec = 0 => \A k \in 1 .. 8 : Stamp(m)[k] = 0
<1> DEFINE a == U32(m.sec)
           b == U32(m.nanosec)
<1>1. /\ a \in Seq(Int) /\ Len(a) = 4 /\ a[1] = m.sec
      /\ b \in Seq(Int) /\ Len(b) = 4 /\ b[1] = m.nanosec
  BY U32Bytes
<1>2. Stamp(m) = a \o b
  BY DEF Stamp
<1> HIDE DEF a, b
<1>3. /\ a \o b \in Seq(Int) /\ Len(a \o b) = Len(a) + Len(b)
      /\ \A k \in 1 .. Len(a) : (a \o b)[k] = a[k]
      /\ \A k \in 1 .. Len(b) : (a \o b)[Len(a) + k] = b[k]
  BY <1>1, CatBytes
<1>4. (a \o b)[1] = a[1] /\ (a \o b)[Len(a) + 1] = b[1] /\ Len(a) + 1 = 5
  BY <1>1, <1>3
<1>5. ASSUME m.sec = 0, m.nanosec = 0, NEW k \in 1 .. 8 PROVE (a \o b)[k] = 0
  <2>1. \A j \in 1 .. 4 : a[j] = 0 /\ b[j] = 0
    <3>1. \A j \in 2 .. 4 : a[j] = 0 /\ b[j] = 0
      BY U32Bytes DEF a, b
    <3> QED
      BY <1>1, <1>5, <3>1
  <2>2. CASE k <= 4
    <3>1. k \in 1 .. 4
      BY <2>2
    <3> QED
      BY <1>1, <1>3, <2>1, <3>1
  <2>3. CASE k > 4
    <3>1. k - 4 \in 1 .. 4 /\ 4 + (k - 4) = k
      BY <2>3
    <3>2. (a \o b)[4 + (k - 4)] = b[k - 4]
      BY <1>1, <1>3, <3>1
    <3> QED
      BY <2>1, <3>1, <3>2
  <2>4. k <= 4 \/ k > 4
    OBVIOUS
  <2> QED
    BY <2>2, <2>3, <2>4
<1> QED
  BY <1>1, <1>2, <1>3, <1>4, <1>5

(* What the code may rely on about the arguments of init() *)
Fits(p) == p.frame \in {Null} \cup Seq(Int) /\ p.names \in Seq(Seq(Int))

(* A JointState for these names: every array has an element per joint. *)
StateFor(m, p) ==
  /\ m.frame = p.frame /\ m.names = p.names /\ m.sec \in Int /\ m.nanosec \in Int
  /\ m.positions \in Seq(Int) /\ Len(m.positions) = Len(p.names)
  /\ m.velocities \in Seq(Int) /\ Len(m.velocities) = Len(p.names)
  /\ m.efforts \in Seq(Int) /\ Len(m.efforts) = Len(p.names)

StateHoles(c) == ((StampHole \cup Hole(c.position, c.num_joints))
                    \cup Hole(c.velocity, c.num_joints)) \cup Hole(c.effort, c.num_joints)

StateBody(m) ==
  RefDoubles(RefDoubles(RefDoubles(RefHeader(m), m.positions), m.velocities), m.efforts)

(* The template of a JointState is the CDR of every message for its names, *)
(* but for the bytes it leaves open.                                       *)
LEMMA StateTemplate ==
  ASSUME NEW p, Fits(p), NEW m, StateFor(m, p)
  PROVE  LET made == zcdr_init_joint_state(p, EmptySlot)
             c == made.ctx
             n == Len(p.names)
         IN  /\ Joined([cells |-> made.cells, cursor |-> c.payload_size], StateBody(m),
                       StateHoles(c), n)
             /\ Continues(StateBody(m), Stamp(m))
             /\ Carried(StateBody(m), c.position, m.positions)
             /\ Carried(StateBody(m), c.velocity, m.velocities)
             /\ Carried(StateBody(m), c.effort, m.efforts)
             /\ c.num_joints = n /\ c.timestamp = 4 /\ n \in Nat
             /\ c.position \in Nat /\ c.velocity \in Nat /\ c.effort \in Nat
             /\ 12 <= c.position /\ c.position + 8 * n <= c.velocity
             /\ c.velocity + 8 * n <= c.effort /\ c.effort + 8 * n = c.payload_size
<1> DEFINE n == Len(p.names)
           t == PutNames(EmptySlot, p)
           pos == PutCount(t, n)
           vel == PutCount(Skip(pos, n), n)
           eff == PutCount(Skip(vel, n), n)
           made == zcdr_init_joint_state(p, EmptySlot)
           h == RefHeader(m)
           r1 == RefDoubles(h, m.positions)
           r2 == RefDoubles(r1, m.velocities)
           r3 == RefDoubles(r2, m.efforts)
           H1 == StampHole \cup (pos.cursor .. pos.cursor + 8 * n - 1)
           H2 == H1 \cup (vel.cursor .. vel.cursor + 8 * n - 1)
           H3 == H2 \cup (eff.cursor .. eff.cursor + 8 * n - 1)
<1>1. n \in Nat
  BY LenProperties DEF Fits
<1>2. Stamp(m) \in Seq(Int) /\ Len(Stamp(m)) = 8
  BY StampBytes DEF StateFor
<1>3. h = RefNames(Stamp(m), p.frame, p.names)
  BY DEF RefHeader, RefNames, StateFor
<1>4. Exact(t, h, StampHole) /\ Continues(h, Stamp(m))
  BY <1>2, <1>3, ExactNames DEF Fits
<1>5. /\ h \in Seq(Int) /\ Joined(t, h, StampHole, n)
      /\ t \in Templates /\ t.cursor \in Nat /\ t.cursor >= 12
  BY <1>2, <1>4, LenProperties DEF Exact, Image, Joined, Templates, Continues
<1> HIDE DEF t, h
<1>6. /\ Joined(Skip(pos, n), r1, H1, n) /\ Continues(r1, h)
      /\ Carried(r1, pos.cursor, m.positions)
      /\ pos.cursor >= t.cursor /\ pos.cursor \in Nat /\ pos \in Templates
  BY <1>5, JoinedArray DEF StateFor
<1>7. Skip(pos, n).cursor = pos.cursor + 8 * n
  <2> HIDE DEF pos
  <2> QED
    BY <1>1, <1>6, SkipType
<1> HIDE DEF pos, r1, H1
<1>8. /\ Joined(Skip(vel, n), r2, H2, n) /\ Continues(r2, r1)
      /\ Carried(r2, vel.cursor, m.velocities)
      /\ vel.cursor >= Skip(pos, n).cursor /\ vel.cursor \in Nat /\ vel \in Templates
  BY <1>6, JoinedArray DEF StateFor
<1>9. Skip(vel, n).cursor = vel.cursor + 8 * n
  <2> HIDE DEF vel
  <2> QED
    BY <1>1, <1>8, SkipType
<1> HIDE DEF vel, r2, H2
<1>10. /\ Joined(Skip(eff, n), r3, H3, n) /\ Continues(r3, r2)
       /\ Carried(r3, eff.cursor, m.efforts)
       /\ eff.cursor >= Skip(vel, n).cursor /\ eff.cursor \in Nat /\ eff \in Templates
  BY <1>8, JoinedArray DEF StateFor
<1>11. /\ Skip(eff, n).cursor = eff.cursor + 8 * n
       /\ Skip(eff, n) = [cells |-> eff.cells, cursor |-> Skip(eff, n).cursor]
  <2> HIDE DEF eff
  <2> QED
    BY <1>1, <1>10, SkipType
<1>12. made = [ctx |-> [num_joints |-> n, timestamp |-> 4,
                        position |-> pos.cursor, velocity |-> vel.cursor,
                        effort |-> eff.cursor, payload_size |-> Skip(eff, n).cursor],
               cells |-> eff.cells]
  BY DEF zcdr_init_joint_state, CDR_HEADER_SIZE, pos, vel, t
<1> HIDE DEF eff, r3, H3, n
<1>13. /\ made.cells = eff.cells /\ made.ctx.num_joints = n /\ made.ctx.timestamp = 4
       /\ made.ctx.position = pos.cursor /\ made.ctx.velocity = vel.cursor
       /\ made.ctx.effort = eff.cursor /\ made.ctx.payload_size = Skip(eff, n).cursor
  BY <1>12
<1> HIDE DEF made
<1>14. StateBody(m) = r3
  BY DEF StateBody, r3, r2, r1, h
<1>15. StateHoles(made.ctx) = H3
  BY <1>13 DEF StateHoles, Hole, H3, H2, H1
<1>16. /\ r1 \in Seq(Int) /\ r2 \in Seq(Int) /\ Continues(r3, h)
  <2>1. r1 \in Seq(Int) /\ r2 \in Seq(Int)
    BY <1>6, <1>8 DEF Continues
  <2>2. Continues(r2, h)
    BY <1>5, <1>6, <1>8, ContinuesOn
  <2>3. Continues(r3, h)
    BY <1>5, <1>10, <2>2, ContinuesOn
  <2> QED
    BY <2>1, <2>3
<1>17. Continues(r3, Stamp(m))
  BY <1>2, <1>4, <1>16, ContinuesOn
<1>18. /\ 12 <= pos.cursor /\ pos.cursor + 8 * n <= vel.cursor
       /\ vel.cursor + 8 * n <= eff.cursor /\ eff.cursor + 8 * n = Skip(eff, n).cursor
  BY <1>1, <1>5, <1>6, <1>7, <1>8, <1>9, <1>10, <1>11
<1>19. pos.cursor >= 4 /\ vel.cursor >= 4 /\ eff.cursor >= 4
  BY <1>1, <1>6, <1>8, <1>10, <1>18
<1>20. Carried(r3, pos.cursor, m.positions) /\ Carried(r3, vel.cursor, m.velocities)
  <2>1. Carried(r2, pos.cursor, m.positions)
    BY <1>6, <1>8, <1>16, <1>19, CarriedOn DEF StateFor
  <2>2. Carried(r3, pos.cursor, m.positions)
    BY <1>6, <1>10, <1>16, <1>19, <2>1, CarriedOn DEF StateFor
  <2>3. Carried(r3, vel.cursor, m.velocities)
    BY <1>8, <1>10, <1>16, <1>19, CarriedOn DEF StateFor
  <2> QED
    BY <2>2, <2>3
<1>21. Joined([cells |-> made.cells, cursor |-> made.ctx.payload_size], r3, H3, n)
  BY <1>10, <1>11, <1>13
<1> QED
  BY <1>1, <1>6, <1>8, <1>10, <1>13, <1>14, <1>15, <1>17, <1>18, <1>20, <1>21 DEF made, n

CommandFor(m, p) ==
  /\ m.frame = p.frame /\ m.names = p.names /\ m.interface = p.interface
  /\ m.sec \in Int /\ m.nanosec \in Int
  /\ m.values \in Seq(Int) /\ Len(m.values) = Len(p.names)

CommandHoles(c) == StampHole \cup Hole(c.values, c.num_joints)

CommandBody(m) == RefDoubles(RefString(RefHeader(m), CString(m.interface)), m.values)

(* The same of a JointCommand *)
LEMMA CommandTemplate ==
  ASSUME NEW p, Fits(p), p.interface \in {Null} \cup Seq(Int), NEW m, CommandFor(m, p)
  PROVE  LET made == zcdr_init_joint_command(p, EmptySlot)
             c == made.ctx
             n == Len(p.names)
         IN  /\ Joined([cells |-> made.cells, cursor |-> c.payload_size], CommandBody(m),
                       CommandHoles(c), n)
             /\ Continues(CommandBody(m), Stamp(m))
             /\ Carried(CommandBody(m), c.values, m.values)
             /\ c.num_joints = n /\ c.timestamp = 4 /\ n \in Nat /\ c.values \in Nat
             /\ 12 <= c.values /\ c.values + 8 * n = c.payload_size
<1> DEFINE n == Len(p.names)
           t0 == PutNames(EmptySlot, p)
           t == PutString(Align(t0, 4), p.interface)
           val == PutCount(t, n)
           made == zcdr_init_joint_command(p, EmptySlot)
           h0 == RefHeader(m)
           h == RefString(h0, CString(p.interface))
           r == RefDoubles(h, m.values)
           H == StampHole \cup (val.cursor .. val.cursor + 8 * n - 1)
<1>1. n \in Nat
  BY LenProperties DEF Fits
<1>2. Stamp(m) \in Seq(Int) /\ Len(Stamp(m)) = 8
  BY StampBytes DEF CommandFor
<1>3. h0 = RefNames(Stamp(m), p.frame, p.names)
  BY DEF RefHeader, RefNames, CommandFor
<1>4. Exact(t0, h0, StampHole) /\ Continues(h0, Stamp(m))
  BY <1>2, <1>3, ExactNames DEF Fits
<1>5. h0 \in Seq(Int)
  BY <1>4 DEF Continues
<1> HIDE DEF t0, h0
<1>6. Exact(t, h, StampHole) /\ Continues(h, h0)
  BY <1>4, <1>5, ExactString, CStringBytes, StringContinues
<1>7. Continues(h, Stamp(m))
  BY <1>2, <1>4, <1>6, ContinuesOn
<1>8. /\ h \in Seq(Int) /\ Joined(t, h, StampHole, n)
      /\ t \in Templates /\ t.cursor \in Nat /\ t.cursor >= 12
  <2> HIDE DEF t, h
  <2> QED
    BY <1>2, <1>6, <1>7, LenProperties DEF Exact, Image, Joined, Templates, Continues
<1> HIDE DEF t, h
<1>9. /\ Joined(Skip(val, n), r, H, n) /\ Continues(r, h)
      /\ Carried(r, val.cursor, m.values)
      /\ val.cursor >= t.cursor /\ val.cursor \in Nat /\ val \in Templates
  BY <1>8, JoinedArray DEF CommandFor
<1>10. /\ Skip(val, n).cursor = val.cursor + 8 * n
       /\ Skip(val, n) = [cells |-> val.cells, cursor |-> Skip(val, n).cursor]
  <2> HIDE DEF val
  <2> QED
    BY <1>1, <1>9, SkipType
<1>11. made = [ctx |-> [num_joints |-> n, timestamp |-> 4,
                        values |-> val.cursor, payload_size |-> Skip(val, n).cursor],
               cells |-> val.cells]
  BY DEF zcdr_init_joint_command, CDR_HEADER_SIZE, t, t0
<1> HIDE DEF val, r, H, n
<1>12. /\ made.cells = val.cells /\ made.ctx.num_joints = n /\ made.ctx.timestamp = 4
       /\ made.ctx.values = val.cursor /\ made.ctx.payload_size = Skip(val, n).cursor
  BY <1>11
<1> HIDE DEF made
<1>13. CommandBody(m) = r
  BY DEF CommandBody, CommandFor, r, h, h0
<1>14. CommandHoles(made.ctx) = H
  BY <1>12 DEF CommandHoles, Hole, H
<1>15. Continues(r, Stamp(m))
  BY <1>2, <1>7, <1>9, ContinuesOn
<1>16. 12 <= val.cursor /\ val.cursor + 8 * n = Skip(val, n).cursor
  BY <1>8, <1>9, <1>10
<1>17. Joined([cells |-> made.cells, cursor |-> made.ctx.payload_size], r, H, n)
  BY <1>9, <1>10, <1>12
<1> QED
  BY <1>1, <1>9, <1>12, <1>13, <1>14, <1>15, <1>16, <1>17 DEF made, n

(* In any command the values are the last bytes, and the stamp the first. *)
LEMMA CommandEnds ==
  ASSUME NEW m, Fits(m), m.interface \in {Null} \cup Seq(Int), CommandFor(m, m)
  PROVE  /\ CommandBody(m) \in Seq(Int) /\ Continues(CommandBody(m), Stamp(m))
         /\ Len(CommandBody(m)) \in Nat
         /\ \A k \in 1 .. 8 * Len(m.values) :
              CommandBody(m)[Len(CommandBody(m)) - 8 * Len(m.values) + k] = Doubles(m.values)[k]
<1> DEFINE made == zcdr_init_joint_command(m, EmptySlot)
           c == made.ctx
           n == Len(m.names)
           r == CommandBody(m)
           t == [cells |-> made.cells, cursor |-> c.payload_size]
<1>1. /\ Joined(t, r, CommandHoles(c), n)
      /\ Continues(r, Stamp(m)) /\ Carried(r, c.values, m.values) /\ n \in Nat
      /\ c.values \in Nat /\ 12 <= c.values /\ c.values + 8 * n = c.payload_size
  BY CommandTemplate
<1>2. r \in Seq(Int) /\ Len(r) \in Nat
  BY <1>1, LenProperties DEF Continues
<1>3. Len(m.values) = n
  BY DEF CommandFor
<1>4. t.cursor = c.payload_size
  OBVIOUS
<1> HIDE DEF t, r, c, n
<1>5. ASSUME NEW k \in 1 .. 8 * n PROVE r[Len(r) - 8 * n + k] = Doubles(m.values)[k]
  <2>1. n >= 1
    BY <1>1
  <2>2. c.payload_size = 4 + Len(r)
    BY <1>1, <1>4, <2>1 DEF Joined
  <2>3. Len(r) - 8 * n + k = c.values - 4 + k
    <3>1. \A a, l, v \in Nat : v + 8 * a = 4 + l => l - 8 * a + k = v - 4 + k
      OBVIOUS
    <3>2. n \in Nat /\ Len(r) \in Nat /\ c.values \in Nat /\ c.values + 8 * n = 4 + Len(r)
      BY <1>1, <1>2, <2>2
    <3> HIDE DEF made
    <3> QED
      BY <3>1, <3>2
  <2>4. r[c.values - 4 + k] = Doubles(m.values)[k]
    BY <1>1, <1>3 DEF Carried
  <2> QED
    BY <2>3, <2>4
<1> QED
  BY <1>1, <1>2, <1>3, <1>5 DEF r

-----------------------------------------------------------------------------
(* A slot of the buffer and what is patched into it *)

HasBytes(b, at, bytes) ==
  \A k \in 1 .. Len(bytes) : at + k - 1 \in DOMAIN b /\ b[at + k - 1] = bytes[k]

IsSlot(b) == b \in [0 .. SlotSize - 1 -> Int]

LEMMA SlotIsBuffer ==
  ASSUME NEW b
  PROVE  IsSlot(b) <=> b \in Buffers /\ DOMAIN b = 0 .. SlotSize - 1
<1>1. SlotSize \in Nat
  BY CdrAssumption DEF CdrAssumption
<1>2. 0 .. SlotSize - 1 \in SUBSET Nat
  BY <1>1
<1>3. IsSlot(b) => b \in Buffers /\ DOMAIN b = 0 .. SlotSize - 1
  BY <1>2 DEF IsSlot, Buffers
<1>4. b \in Buffers /\ DOMAIN b = 0 .. SlotSize - 1 => IsSlot(b)
  BY BufferIsFunction DEF IsSlot
<1> QED
  BY <1>3, <1>4

(* A patch inside of a slot changes its own bytes only. *)
LEMMA PatchIsLocal ==
  ASSUME NEW b, IsSlot(b), NEW at \in Nat, NEW bytes \in Seq(Int),
         at + Len(bytes) <= SlotSize
  PROVE  /\ IsSlot(memcpy(b, at, bytes))
         /\ HasBytes(memcpy(b, at, bytes), at, bytes)
         /\ \A a \in 0 .. SlotSize - 1 :
              a \notin at .. at + Len(bytes) - 1 => memcpy(b, at, bytes)[a] = b[a]
<1> DEFINE d == memcpy(b, at, bytes)
           n == Len(bytes)
<1>1. b \in Buffers /\ DOMAIN b = 0 .. SlotSize - 1 /\ n \in Nat /\ SlotSize \in Nat
  BY CdrAssumption, SlotIsBuffer, LenProperties DEF CdrAssumption
<1>2. /\ d \in Buffers /\ DOMAIN d = DOMAIN b \cup (at .. at + n - 1)
      /\ \A k \in 1 .. n : d[at + k - 1] = bytes[k]
      /\ \A a \in DOMAIN b : a < at \/ at + n <= a => d[a] = b[a]
  BY <1>1, CopyIsLocal
<1> HIDE DEF d, n
<1>3. DOMAIN d = 0 .. SlotSize - 1
  BY <1>1, <1>2 DEF n
<1>4. \A k \in 1 .. n : at + k - 1 \in DOMAIN d
  BY <1>1, <1>2
<1>5. \A a \in 0 .. SlotSize - 1 : a \notin at .. at + n - 1 => d[a] = b[a]
  BY <1>1, <1>2
<1> QED
  BY <1>2, <1>3, <1>4, <1>5, SlotIsBuffer DEF HasBytes, d, n

(* A patch leaves bytes alone that it does not overlap. *)
LEMMA PatchKeeps ==
  ASSUME NEW b, IsSlot(b), NEW at \in Nat, NEW bytes \in Seq(Int),
         at + Len(bytes) <= SlotSize,
         NEW at2 \in Nat, NEW bytes2 \in Seq(Int), HasBytes(b, at2, bytes2),
         at2 + Len(bytes2) <= at \/ at + Len(bytes) <= at2
  PROVE  HasBytes(memcpy(b, at, bytes), at2, bytes2)
<1> DEFINE d == memcpy(b, at, bytes)
<1>1. Len(bytes) \in Nat /\ Len(bytes2) \in Nat
  BY LenProperties
<1>2. /\ IsSlot(d)
      /\ \A a \in 0 .. SlotSize - 1 : a \notin at .. at + Len(bytes) - 1 => d[a] = b[a]
  BY PatchIsLocal
<1> HIDE DEF d
<1>3. ASSUME NEW k \in 1 .. Len(bytes2)
      PROVE  at2 + k - 1 \in DOMAIN d /\ d[at2 + k - 1] = bytes2[k]
  <2>1. at2 + k - 1 \in 0 .. SlotSize - 1 /\ b[at2 + k - 1] = bytes2[k]
    BY SlotIsBuffer DEF HasBytes
  <2>2. at2 + k - 1 \notin at .. at + Len(bytes) - 1
    BY <1>1
  <2> QED
    BY <1>2, <2>1, <2>2, SlotIsBuffer
<1> QED
  BY <1>3 DEF HasBytes, d

(* What is loaded are the doubles whose bytes are there. *)
LEMMA LoadFindsDoubles ==
  ASSUME NEW b, NEW at \in Nat, NEW ds \in Seq(Int), HasBytes(b, at, Doubles(ds))
  PROVE  LoadDoubles(b, at, Len(ds)) = ds
<1> DEFINE n == Len(ds)
<1>1. /\ n \in Nat /\ Len(Doubles(ds)) = 8 * n
      /\ \A k \in 1 .. 8 * n : Doubles(ds)[k] = ds[(k - 1) \div 8 + 1]
  BY DoublesBytes
<1>2. ds \in [1 .. n -> Int]
  BY LenProperties
<1> DEFINE L == LoadDoubles(b, at, n)
<1>3. ASSUME NEW j \in 1 .. n PROVE L[j] = ds[j]
  <2> DEFINE first == at + 8 * (j - 1)
  <2>1. ASSUME NEW k \in 0 .. 7 PROVE Byte(b, first + k) = ds[j]
    <3> DEFINE i == 8 * (j - 1) + k + 1
    <3>1. i \in 1 .. 8 * n /\ (i - 1) \div 8 + 1 = j /\ at + i - 1 = first + k
      BY <1>1
    <3> HIDE DEF i, n
    <3>2. at + i - 1 \in DOMAIN b /\ b[at + i - 1] = Doubles(ds)[i] /\ Doubles(ds)[i] = ds[j]
      BY <1>1, <3>1 DEF HasBytes
    <3> QED
      BY <3>1, <3>2 DEF Byte
  <2>2. Byte(b, first + 0) = ds[j] /\ first + 0 = first
    BY <1>1, <2>1
  <2>3. L[j] = IF \A k \in 0 .. 7 : Byte(b, first + k) = Byte(b, first)
               THEN Byte(b, first) ELSE Mixed
    BY DEF LoadDoubles
  <2> HIDE DEF first, L
  <2> QED
    BY <2>1, <2>2, <2>3
<1>4. L = [j \in 1 .. n |-> L[j]]
  BY DEF LoadDoubles
<1> HIDE DEF L
<1> QED
  BY <1>2, <1>3, <1>4 DEF L

(* The offsets of a state codec that was accepted *)
StateLayout(c) ==
  /\ c.num_joints \in Nat /\ c.timestamp = 4
  /\ c.position \in Nat /\ c.velocity \in Nat /\ c.effort \in Nat
  /\ 12 <= c.position /\ c.position + 8 * c.num_joints <= c.velocity
  /\ c.velocity + 8 * c.num_joints <= c.effort
  /\ c.effort + 8 * c.num_joints = c.payload_size
  /\ c.payload_size <= SlotSize

(* Slot b holds the stamp st and these arrays, and the template elsewhere. *)
StateSlot(b, c, cells, st, pos, vel, eff) ==
  /\ IsSlot(b)
  /\ HasBytes(b, 4, st)
  /\ HasBytes(b, c.position, Doubles(pos))
  /\ HasBytes(b, c.velocity, Doubles(vel))
  /\ HasBytes(b, c.effort, Doubles(eff))
  /\ \A a \in 0 .. SlotSize - 1 : a \notin StateHoles(c) => b[a] = cells[a]

(* Each patch of zcdr_serialize_joint_state() replaces one part of a       *)
(* state.                                                                  *)
LEMMA PatchState ==
  ASSUME NEW b, NEW c, StateLayout(c), NEW cells,
         NEW st \in Seq(Int), Len(st) = 8,
         NEW pos \in Seq(Int), Len(pos) = c.num_joints,
         NEW vel \in Seq(Int), Len(vel) = c.num_joints,
         NEW eff \in Seq(Int), Len(eff) = c.num_joints,
         StateSlot(b, c, cells, st, pos, vel, eff)
  PROVE  /\ \A x \in Seq(Int) : Len(x) = 8 =>
              StateSlot(memcpy(b, 4, x), c, cells, x, pos, vel, eff)
         /\ \A x \in Seq(Int) : Len(x) = c.num_joints =>
              /\ StateSlot(memcpy(b, c.position, Doubles(x)), c, cells, st, x, vel, eff)
              /\ StateSlot(memcpy(b, c.velocity, Doubles(x)), c, cells, st, pos, x, eff)
              /\ StateSlot(memcpy(b, c.effort, Doubles(x)), c, cells, st, pos, vel, x)
<1> DEFINE n == c.num_joints
           p == c.position
           v == c.velocity
           e == c.effort
<1>1. /\ n \in Nat /\ p \in Nat /\ v \in Nat /\ e \in Nat /\ 4 \in Nat
      /\ 12 <= p /\ p + 8 * n <= v /\ v + 8 * n <= e /\ e + 8 * n <= SlotSize /\ SlotSize \in Nat
  BY CdrAssumption DEF StateLayout, CdrAssumption
<1>2. /\ Doubles(pos) \in Seq(Int) /\ Len(Doubles(pos)) = 8 * n
      /\ Doubles(vel) \in Seq(Int) /\ Len(Doubles(vel)) = 8 * n
      /\ Doubles(eff) \in Seq(Int) /\ Len(Doubles(eff)) = 8 * n
  BY DoublesBytes
<1>3. /\ IsSlot(b) /\ HasBytes(b, 4, st) /\ HasBytes(b, p, Doubles(pos))
      /\ HasBytes(b, v, Doubles(vel)) /\ HasBytes(b, e, Doubles(eff))
      /\ \A a \in 0 .. SlotSize - 1 : a \notin StateHoles(c) => b[a] = cells[a]
  BY DEF StateSlot
<1>4. \A a : /\ a \in 4 .. 4 + 8 - 1 => a \in StateHoles(c)
             /\ a \in p .. p + 8 * n - 1 => a \in StateHoles(c)
             /\ a \in v .. v + 8 * n - 1 => a \in StateHoles(c)
             /\ a \in e .. e + 8 * n - 1 => a \in StateHoles(c)
  BY DEF StateHoles, StampHole, Hole
<1> HIDE DEF n, p, v, e
<1>5. ASSUME NEW x \in Seq(Int), Len(x) = 8
      PROVE  StateSlot(memcpy(b, 4, x), c, cells, x, pos, vel, eff)
  <2> DEFINE d == memcpy(b, 4, x)
  <2>1. 4 + Len(x) <= SlotSize
    BY <1>1, <1>5
  <2>2. /\ IsSlot(d) /\ HasBytes(d, 4, x)
        /\ \A a \in 0 .. SlotSize - 1 : a \notin 4 .. 4 + Len(x) - 1 => d[a] = b[a]
    BY <1>1, <1>3, <2>1, PatchIsLocal
  <2>3. 4 + Len(x) <= p /\ 4 + Len(x) <= v /\ 4 + Len(x) <= e
    BY <1>1, <1>5
  <2>4. HasBytes(d, p, Doubles(pos)) /\ HasBytes(d, v, Doubles(vel)) /\ HasBytes(d, e, Doubles(eff))
    BY <1>1, <1>2, <1>3, <2>1, <2>3, PatchKeeps
  <2> HIDE DEF d
  <2>5. \A a \in 0 .. SlotSize - 1 : a \notin StateHoles(c) => d[a] = cells[a]
    BY <1>3, <1>4, <1>5, <2>2
  <2> QED
    BY <2>2, <2>4, <2>5 DEF StateSlot, d, p, v, e
<1>6. ASSUME NEW x \in Seq(Int), Len(x) = n
      PROVE  /\ StateSlot(memcpy(b, p, Doubles(x)), c, cells, st, x, vel, eff)
             /\ StateSlot(memcpy(b, v, Doubles(x)), c, cells, st, pos, x, eff)
             /\ StateSlot(memcpy(b, e, Doubles(x)), c, cells, st, pos, vel, x)
  <2> DEFINE X == Doubles(x)
  <2>1. X \in Seq(Int) /\ Len(X) = 8 * n
    BY <1>6, DoublesBytes
  <2> HIDE DEF X
  <2>2. /\ p + Len(X) <= SlotSize /\ v + Len(X) <= SlotSize /\ e + Len(X) <= SlotSize
        /\ 4 + Len(st) <= p /\ 4 + Len(st) <= v /\ 4 + Len(st) <= e
        /\ p + Len(Doubles(pos)) <= v /\ p + Len(Doubles(pos)) <= e
        /\ v + Len(Doubles(vel)) <= e
        /\ p + Len(X) <= v /\ p + Len(X) <= e /\ v + Len(X) <= e
    BY <1>1, <1>2, <2>1
  <2>3. StateSlot(memcpy(b, p, X), c, cells, st, x, vel, eff)
    <3> DEFINE d == memcpy(b, p, X)
    <3>1. /\ IsSlot(d) /\ HasBytes(d, p, X)
          /\ \A a \in 0 .. SlotSize - 1 : a \notin p .. p + Len(X) - 1 => d[a] = b[a]
      <4>1. IsSlot(b) /\ p \in Nat /\ X \in Seq(Int) /\ p + Len(X) <= SlotSize
        BY <1>1, <1>3, <2>1, <2>2
      <4> QED
        BY <4>1, PatchIsLocal
    <3>2. HasBytes(d, 4, st) /\ HasBytes(d, v, Doubles(vel)) /\ HasBytes(d, e, Doubles(eff))
      BY <1>1, <1>2, <1>3, <2>1, <2>2, PatchKeeps
    <3> HIDE DEF d
    <3>3. \A a \in 0 .. SlotSize - 1 : a \notin StateHoles(c) => d[a] = cells[a]
      BY <1>3, <1>4, <2>1, <3>1
    <3> QED
      BY <3>1, <3>2, <3>3 DEF StateSlot, d, p, v, e, X
  <2>4. StateSlot(memcpy(b, v, X), c, cells, st, pos, x, eff)
    <3> DEFINE d == memcpy(b, v, X)
    <3>1. /\ IsSlot(d) /\ HasBytes(d, v, X)
          /\ \A a \in 0 .. SlotSize - 1 : a \notin v .. v + Len(X) - 1 => d[a] = b[a]
      <4>1. IsSlot(b) /\ v \in Nat /\ X \in Seq(Int) /\ v + Len(X) <= SlotSize
        BY <1>1, <1>3, <2>1, <2>2
      <4> QED
        BY <4>1, PatchIsLocal
    <3>2. HasBytes(d, 4, st) /\ HasBytes(d, p, Doubles(pos)) /\ HasBytes(d, e, Doubles(eff))
      BY <1>1, <1>2, <1>3, <2>1, <2>2, PatchKeeps
    <3> HIDE DEF d
    <3>3. \A a \in 0 .. SlotSize - 1 : a \notin StateHoles(c) => d[a] = cells[a]
      BY <1>3, <1>4, <2>1, <3>1
    <3> QED
      BY <3>1, <3>2, <3>3 DEF StateSlot, d, p, v, e, X
  <2>5. StateSlot(memcpy(b, e, X), c, cells, st, pos, vel, x)
    <3> DEFINE d == memcpy(b, e, X)
    <3>1. /\ IsSlot(d) /\ HasBytes(d, e, X)
          /\ \A a \in 0 .. SlotSize - 1 : a \notin e .. e + Len(X) - 1 => d[a] = b[a]
      <4>1. IsSlot(b) /\ e \in Nat /\ X \in Seq(Int) /\ e + Len(X) <= SlotSize
        BY <1>1, <1>3, <2>1, <2>2
      <4> QED
        BY <4>1, PatchIsLocal
    <3>2. HasBytes(d, 4, st) /\ HasBytes(d, p, Doubles(pos)) /\ HasBytes(d, v, Doubles(vel))
      BY <1>1, <1>2, <1>3, <2>1, <2>2, PatchKeeps
    <3> HIDE DEF d
    <3>3. \A a \in 0 .. SlotSize - 1 : a \notin StateHoles(c) => d[a] = cells[a]
      BY <1>3, <1>4, <2>1, <3>1
    <3> QED
      BY <3>1, <3>2, <3>3 DEF StateSlot, d, p, v, e, X
  <2> QED
    BY <2>3, <2>4, <2>5 DEF X
<1> QED
  BY <1>5, <1>6 DEF n, p, v, e

LEMMA PrefixBytes ==
  ASSUME NEW s \in Seq(Int), NEW t \in Seq(Int), Len(s) <= Len(t),
         \A k \in 1 .. Len(s) : s[k] = t[k]
  PROVE  IsPrefix(s, t)
BY DEF IsPrefix

Header == <<0, 1, 0, 0>>

(* A slot that agrees with the template where the template is closed and   *)
(* with the reference where it is open holds the reference.                *)
LEMMA SlotIsReference ==
  ASSUME NEW t, NEW r, NEW H, NEW n \in Nat, Joined(t, r, H, n), t.cursor <= SlotSize,
         NEW b, IsSlot(b),
         \A a \in 0 .. SlotSize - 1 : a \notin H => b[a] = t.cells[a],
         \A a \in H : a \in Nat /\ a >= 4 /\ a - 3 <= Len(r) /\ b[a] = r[a - 3]
  PROVE  LET image == [k \in 1 .. t.cursor |-> Byte(b, k - 1)]
         IN  IF n = 0 THEN IsPrefix(Header \o r, image) ELSE image = Header \o r
<1> DEFINE image == [k \in 1 .. t.cursor |-> Byte(b, k - 1)]
           ref == Header \o r
<1>1. /\ r \in Seq(Int) /\ Len(r) \in Nat /\ t.cursor \in Nat /\ t.cursor >= 4 + Len(r)
      /\ SlotSize \in Nat /\ t.cells \in Buffers
  BY CdrAssumption, LenProperties DEF Joined, Image, Templates, CdrAssumption
<1>2. /\ \A a \in Nat : a < SlotSize => a \in DOMAIN t.cells
      /\ t.cells[0] = 0 /\ t.cells[1] = 1 /\ t.cells[2] = 0 /\ t.cells[3] = 0
      /\ \A a \in DOMAIN t.cells \ H :
           a >= 4 => t.cells[a] = IF a < 4 + Len(r) THEN r[a - 3] ELSE 0
  BY DEF Joined, Image
<1>3. /\ Header \in Seq(Int) /\ Len(Header) = 4 /\ Header[1] = 0 /\ Header[2] = 1
      /\ Header[3] = 0 /\ Header[4] = 0
  BY DEF Header
<1>4. /\ ref \in Seq(Int) /\ Len(ref) = Len(Header) + Len(r)
      /\ \A k \in 1 .. Len(Header) : ref[k] = Header[k]
      /\ \A k \in 1 .. Len(r) : ref[Len(Header) + k] = r[k]
  BY <1>1, <1>3, CatBytes
<1> HIDE DEF ref
<1>5. DOMAIN b = 0 .. SlotSize - 1 /\ b \in [DOMAIN b -> Int]
  BY DEF IsSlot
<1>6. ASSUME NEW k \in 1 .. t.cursor
      PROVE  image[k] = b[k - 1] /\ image[k] \in Int /\ k - 1 \in 0 .. SlotSize - 1
  <2>1. k - 1 \in 0 .. SlotSize - 1
    BY <1>1
  <2>2. b[k - 1] \in Int
    BY <1>5, <2>1
  <2>3. image[k] = b[k - 1]
    BY <1>5, <2>1 DEF Byte
  <2> QED
    BY <2>1, <2>2, <2>3
<1>7. image \in Seq(Int) /\ Len(image) = t.cursor
  <2>1. image \in [1 .. t.cursor -> Int]
    BY <1>6
  <2>2. t.cursor \in Nat
    BY <1>1
  <2> HIDE DEF image
  <2> QED
    BY <2>1, <2>2, FunctionIsSeq
<1> HIDE DEF image
<1>8. ASSUME NEW k \in 1 .. Len(ref) PROVE ref[k] = image[k]
  <2>1. Len(ref) = 4 + Len(r) /\ k \in 1 .. t.cursor
    <3>1. Len(ref) = 4 + Len(r) /\ Len(r) \in Nat /\ t.cursor \in Nat /\ t.cursor >= 4 + Len(r)
      BY <1>1, <1>3, <1>4
    <3> QED
      BY <3>1
  <2>2. CASE k <= 4
    <3>1. image[k] = t.cells[k - 1]
      <4>1. k - 1 \notin H
        BY <2>2
      <4> QED
        BY <1>6, <2>1, <4>1
    <3>2. ref[k] = Header[k]
      BY <1>3, <1>4, <2>2
    <3>3. k = 1 \/ k = 2 \/ k = 3 \/ k = 4
      BY <2>2
    <3> QED
      BY <1>2, <1>3, <3>1, <3>2, <3>3
  <2>3. CASE k > 4
    <3> DEFINE i == k - 4
    <3>1. i \in 1 .. Len(r) /\ Len(Header) + i = k /\ (k - 1) - 3 = i
      BY <1>1, <1>3, <2>1, <2>3
    <3> HIDE DEF i
    <3>2. ref[k] = r[(k - 1) - 3]
      BY <1>4, <3>1
    <3>3. image[k] = b[k - 1] /\ k - 1 \in 0 .. SlotSize - 1
      BY <1>6, <2>1
    <3>4. CASE k - 1 \in H
      BY <3>2, <3>3, <3>4
    <3>5. CASE k - 1 \notin H
      <4>1. k - 1 \in Nat /\ k - 1 < SlotSize
        BY <1>1, <3>3
      <4>2. b[k - 1] = t.cells[k - 1] /\ k - 1 \in DOMAIN t.cells
        BY <1>2, <3>3, <3>5, <4>1
      <4>3. k - 1 >= 4 /\ k - 1 < 4 + Len(r)
        BY <1>1, <2>1, <2>3
      <4>4. t.cells[k - 1] = r[(k - 1) - 3]
        BY <1>2, <3>5, <4>2, <4>3
      <4> QED
        BY <3>2, <3>3, <4>2, <4>4
    <3> QED
      BY <3>4, <3>5
  <2>4. k <= 4 \/ k > 4
    OBVIOUS
  <2> QED
    BY <2>2, <2>3, <2>4
<1>9. CASE n = 0
  <2>1. Len(ref) <= Len(image)
    BY <1>1, <1>3, <1>4, <1>7
  <2>2. IsPrefix(ref, image)
    BY <1>4, <1>7, <1>8, <2>1, PrefixBytes
  <2> QED
    BY <1>9, <2>2 DEF ref, image
<1>10. CASE n # 0
  <2>1. n >= 1
    BY <1>10
  <2>2. t.cursor = 4 + Len(r)
    BY <2>1 DEF Joined
  <2>3. Len(ref) = Len(image)
    BY <1>1, <1>3, <1>4, <1>7, <2>2
  <2>4. ref = image
    BY <1>4, <1>7, <1>8, <2>3, SeqEqual
  <2> QED
    BY <1>10, <2>4 DEF ref, image
<1> QED
  BY <1>9, <1>10

(* The open bytes of the stamp, once patched, are those of the reference. *)
LEMMA StampFound ==
  ASSUME NEW m, m.sec \in Int, m.nanosec \in Int, NEW r, Continues(r, Stamp(m)),
         NEW b, HasBytes(b, 4, Stamp(m)), NEW a \in StampHole
  PROVE  a \in Nat /\ a >= 4 /\ a - 3 <= Len(r) /\ b[a] = r[a - 3]
<1>1. Len(Stamp(m)) = 8 /\ Len(r) \in Nat /\ Len(r) >= 8 /\ \A k \in 1 .. 8 : r[k] = Stamp(m)[k]
  BY StampBytes, LenProperties DEF Continues
<1>2. a - 3 \in 1 .. 8 /\ 4 + (a - 3) - 1 = a /\ a \in Nat /\ a >= 4
  BY DEF StampHole
<1>3. b[4 + (a - 3) - 1] = Stamp(m)[a - 3]
  BY <1>1, <1>2 DEF HasBytes
<1> QED
  BY <1>1, <1>2, <1>3

(* So are the open bytes of an array. *)
LEMMA ArrayFound ==
  ASSUME NEW at \in Nat, 12 <= at, NEW ds \in Seq(Int), NEW r, Carried(r, at, ds),
         NEW b, HasBytes(b, at, Doubles(ds)), NEW a \in Hole(at, Len(ds))
  PROVE  a \in Nat /\ a >= 4 /\ a - 3 <= Len(r) /\ b[a] = r[a - 3]
<1> DEFINE k == a - at + 1
           n == Len(ds)
<1>1. n \in Nat /\ Len(Doubles(ds)) = 8 * n
  BY DoublesBytes
<1>2. k \in 1 .. 8 * n /\ at + k - 1 = a /\ at - 4 + k = a - 3 /\ a \in Nat /\ a >= 4
  BY <1>1 DEF Hole
<1> HIDE DEF k
<1>3. at - 4 + k <= Len(r) /\ r[at - 4 + k] = Doubles(ds)[k]
  BY <1>2 DEF Carried
<1>4. b[at + k - 1] = Doubles(ds)[k]
  BY <1>1, <1>2 DEF HasBytes
<1> QED
  BY <1>2, <1>3, <1>4

(* A slot that holds a state is its CDR; without joints, its CDR and       *)
(* padding.                                                                *)
LEMMA StateConforms ==
  ASSUME NEW p, Fits(p), NEW m, StateFor(m, p), NEW b, NEW c, NEW cells,
         c = zcdr_init_joint_state(p, EmptySlot).ctx,
         cells = zcdr_init_joint_state(p, EmptySlot).cells,
         c.payload_size <= SlotSize,
         StateSlot(b, c, cells, Stamp(m), m.positions, m.velocities, m.efforts)
  PROVE  LET image == [k \in 1 .. c.payload_size |-> Byte(b, k - 1)]
         IN  IF c.num_joints = 0 THEN IsPrefix(RefJointState(m), image)
             ELSE image = RefJointState(m)
<1> DEFINE n == c.num_joints
           r == StateBody(m)
           H == StateHoles(c)
           t == [cells |-> cells, cursor |-> c.payload_size]
<1>1. /\ Joined(t, r, H, n) /\ Continues(r, Stamp(m))
      /\ Carried(r, c.position, m.positions) /\ Carried(r, c.velocity, m.velocities)
      /\ Carried(r, c.effort, m.efforts)
      /\ n = Len(p.names) /\ n \in Nat
      /\ c.position \in Nat /\ c.velocity \in Nat /\ c.effort \in Nat
      /\ 12 <= c.position /\ c.position + 8 * n <= c.velocity
      /\ c.velocity + 8 * n <= c.effort /\ c.effort + 8 * n = c.payload_size
  BY StateTemplate
<1>2. t.cursor = c.payload_size /\ t.cells = cells
  OBVIOUS
<1>3. /\ IsSlot(b) /\ HasBytes(b, 4, Stamp(m))
      /\ HasBytes(b, c.position, Doubles(m.positions))
      /\ HasBytes(b, c.velocity, Doubles(m.velocities))
      /\ HasBytes(b, c.effort, Doubles(m.efforts))
      /\ \A a \in 0 .. SlotSize - 1 : a \notin H => b[a] = cells[a]
  BY DEF StateSlot
<1>4. RefJointState(m) = Header \o r
  BY DEF RefJointState, StateBody, Header
<1> HIDE DEF t, r, n
<1>5. 12 <= c.velocity /\ 12 <= c.effort
  <2>1. \A a, b1, b2, k \in Nat : 12 <= a /\ a + 8 * k <= b1 /\ b1 + 8 * k <= b2
                                   => 12 <= b1 /\ 12 <= b2
    OBVIOUS
  <2> QED
    BY <1>1, <2>1
<1>6. ASSUME NEW a \in H PROVE a \in Nat /\ a >= 4 /\ a - 3 <= Len(r) /\ b[a] = r[a - 3]
  <2>1. CASE a \in StampHole
    <3>1. m.sec \in Int /\ m.nanosec \in Int
      BY DEF StateFor
    <3>2. Continues(r, Stamp(m)) /\ HasBytes(b, 4, Stamp(m))
      BY <1>1, <1>3
    <3> QED
      BY <2>1, <3>1, <3>2, StampFound
  <2>2. CASE a \in Hole(c.position, n)
    <3>1. /\ c.position \in Nat /\ 12 <= c.position
          /\ m.positions \in Seq(Int) /\ n = Len(m.positions)
          /\ Carried(r, c.position, m.positions) /\ HasBytes(b, c.position, Doubles(m.positions))
      BY <1>1, <1>3, <1>5 DEF StateFor
    <3>2. a \in Hole(c.position, Len(m.positions))
      BY <2>2, <3>1
    <3> QED
      BY <3>1, <3>2, ArrayFound
  <2>3. CASE a \in Hole(c.velocity, n)
    <3>1. /\ c.velocity \in Nat /\ 12 <= c.velocity
          /\ m.velocities \in Seq(Int) /\ n = Len(m.velocities)
          /\ Carried(r, c.velocity, m.velocities) /\ HasBytes(b, c.velocity, Doubles(m.velocities))
      BY <1>1, <1>3, <1>5 DEF StateFor
    <3>2. a \in Hole(c.velocity, Len(m.velocities))
      BY <2>3, <3>1
    <3> QED
      BY <3>1, <3>2, ArrayFound
  <2>4. CASE a \in Hole(c.effort, n)
    <3>1. /\ c.effort \in Nat /\ 12 <= c.effort /\ m.efforts \in Seq(Int) /\ n = Len(m.efforts)
          /\ Carried(r, c.effort, m.efforts) /\ HasBytes(b, c.effort, Doubles(m.efforts))
      BY <1>1, <1>3, <1>5 DEF StateFor
    <3>2. a \in Hole(c.effort, Len(m.efforts))
      BY <2>4, <3>1
    <3> QED
      BY <3>1, <3>2, ArrayFound
  <2> QED
    BY <2>1, <2>2, <2>3, <2>4 DEF StateHoles, n
<1> HIDE DEF H
<1>7. LET image == [k \in 1 .. t.cursor |-> Byte(b, k - 1)]
       IN  IF n = 0 THEN IsPrefix(Header \o r, image) ELSE image = Header \o r
  <2>1. t.cursor <= SlotSize /\ \A a \in 0 .. SlotSize - 1 : a \notin H => b[a] = t.cells[a]
    BY <1>2, <1>3
  <2>2. n \in Nat /\ Joined(t, r, H, n) /\ IsSlot(b)
    BY <1>1, <1>3
  <2> QED
    BY <1>6, <2>1, <2>2, SlotIsReference
<1> QED
  BY <1>2, <1>4, <1>7 DEF n

(* A template that fits does not reach behind the slot. *)
LEMMA TemplateIsSlot ==
  ASSUME NEW t, NEW r, NEW H, NEW n, Joined(t, r, H, n), t.cursor <= SlotSize
  PROVE  IsSlot(t.cells)
<1>1. t.cells \in Buffers /\ t.cursor \in Nat /\ SlotSize \in Nat
  BY CdrAssumption DEF Joined, Image, Templates, CdrAssumption
<1>2. DOMAIN t.cells \subseteq Nat
  BY <1>1, BufferIsFunction
<1>3. /\ \A a \in DOMAIN t.cells : a < SlotSize \/ a < t.cursor
      /\ \A a \in Nat : a < SlotSize => a \in DOMAIN t.cells
  BY DEF Joined, Image
<1>4. \A a : a \in DOMAIN t.cells <=> a \in 0 .. SlotSize - 1
  BY <1>1, <1>2, <1>3
<1>5. DOMAIN t.cells = 0 .. SlotSize - 1
  BY <1>4
<1> QED
  BY <1>1, <1>5, SlotIsBuffer

CommandSlot(b, c, cells, st, values) ==
  /\ IsSlot(b) /\ HasBytes(b, 4, st) /\ HasBytes(b, c.values, Doubles(values))
  /\ \A a \in 0 .. SlotSize - 1 : a \notin CommandHoles(c) => b[a] = cells[a]

(* A slot that holds a command is its CDR; without joints, its CDR and     *)
(* padding.                                                                *)
LEMMA CommandConforms ==
  ASSUME NEW p, Fits(p), p.interface \in {Null} \cup Seq(Int), NEW m, CommandFor(m, p),
         NEW b, NEW c, NEW cells,
         c = zcdr_init_joint_command(p, EmptySlot).ctx,
         cells = zcdr_init_joint_command(p, EmptySlot).cells,
         c.payload_size <= SlotSize,
         CommandSlot(b, c, cells, Stamp(m), m.values)
  PROVE  LET image == [k \in 1 .. c.payload_size |-> Byte(b, k - 1)]
         IN  IF c.num_joints = 0 THEN IsPrefix(RefJointCommand(m), image)
             ELSE image = RefJointCommand(m)
<1> DEFINE n == c.num_joints
           r == CommandBody(m)
           H == CommandHoles(c)
           t == [cells |-> cells, cursor |-> c.payload_size]
<1>1. /\ Joined(t, r, H, n) /\ Continues(r, Stamp(m)) /\ Carried(r, c.values, m.values)
      /\ n = Len(p.names) /\ n \in Nat /\ c.values \in Nat
      /\ 12 <= c.values /\ c.values + 8 * n = c.payload_size
  BY CommandTemplate
<1>2. t.cursor = c.payload_size /\ t.cells = cells
  OBVIOUS
<1>3. /\ IsSlot(b) /\ HasBytes(b, 4, Stamp(m)) /\ HasBytes(b, c.values, Doubles(m.values))
      /\ \A a \in 0 .. SlotSize - 1 : a \notin H => b[a] = cells[a]
  BY DEF CommandSlot
<1>4. RefJointCommand(m) = Header \o r
  BY DEF RefJointCommand, CommandBody, Header
<1> HIDE DEF t, r, n
<1>5. ASSUME NEW a \in H PROVE a \in Nat /\ a >= 4 /\ a - 3 <= Len(r) /\ b[a] = r[a - 3]
  <2>1. CASE a \in StampHole
    <3>1. m.sec \in Int /\ m.nanosec \in Int
      BY DEF CommandFor
    <3>2. Continues(r, Stamp(m)) /\ HasBytes(b, 4, Stamp(m))
      BY <1>1, <1>3
    <3> QED
      BY <2>1, <3>1, <3>2, StampFound
  <2>2. CASE a \in Hole(c.values, n)
    <3>1. /\ c.values \in Nat /\ 12 <= c.values /\ m.values \in Seq(Int) /\ n = Len(m.values)
          /\ Carried(r, c.values, m.values) /\ HasBytes(b, c.values, Doubles(m.values))
      BY <1>1, <1>3 DEF CommandFor
    <3>2. a \in Hole(c.values, Len(m.values))
      BY <2>2, <3>1
    <3> QED
      BY <3>1, <3>2, ArrayFound
  <2> QED
    BY <2>1, <2>2 DEF CommandHoles, n
<1> HIDE DEF H
<1>6. LET image == [k \in 1 .. t.cursor |-> Byte(b, k - 1)]
      IN  IF n = 0 THEN IsPrefix(Header \o r, image) ELSE image = Header \o r
  <2>1. t.cursor <= SlotSize /\ \A a \in 0 .. SlotSize - 1 : a \notin H => b[a] = t.cells[a]
    BY <1>2, <1>3
  <2>2. n \in Nat /\ Joined(t, r, H, n) /\ IsSlot(b)
    BY <1>1, <1>3
  <2> QED
    BY <1>5, <2>1, <2>2, SlotIsReference
<1> QED
  BY <1>2, <1>4, <1>6 DEF n

(* Two messages patched into a command template, the second without values *)
LEMMA PatchCommand ==
  ASSUME NEW c, c.values \in Nat, 12 <= c.values, c.num_joints \in Nat,
         c.values + 8 * c.num_joints <= SlotSize,
         NEW cells, IsSlot(cells), NEW st \in Seq(Int), NEW st2 \in Seq(Int),
         Len(st) = 8, Len(st2) = 8, NEW ds \in Seq(Int), Len(ds) = c.num_joints
  PROVE  CommandSlot(memcpy(memcpy(memcpy(cells, 4, st), c.values, Doubles(ds)), 4, st2),
                     c, cells, st2, ds)
<1> DEFINE n == c.num_joints
           at == c.values
           X == Doubles(ds)
           b1 == memcpy(cells, 4, st)
           b2 == memcpy(b1, at, X)
           b3 == memcpy(b2, 4, st2)
<1>1. SlotSize \in Nat
  BY CdrAssumption DEF CdrAssumption
<1>2. X \in Seq(Int) /\ Len(X) = 8 * n
  BY DoublesBytes
<1>3. /\ at \in Nat /\ 12 <= at /\ n \in Nat /\ at + 8 * n <= SlotSize /\ 4 \in Nat
      /\ 4 + Len(st) <= SlotSize /\ 4 + Len(st2) <= SlotSize /\ at + Len(X) <= SlotSize
      /\ 4 + Len(st2) <= at
  BY <1>1, <1>2
<1>4. \A a : /\ a \in 4 .. 4 + 8 - 1 => a \in CommandHoles(c)
             /\ a \in at .. at + 8 * n - 1 => a \in CommandHoles(c)
  BY DEF CommandHoles, StampHole, Hole
<1> HIDE DEF n, at, X
<1>5. /\ IsSlot(b1)
      /\ \A a \in 0 .. SlotSize - 1 : a \notin 4 .. 4 + Len(st) - 1 => b1[a] = cells[a]
  BY <1>3, PatchIsLocal
<1> HIDE DEF b1
<1>6. /\ IsSlot(b2) /\ HasBytes(b2, at, X)
      /\ \A a \in 0 .. SlotSize - 1 : a \notin at .. at + Len(X) - 1 => b2[a] = b1[a]
  BY <1>2, <1>3, <1>5, PatchIsLocal
<1> HIDE DEF b2
<1>7. /\ IsSlot(b3) /\ HasBytes(b3, 4, st2)
      /\ \A a \in 0 .. SlotSize - 1 : a \notin 4 .. 4 + Len(st2) - 1 => b3[a] = b2[a]
  BY <1>3, <1>6, PatchIsLocal
<1>8. HasBytes(b3, at, X)
  BY <1>2, <1>3, <1>6, PatchKeeps
<1> HIDE DEF b3
<1>9. ASSUME NEW a \in 0 .. SlotSize - 1, a \notin CommandHoles(c) PROVE b3[a] = cells[a]
  <2>1. a \notin 4 .. 4 + 8 - 1 /\ a \notin at .. at + 8 * n - 1
    BY <1>4, <1>9
  <2>2. b3[a] = b2[a] /\ b2[a] = b1[a] /\ b1[a] = cells[a]
    BY <1>2, <1>5, <1>6, <1>7, <2>1
  <2> QED
    BY <2>2
<1> QED
  BY <1>7, <1>8, <1>9 DEF CommandSlot, b1, b2, b3, at, X

-----------------------------------------------------------------------------
(* The inductive invariant.  The parameters, the offsets and the status    *)
(* stay what init() made of them.  A state slot holds the message it       *)
(* stands for, and the template everywhere else.  A command slot is empty  *)
(* or has the stamp of the message it came from, and its values if the     *)
(* number of joints is right; out is what was read from such a slot.       *)

JointStates == [frame : Frames, names : NameLists, sec : Int, nanosec : Int,
                positions : Seq(Int), velocities : Seq(Int), efforts : Seq(Int)]

StateKept(s) ==
  LET m == sent[s]
  IN  /\ m \in JointStates /\ StateFor(m, params)
      /\ StateSlot(slots[s], ctx, zcdr_init_joint_state(params, EmptySlot).cells,
                   Stamp(m), m.positions, m.velocities, m.efforts)

StateIInv ==
  /\ params \in [frame : Frames, names : NameLists]
  /\ ctx = zcdr_init_joint_state(params, EmptySlot).ctx
  /\ status = init_base(ctx.payload_size)
  /\ active \in {0, 1} /\ count \in Nat
  /\ status = "OK" => /\ overrun = FALSE
                      /\ DOMAIN slots = {0, 1} /\ DOMAIN sent = {0, 1}
                      /\ \A s \in {0, 1} : StateKept(s)

CommandKept(s) ==
  LET m == sent[s]
      b == slots[s]
  IN  /\ IsSlot(b)
      /\ m = Null => b = EmptySlot
      /\ m # Null =>
           /\ b[4] = m.sec /\ b[8] = m.nanosec
           /\ Len(m.names) = ctx.num_joints =>
                /\ m.values \in Seq(Int) /\ Len(m.values) = ctx.num_joints
                /\ HasBytes(b, ctx.values, Doubles(m.values))

CommandIInv ==
  /\ params \in [frame : Frames, names : NameLists, interface : Interfaces]
  /\ ctx = zcdr_init_joint_command(params, EmptySlot).ctx
  /\ status = init_base(ctx.payload_size)
  /\ active \in {0, 1} /\ count \in Nat
  /\ status = "OK" => /\ overrun = FALSE
                      /\ DOMAIN slots = {0, 1} /\ DOMAIN sent = {0, 1}
                      /\ \A s \in {0, 1} : CommandKept(s)
  /\ ReadFindsValues

CdrIInv == StateIInv \/ CommandIInv

LEMMA StateParams ==
  ASSUME NEW p \in [frame : Frames, names : NameLists]
  PROVE  Fits(p) /\ "interface" \notin DOMAIN p /\ p.names \in NameLists
<1>1. p.frame \in Frames /\ p.names \in NameLists /\ DOMAIN p = {"frame", "names"}
  OBVIOUS
<1>2. "interface" \notin {"frame", "names"}
  OBVIOUS
<1> QED
  BY <1>1, <1>2, CdrAssumption DEF CdrAssumption, Fits

LEMMA CommandParams ==
  ASSUME NEW p \in [frame : Frames, names : NameLists, interface : Interfaces]
  PROVE  Fits(p) /\ "interface" \in DOMAIN p /\ p.interface \in {Null} \cup Seq(Int)
<1>1. /\ p.frame \in Frames /\ p.names \in NameLists /\ p.interface \in Interfaces
      /\ DOMAIN p = {"frame", "names", "interface"}
  OBVIOUS
<1> QED
  BY <1>1, CdrAssumption DEF CdrAssumption, Fits

(* init_base() accepts what fits. *)
LEMMA AcceptedFits ==
  ASSUME NEW size \in Nat
  PROVE  /\ init_base(size) = "OK" => size <= SlotSize
         /\ init_base(size) = "OK" \/ init_base(size) = "ENOMEM"
BY CdrAssumption DEF init_base, CdrAssumption

LEMMA SlotIsNotBeyond ==
  ASSUME NEW b, IsSlot(b)
  PROVE  Beyond(b) = FALSE
<1>1. DOMAIN b = 0 .. SlotSize - 1 /\ DOMAIN EmptySlot = 0 .. SlotSize - 1
  BY DEF IsSlot, EmptySlot
<1> QED
  BY <1>1 DEF Beyond

(* The message of the template: all zeros *)
LEMMA ZeroState ==
  ASSUME NEW p, Fits(p), NEW m,
         m = [frame |-> p.frame, names |-> p.names, sec |-> 0, nanosec |-> 0,
              positions |-> Zero(Len(p.names)), velocities |-> Zero(Len(p.names)),
              efforts |-> Zero(Len(p.names))]
  PROVE  StateFor(m, p)
<1> DEFINE z == Zero(Len(p.names))
<1>1. Len(p.names) \in Nat
  BY LenProperties DEF Fits
<1>2. z \in Seq(Int) /\ Len(z) = Len(p.names)
  BY <1>1, ZeroBytes
<1>3. /\ m.frame = p.frame /\ m.names = p.names /\ m.sec = 0 /\ m.nanosec = 0
      /\ m.positions = z /\ m.velocities = z /\ m.efforts = z
  OBVIOUS
<1> HIDE DEF z
<1> QED
  BY <1>2, <1>3 DEF StateFor

(* The offsets in the order of the arrays, none of them overlapping *)
LEMMA StateOffsets ==
  ASSUME NEW p, Fits(p), NEW c, c = zcdr_init_joint_state(p, EmptySlot).ctx
  PROVE  /\ c.payload_size \in Nat /\ c.num_joints = Len(p.names)
         /\ c.payload_size <= SlotSize => StateLayout(c)
<1> DEFINE m == [frame |-> p.frame, names |-> p.names, sec |-> 0, nanosec |-> 0,
                 positions |-> Zero(Len(p.names)), velocities |-> Zero(Len(p.names)),
                 efforts |-> Zero(Len(p.names))]
<1>1. StateFor(m, p)
  BY ZeroState
<1> HIDE DEF m
<1>2. /\ c.num_joints = Len(p.names) /\ c.timestamp = 4 /\ c.num_joints \in Nat
      /\ c.position \in Nat /\ c.velocity \in Nat /\ c.effort \in Nat
      /\ 12 <= c.position /\ c.position + 8 * c.num_joints <= c.velocity
      /\ c.velocity + 8 * c.num_joints <= c.effort
      /\ c.effort + 8 * c.num_joints = c.payload_size
  BY <1>1, StateTemplate
<1>3. c.payload_size \in Nat
  BY <1>2
<1> QED
  BY <1>2, <1>3 DEF StateLayout

LEMMA ZeroDoubles ==
  ASSUME NEW n \in Nat
  PROVE  /\ Len(Doubles(Zero(n))) = 8 * n
         /\ \A k \in 1 .. 8 * n : Doubles(Zero(n))[k] = 0
<1>1. Zero(n) \in Seq(Int) /\ Len(Zero(n)) = n /\ \A k \in 1 .. n : Zero(n)[k] = 0
  BY ZeroBytes
<1> DEFINE z == Zero(n)
<1>2. z \in Seq(Int) /\ Len(z) = n /\ \A k \in 1 .. n : z[k] = 0
  BY <1>1
<1> HIDE DEF z
<1>3. Len(Doubles(z)) = 8 * n /\ \A k \in 1 .. 8 * n : Doubles(z)[k] = z[(k - 1) \div 8 + 1]
  BY <1>2, DoublesBytes
<1>4. \A k \in 1 .. 8 * n : (k - 1) \div 8 + 1 \in 1 .. n
  OBVIOUS
<1>5. \A k \in 1 .. 8 * n : Doubles(z)[k] = 0
  BY <1>2, <1>3, <1>4
<1> QED
  BY <1>3, <1>5 DEF z

(* init() leaves a message of zeros in both slots. *)
LEMMA StateInit ==
  InitState /\ status = init_base(ctx.payload_size) /\ active = 0 /\ count = 0 => StateIInv
<1> SUFFICES ASSUME InitState, status = init_base(ctx.payload_size), active = 0, count = 0
             PROVE  StateIInv
  OBVIOUS
<1> DEFINE made == zcdr_init_joint_state(params, EmptySlot)
           z == Zero(Len(params.names))
           m == [frame |-> params.frame, names |-> params.names, sec |-> 0, nanosec |-> 0,
                 positions |-> z, velocities |-> z, efforts |-> z]
           n == ctx.num_joints
           r == StateBody(m)
           t == [cells |-> made.cells, cursor |-> ctx.payload_size]
           H == StateHoles(ctx)
<1>1. /\ params \in [frame : Frames, names : NameLists] /\ ctx = made.ctx
      /\ slots = [s \in {0, 1} |-> made.cells] /\ overrun = Beyond(made.cells)
      /\ sent = [s \in {0, 1} |-> m]
  BY DEF InitState
<1>2. Fits(params) /\ params.names \in NameLists /\ params.frame \in Frames
  BY <1>1, StateParams
<1>3. StateFor(m, params)
  BY <1>2, ZeroState
<1>4. ctx.payload_size \in Nat /\ (ctx.payload_size <= SlotSize => StateLayout(ctx))
  BY <1>1, <1>2, StateOffsets
<1>5. Len(params.names) \in Nat /\ z \in Seq(Int)
  BY <1>2, LenProperties, ZeroBytes DEF Fits
<1>6. m \in JointStates
  <2> HIDE DEF z
  <2> QED
    BY <1>2, <1>5 DEF JointStates
<1>7. /\ m.sec = 0 /\ m.nanosec = 0 /\ m.positions = z /\ m.velocities = z /\ m.efforts = z
  OBVIOUS
<1> HIDE DEF m
<1>8. /\ Joined(t, r, H, n) /\ n = Len(params.names)
  BY <1>1, <1>2, <1>3, StateTemplate
<1>9. t.cells = made.cells /\ t.cursor = ctx.payload_size
  OBVIOUS
<1> HIDE DEF t, r, made, z, n
<1>10. ASSUME status = "OK"
       PROVE  overrun = FALSE /\ StateSlot(made.cells, ctx, made.cells, Stamp(m), z, z, z)
  <2>1. ctx.payload_size <= SlotSize /\ StateLayout(ctx) /\ SlotSize \in Nat
    BY <1>4, <1>10, AcceptedFits, CdrAssumption DEF CdrAssumption
  <2>2. IsSlot(made.cells)
    BY <1>8, <1>9, <2>1, TemplateIsSlot
  <2>3. overrun = FALSE
    BY <1>1, <2>2, SlotIsNotBeyond
  <2>4. \A a \in H : a \in DOMAIN made.cells /\ made.cells[a] = 0
    <3>1. \A a \in H : /\ a \in Nat /\ a < ctx.payload_size
                       /\ (a \in DOMAIN made.cells => made.cells[a] = 0)
      BY <1>8, <1>9 DEF Joined, Image
    <3>2. DOMAIN made.cells = 0 .. SlotSize - 1
      BY <2>2 DEF IsSlot
    <3>3. \A a \in H : a \in 0 .. SlotSize - 1
      BY <1>4, <2>1, <3>1
    <3> QED
      BY <3>1, <3>2, <3>3
  <2>5. HasBytes(made.cells, 4, Stamp(m))
    <3>1. Len(Stamp(m)) = 8 /\ \A k \in 1 .. 8 : Stamp(m)[k] = 0
      BY <1>7, StampBytes
    <3>2. \A k \in 1 .. 8 : 4 + k - 1 \in H
      BY DEF StateHoles, StampHole
    <3> HIDE DEF H
    <3> QED
      BY <2>4, <3>1, <3>2 DEF HasBytes
  <2>6. ASSUME NEW at \in Nat, \A a \in at .. at + 8 * n - 1 : a \in H
        PROVE  HasBytes(made.cells, at, Doubles(z))
    <3>1. n \in Nat /\ Len(Doubles(z)) = 8 * n /\ \A k \in 1 .. 8 * n : Doubles(z)[k] = 0
      BY <1>5, <1>8, ZeroDoubles DEF z
    <3>2. \A k \in 1 .. 8 * n : at + k - 1 \in H
      BY <2>6, <3>1
    <3> HIDE DEF H
    <3> QED
      BY <2>4, <3>1, <3>2 DEF HasBytes
  <2>7. /\ HasBytes(made.cells, ctx.position, Doubles(z))
        /\ HasBytes(made.cells, ctx.velocity, Doubles(z))
        /\ HasBytes(made.cells, ctx.effort, Doubles(z))
    <3>1. /\ \A a \in ctx.position .. ctx.position + 8 * n - 1 : a \in H
          /\ \A a \in ctx.velocity .. ctx.velocity + 8 * n - 1 : a \in H
          /\ \A a \in ctx.effort .. ctx.effort + 8 * n - 1 : a \in H
      BY DEF StateHoles, Hole, n
    <3>2. ctx.position \in Nat /\ ctx.velocity \in Nat /\ ctx.effort \in Nat
      BY <2>1 DEF StateLayout
    <3> HIDE DEF H
    <3> QED
      BY <2>6, <3>1, <3>2
  <2> QED
    BY <2>2, <2>3, <2>5, <2>7 DEF StateSlot
<1>11. ASSUME status = "OK", NEW s \in {0, 1} PROVE StateKept(s)
  <2>1. sent[s] = m /\ slots[s] = made.cells
    BY <1>1
  <2>2. StateSlot(made.cells, ctx, made.cells, Stamp(m), m.positions, m.velocities, m.efforts)
    BY <1>7, <1>10, <1>11
  <2> QED
    BY <1>3, <1>6, <2>1, <2>2 DEF StateKept, made
<1>12. DOMAIN slots = {0, 1} /\ DOMAIN sent = {0, 1}
  BY <1>1
<1> QED
  BY <1>1, <1>10, <1>11, <1>12 DEF StateIInv, made

Kept(old, new) == IF new = Null THEN old ELSE new

(* An array of a message: absent, or with an element per joint *)
ArrayFor(x, n) == x = Null \/ (x \in Seq(Int) /\ Len(x) = n)

LEMMA KeptType ==
  ASSUME NEW n, NEW old \in Seq(Int), Len(old) = n, NEW x, ArrayFor(x, n)
  PROVE  Kept(old, x) \in Seq(Int) /\ Len(Kept(old, x)) = n
BY DEF Kept, ArrayFor

(* zcdr_serialize_joint_state() replaces the arrays that are given. *)
LEMMA SerializeState ==
  ASSUME StateLayout(ctx), NEW b, NEW cells, NEW st \in Seq(Int), Len(st) = 8,
         NEW pos \in Seq(Int), Len(pos) = ctx.num_joints,
         NEW vel \in Seq(Int), Len(vel) = ctx.num_joints,
         NEW eff \in Seq(Int), Len(eff) = ctx.num_joints,
         StateSlot(b, ctx, cells, st, pos, vel, eff),
         NEW m, Stamp(m) \in Seq(Int), Len(Stamp(m)) = 8,
         ArrayFor(m.positions, ctx.num_joints),
         ArrayFor(m.velocities, ctx.num_joints),
         ArrayFor(m.efforts, ctx.num_joints)
  PROVE  StateSlot(zcdr_serialize_joint_state(m, b), ctx, cells, Stamp(m),
                   Kept(pos, m.positions), Kept(vel, m.velocities), Kept(eff, m.efforts))
<1> DEFINE n == ctx.num_joints
           Put1(a, at, ds) == IF ds = Null THEN a ELSE memcpy(a, at, Doubles(ds))
           b1 == memcpy(b, 4, Stamp(m))
           b2 == Put1(b1, ctx.position, m.positions)
           b3 == Put1(b2, ctx.velocity, m.velocities)
           b4 == Put1(b3, ctx.effort, m.efforts)
           p2 == Kept(pos, m.positions)
           v2 == Kept(vel, m.velocities)
           e2 == Kept(eff, m.efforts)
<1>1. zcdr_serialize_joint_state(m, b) = b4
  BY DEF zcdr_serialize_joint_state, StateLayout
<1>2. /\ p2 \in Seq(Int) /\ Len(p2) = n /\ v2 \in Seq(Int) /\ Len(v2) = n
      /\ e2 \in Seq(Int) /\ Len(e2) = n
  BY KeptType
<1>3. StateSlot(b1, ctx, cells, Stamp(m), pos, vel, eff)
  BY PatchState
<1> HIDE DEF b1
<1>4. StateSlot(b2, ctx, cells, Stamp(m), p2, vel, eff)
  <2>1. CASE m.positions = Null
    BY <1>3, <2>1 DEF Kept
  <2>2. CASE m.positions # Null
    <3>1. m.positions \in Seq(Int) /\ Len(m.positions) = ctx.num_joints
      BY <2>2 DEF ArrayFor
    <3>2. StateSlot(memcpy(b1, ctx.position, Doubles(m.positions)), ctx, cells, Stamp(m),
                    m.positions, vel, eff)
      BY <1>3, <3>1, PatchState
    <3> QED
      BY <2>2, <3>2 DEF Kept
  <2> QED
    BY <2>1, <2>2
<1> HIDE DEF b2, p2
<1>5. StateSlot(b3, ctx, cells, Stamp(m), p2, v2, eff)
  <2>1. CASE m.velocities = Null
    BY <1>4, <2>1 DEF Kept
  <2>2. CASE m.velocities # Null
    <3>1. m.velocities \in Seq(Int) /\ Len(m.velocities) = ctx.num_joints
      BY <2>2 DEF ArrayFor
    <3>2. StateSlot(memcpy(b2, ctx.velocity, Doubles(m.velocities)), ctx, cells, Stamp(m),
                    p2, m.velocities, eff)
      BY <1>2, <1>4, <3>1, PatchState
    <3> QED
      BY <2>2, <3>2 DEF Kept
  <2> QED
    BY <2>1, <2>2
<1> HIDE DEF b3, v2
<1>6. StateSlot(b4, ctx, cells, Stamp(m), p2, v2, e2)
  <2>1. CASE m.efforts = Null
    BY <1>5, <2>1 DEF Kept
  <2>2. CASE m.efforts # Null
    <3>1. m.efforts \in Seq(Int) /\ Len(m.efforts) = ctx.num_joints
      BY <2>2 DEF ArrayFor
    <3>2. StateSlot(memcpy(b3, ctx.effort, Doubles(m.efforts)), ctx, cells, Stamp(m),
                    p2, v2, m.efforts)
      BY <1>2, <1>5, <3>1, PatchState
    <3> QED
      BY <2>2, <3>2 DEF Kept
  <2> QED
    BY <2>1, <2>2
<1> HIDE DEF b4
<1> QED
  BY <1>1, <1>6 DEF p2, v2

LEMMA ArrayBytes ==
  ASSUME NEW a \in Nat, NEW n \in Nat, NEW len \in Nat
  PROVE  Array(a, n, len) \in Seq(Int) /\ Len(Array(a, n, len)) = len
<1>1. Array(a, n, len) \in [1 .. len -> Int]
  BY DEF Array, Element
<1> QED
  BY <1>1, FunctionIsSeq

(* write_state(): the other slot takes the message, this one is kept. *)
LEMMA WriteKeepsStates ==
  ASSUME StateIInv, NEW given \in SUBSET (1 .. 3), write_state(given)
  PROVE  StateIInv'
<1> DEFINE n == count + 1
           slot == Other(active)
           array(a) == IF a \in given THEN Array(a, n, ctx.num_joints) ELSE Null
           m == [sec |-> n, nanosec |-> 50 + n, positions |-> array(1),
                 velocities |-> array(2), efforts |-> array(3)]
           old == sent[slot]
           new == [frame |-> old.frame, names |-> old.names,
                   sec |-> m.sec, nanosec |-> m.nanosec,
                   positions |-> Kept(old.positions, m.positions),
                   velocities |-> Kept(old.velocities, m.velocities),
                   efforts |-> Kept(old.efforts, m.efforts)]
           cells == zcdr_init_joint_state(params, EmptySlot).cells
<1>1. /\ status = "OK"
      /\ slots' = [slots EXCEPT ![slot] = zcdr_serialize_joint_state(m, @)]
      /\ overrun' = (overrun \/ Beyond(slots'[slot]))
      /\ sent' = [sent EXCEPT ![slot] = new]
      /\ active' = slot /\ count' = n
      /\ params' = params /\ ctx' = ctx /\ status' = status
  BY DEF write_state, Kept
<1>2. /\ params \in [frame : Frames, names : NameLists]
      /\ ctx = zcdr_init_joint_state(params, EmptySlot).ctx
      /\ status = init_base(ctx.payload_size)
      /\ active \in {0, 1} /\ count \in Nat /\ overrun = FALSE
      /\ DOMAIN slots = {0, 1} /\ DOMAIN sent = {0, 1}
      /\ \A s \in {0, 1} : StateKept(s)
  BY <1>1 DEF StateIInv
<1>3. slot \in {0, 1} /\ n \in Nat
  BY <1>2 DEF Other
<1>4. Fits(params)
  BY <1>2, StateParams
<1>5. StateLayout(ctx) /\ ctx.num_joints = Len(params.names) /\ ctx.num_joints \in Nat
  <2>1. ctx.payload_size \in Nat /\ ctx.num_joints = Len(params.names)
        /\ (ctx.payload_size <= SlotSize => StateLayout(ctx))
    BY <1>2, <1>4, StateOffsets
  <2>2. ctx.payload_size <= SlotSize
    BY <1>1, <1>2, <2>1, AcceptedFits
  <2> QED
    BY <2>1, <2>2 DEF StateLayout
<1>6. /\ old \in JointStates /\ StateFor(old, params)
      /\ StateSlot(slots[slot], ctx, cells, Stamp(old), old.positions, old.velocities, old.efforts)
  <2> HIDE DEF slot
  <2> QED
    BY <1>2, <1>3 DEF StateKept
<1>7. ArrayFor(array(1), ctx.num_joints) /\ ArrayFor(array(2), ctx.num_joints)
      /\ ArrayFor(array(3), ctx.num_joints)
  <2>1. ASSUME NEW a \in Nat PROVE ArrayFor(array(a), ctx.num_joints)
    <3>1. Array(a, n, ctx.num_joints) \in Seq(Int)
          /\ Len(Array(a, n, ctx.num_joints)) = ctx.num_joints
      BY <1>3, <1>5, ArrayBytes
    <3> QED
      BY <3>1 DEF ArrayFor
  <2> QED
    BY <2>1
<1>8. /\ m.sec = n /\ m.nanosec = 50 + n /\ m.positions = array(1)
      /\ m.velocities = array(2) /\ m.efforts = array(3)
  OBVIOUS
<1> HIDE DEF m
<1>9. /\ ArrayFor(m.positions, ctx.num_joints) /\ ArrayFor(m.velocities, ctx.num_joints)
      /\ ArrayFor(m.efforts, ctx.num_joints)
  <2> HIDE DEF array
  <2> QED
    BY <1>7, <1>8
<1>10. m.sec \in Nat /\ m.nanosec \in Nat
  BY <1>3, <1>8
<1> HIDE DEF array, n, slot
<1>11. /\ old.sec \in Int /\ old.nanosec \in Int /\ old.frame = params.frame
       /\ old.names = params.names
       /\ old.positions \in Seq(Int) /\ Len(old.positions) = ctx.num_joints
       /\ old.velocities \in Seq(Int) /\ Len(old.velocities) = ctx.num_joints
       /\ old.efforts \in Seq(Int) /\ Len(old.efforts) = ctx.num_joints
  BY <1>5, <1>6 DEF StateFor
<1> DEFINE pos == Kept(old.positions, m.positions)
           vel == Kept(old.velocities, m.velocities)
           eff == Kept(old.efforts, m.efforts)
<1>12. /\ pos \in Seq(Int) /\ Len(pos) = ctx.num_joints
       /\ vel \in Seq(Int) /\ Len(vel) = ctx.num_joints
       /\ eff \in Seq(Int) /\ Len(eff) = ctx.num_joints
  <2> HIDE DEF old
  <2> QED
    BY <1>9, <1>11, KeptType
<1>13. /\ new.frame = old.frame /\ new.names = old.names /\ new.sec = m.sec
       /\ new.nanosec = m.nanosec /\ new.positions = pos /\ new.velocities = vel
       /\ new.efforts = eff /\ new \in JointStates
  <2> HIDE DEF old
  <2>1. old.frame \in Frames /\ old.names \in NameLists
    BY <1>6 DEF JointStates
  <2>2. new = [frame |-> old.frame, names |-> old.names, sec |-> m.sec,
               nanosec |-> m.nanosec, positions |-> pos, velocities |-> vel, efforts |-> eff]
    OBVIOUS
  <2> HIDE DEF new, pos, vel, eff
  <2> QED
    BY <1>10, <1>12, <2>1, <2>2 DEF JointStates
<1>14. Stamp(m) \in Seq(Int) /\ Len(Stamp(m)) = 8
       /\ Stamp(old) \in Seq(Int) /\ Len(Stamp(old)) = 8
  <2> HIDE DEF old
  <2> QED
    BY <1>10, <1>11, StampBytes
<1> DEFINE b == zcdr_serialize_joint_state(m, slots[slot])
<1>15. StateSlot(b, ctx, cells, Stamp(m), pos, vel, eff)
  <2> HIDE DEF old, cells
  <2> QED
    BY <1>5, <1>6, <1>9, <1>11, <1>14, SerializeState
<1>16. Stamp(new) = Stamp(m)
  <2> HIDE DEF new
  <2> QED
    BY <1>13 DEF Stamp
<1> HIDE DEF b, new, pos, vel, eff, old
<1>17. StateFor(new, params)
  BY <1>5, <1>10, <1>11, <1>12, <1>13 DEF StateFor
<1>18. slots'[slot] = b /\ sent'[slot] = new
  BY <1>1, <1>2, <1>3 DEF b
<1>19. \A s \in {0, 1} : s # slot => slots'[s] = slots[s] /\ sent'[s] = sent[s]
  BY <1>1, <1>2
<1>20. ASSUME NEW s \in {0, 1} PROVE StateKept(s)'
  <2>1. CASE s = slot
    <3>1. StateSlot(b, ctx, cells, Stamp(new), new.positions, new.velocities, new.efforts)
      BY <1>13, <1>15, <1>16
    <3> QED
      BY <1>1, <1>13, <1>17, <1>18, <2>1, <3>1 DEF StateKept
  <2>2. CASE s # slot
    <3>1. StateKept(s) /\ slots'[s] = slots[s] /\ sent'[s] = sent[s]
      BY <1>2, <1>19, <2>2
    <3> QED
      BY <1>1, <3>1 DEF StateKept
  <2> QED
    BY <2>1, <2>2
<1>21. overrun' = FALSE
  <2>1. IsSlot(slots'[slot])
    BY <1>15, <1>18 DEF StateSlot
  <2>2. Beyond(slots'[slot]) = FALSE
    BY <2>1, SlotIsNotBeyond
  <2> QED
    BY <1>1, <1>2, <2>2
<1>22. DOMAIN slots' = {0, 1} /\ DOMAIN sent' = {0, 1}
  BY <1>1, <1>2
<1>23. active' \in {0, 1} /\ count' \in Nat
  BY <1>1, <1>3
<1>24. /\ params' \in [frame : Frames, names : NameLists]
       /\ ctx' = zcdr_init_joint_state(params', EmptySlot).ctx
       /\ status' = init_base(ctx'.payload_size)
  BY <1>1, <1>2
<1> QED
  BY <1>20, <1>21, <1>22, <1>23, <1>24 DEF StateIInv

(* The values are the last bytes of the payload. *)
LEMMA CommandOffsets ==
  ASSUME NEW p, Fits(p), p.interface \in {Null} \cup Seq(Int),
         NEW c, c = zcdr_init_joint_command(p, EmptySlot).ctx
  PROVE  /\ c.payload_size \in Nat /\ c.num_joints = Len(p.names) /\ c.num_joints \in Nat
         /\ c.timestamp = 4 /\ c.values \in Nat /\ 12 <= c.values
         /\ c.values + 8 * c.num_joints = c.payload_size
         /\ c.payload_size <= SlotSize => IsSlot(zcdr_init_joint_command(p, EmptySlot).cells)
<1> DEFINE z == Zero(Len(p.names))
           m == [frame |-> p.frame, names |-> p.names, interface |-> p.interface,
                 sec |-> 0, nanosec |-> 0, values |-> z]
           cells == zcdr_init_joint_command(p, EmptySlot).cells
           t == [cells |-> cells, cursor |-> c.payload_size]
<1>1. Len(p.names) \in Nat
  BY LenProperties DEF Fits
<1>2. z \in Seq(Int) /\ Len(z) = Len(p.names)
  BY <1>1, ZeroBytes
<1>3. CommandFor(m, p)
  <2> HIDE DEF z
  <2> QED
    BY <1>2 DEF CommandFor
<1> HIDE DEF m, z
<1>4. /\ Joined(t, CommandBody(m), CommandHoles(c), Len(p.names))
      /\ c.num_joints = Len(p.names) /\ c.timestamp = 4 /\ c.num_joints \in Nat
      /\ c.values \in Nat /\ 12 <= c.values /\ c.values + 8 * c.num_joints = c.payload_size
  BY <1>3, CommandTemplate
<1>5. c.payload_size \in Nat
  BY <1>4
<1>6. t.cursor = c.payload_size /\ t.cells = cells
  OBVIOUS
<1> HIDE DEF t
<1>7. c.payload_size <= SlotSize => IsSlot(cells)
  BY <1>4, <1>6, TemplateIsSlot
<1> QED
  BY <1>4, <1>5, <1>7

LEMMA EmptyIsSlot == IsSlot(EmptySlot)
BY DEF IsSlot, EmptySlot

(* init() of a command codec leaves empty slots. *)
LEMMA CommandInit ==
  ASSUME InitCommand, status = init_base(ctx.payload_size), active = 0, count = 0,
         out = [ok |-> FALSE]
  PROVE  CommandIInv
<1> DEFINE made == zcdr_init_joint_command(params, EmptySlot)
<1>1. /\ params \in [frame : Frames, names : NameLists, interface : Interfaces]
      /\ ctx = made.ctx /\ overrun = Beyond(made.cells)
      /\ slots = [s \in {0, 1} |-> EmptySlot] /\ sent = [s \in {0, 1} |-> Null]
  BY DEF InitCommand
<1>2. Fits(params) /\ params.interface \in {Null} \cup Seq(Int)
  BY <1>1, CommandParams
<1>3. /\ ctx.payload_size \in Nat
      /\ ctx.payload_size <= SlotSize => IsSlot(made.cells)
  BY <1>1, <1>2, CommandOffsets
<1> HIDE DEF made
<1>4. ASSUME status = "OK" PROVE overrun = FALSE
  <2>1. IsSlot(made.cells)
    BY <1>3, <1>4, AcceptedFits
  <2> QED
    BY <1>1, <2>1, SlotIsNotBeyond
<1>5. ASSUME NEW s \in {0, 1} PROVE CommandKept(s)
  <2>1. sent[s] = Null /\ slots[s] = EmptySlot
    BY <1>1
  <2> QED
    BY <2>1, EmptyIsSlot DEF CommandKept
<1>6. DOMAIN slots = {0, 1} /\ DOMAIN sent = {0, 1}
  BY <1>1
<1>7. ReadFindsValues
  <2>1. ~out.ok
    OBVIOUS
  <2> QED
    BY <2>1 DEF ReadFindsValues
<1> QED
  BY <1>1, <1>4, <1>5, <1>6, <1>7 DEF CommandIInv, made

(* A payload that fills the slot up to the size that was agreed has its    *)
(* stamp at offset 4 and its values before the end, whatever is between.   *)
LEMMA ReceivedCommand ==
  ASSUME NEW m, Fits(m), m.interface \in {Null} \cup Seq(Int), CommandFor(m, m),
         NEW b, IsSlot(b), NEW d, d = memcpy(b, 0, RefJointCommand(m)),
         NEW size \in Nat, Len(RefJointCommand(m)) = size, size <= SlotSize
  PROVE  /\ IsSlot(d) /\ d[4] = m.sec /\ d[8] = m.nanosec
         /\ \A at \in Nat : 12 <= at /\ at + 8 * Len(m.values) = size
                              => HasBytes(d, at, Doubles(m.values))
<1> DEFINE r == CommandBody(m)
           n == Len(m.values)
           w == Header \o r
<1>1. /\ r \in Seq(Int) /\ Continues(r, Stamp(m)) /\ Len(r) \in Nat
      /\ \A k \in 1 .. 8 * n : r[Len(r) - 8 * n + k] = Doubles(m.values)[k]
  BY CommandEnds
<1>2. RefJointCommand(m) = w
  BY DEF RefJointCommand, CommandBody, Header
<1>3. m.sec \in Int /\ m.nanosec \in Int /\ m.values \in Seq(Int)
  BY DEF CommandFor
<1>4. n \in Nat /\ Len(Doubles(m.values)) = 8 * n
  BY <1>3, DoublesBytes
<1> HIDE DEF r, n
<1>5. Header \in Seq(Int) /\ Len(Header) = 4
  BY DEF Header
<1>6. /\ Header \o r \in Seq(Int) /\ Len(Header \o r) = Len(Header) + Len(r)
      /\ \A k \in 1 .. Len(r) : (Header \o r)[Len(Header) + k] = r[k]
  BY <1>1, <1>5, CatBytes
<1>7. w \in Seq(Int) /\ Len(w) = 4 + Len(r) /\ \A k \in 1 .. Len(r) : w[4 + k] = r[k]
  BY <1>5, <1>6
<1> HIDE DEF w
<1>8. Len(w) = size /\ 0 \in Nat /\ 0 + Len(w) <= SlotSize /\ d = memcpy(b, 0, w)
  BY <1>2, <1>7
<1>9. IsSlot(d) /\ HasBytes(d, 0, w)
  BY <1>7, <1>8, PatchIsLocal
<1>10. ASSUME NEW k \in 1 .. Len(r) PROVE k + 3 \in DOMAIN d /\ d[k + 3] = r[k]
  <2>1. 4 + k \in 1 .. Len(w) /\ 0 + (4 + k) - 1 = k + 3
    BY <1>1, <1>7
  <2> QED
    BY <1>7, <1>9, <2>1 DEF HasBytes
<1>11. d[4] = m.sec /\ d[8] = m.nanosec
  <2>1. Len(Stamp(m)) = 8 /\ Stamp(m)[1] = m.sec /\ Stamp(m)[5] = m.nanosec
    BY <1>3, StampBytes
  <2>2. Len(r) >= 8 /\ \A k \in 1 .. 8 : r[k] = Stamp(m)[k]
    BY <1>1, <2>1 DEF Continues
  <2>3. 1 \in 1 .. Len(r) /\ 5 \in 1 .. Len(r) /\ 1 + 3 = 4 /\ 5 + 3 = 8
    <3>1. Len(r) \in Nat /\ Len(r) >= 8
      BY <1>1, <2>2
    <3> QED
      BY <3>1
  <2>4. d[1 + 3] = r[1] /\ d[5 + 3] = r[5]
    BY <1>10, <2>3
  <2> QED
    BY <2>1, <2>2, <2>3, <2>4
<1>12. ASSUME NEW at \in Nat, 12 <= at, at + 8 * n = size
       PROVE  HasBytes(d, at, Doubles(m.values))
  <2>1. ASSUME NEW k \in 1 .. 8 * n
        PROVE  at + k - 1 \in DOMAIN d /\ d[at + k - 1] = Doubles(m.values)[k]
    <3> DEFINE i == Len(r) - 8 * n + k
    <3>1. Len(r) = at + 8 * n - 4
      <4>1. Len(r) \in Nat /\ n \in Nat /\ 4 + Len(r) = at + 8 * n
        BY <1>1, <1>4, <1>7, <1>8, <1>12
      <4> QED
        BY <4>1
    <3>2. i = at - 4 + k
      BY <1>4, <3>1
    <3>3. i \in 1 .. Len(r) /\ i + 3 = at + k - 1
      BY <1>4, <1>12, <3>1, <3>2
    <3>4. r[i] = Doubles(m.values)[k]
      BY <1>1
    <3> HIDE DEF i
    <3>5. i + 3 \in DOMAIN d /\ d[i + 3] = r[i]
      BY <1>10, <3>3
    <3> QED
      BY <3>3, <3>4, <3>5
  <2> QED
    BY <1>4, <2>1 DEF HasBytes
<1> QED
  BY <1>9, <1>11, <1>12 DEF n

(* on_transport_cmd_cb(): a payload of another size changes nothing. *)
LEMMA ReceiveKeepsCommands ==
  ASSUME CommandIInv, NEW frame \in Frames, NEW names \in NameLists,
         NEW interface \in Interfaces, Receive(frame, names, interface)
  PROVE  CommandIInv'
<1> DEFINE n == count + 1
           slot == Other(active)
           x == Array(4, n, Len(names))
           m == [frame |-> frame, names |-> names, interface |-> interface,
                 sec |-> n, nanosec |-> 50 + n, values |-> x]
           payload == RefJointCommand(m)
<1>1. /\ status = "OK" /\ count' = count + 1
      /\ overrun' = (overrun \/ Beyond(slots'[active']))
      /\ params' = params /\ ctx' = ctx /\ status' = status /\ out' = out /\ source' = source
      /\ IF Len(payload) # ctx.payload_size
         THEN slots' = slots /\ sent' = sent /\ active' = active
         ELSE /\ slots' = [slots EXCEPT ![slot] = memcpy(slots[slot], 0, payload)]
              /\ sent' = [sent EXCEPT ![slot] = m] /\ active' = slot
  BY DEF Receive
<1>2. /\ params \in [frame : Frames, names : NameLists, interface : Interfaces]
      /\ ctx = zcdr_init_joint_command(params, EmptySlot).ctx
      /\ status = init_base(ctx.payload_size)
      /\ active \in {0, 1} /\ count \in Nat /\ overrun = FALSE
      /\ DOMAIN slots = {0, 1} /\ DOMAIN sent = {0, 1}
      /\ \A s \in {0, 1} : CommandKept(s)
      /\ ReadFindsValues
  BY <1>1 DEF CommandIInv
<1>3. slot \in {0, 1} /\ n \in Nat
  BY <1>2 DEF Other
<1>4. /\ ctx.payload_size \in Nat /\ ctx.payload_size <= SlotSize
      /\ ctx.values \in Nat /\ 12 <= ctx.values /\ ctx.num_joints \in Nat
      /\ ctx.values + 8 * ctx.num_joints = ctx.payload_size
  <2>1. Fits(params) /\ params.interface \in {Null} \cup Seq(Int)
    BY <1>2, CommandParams
  <2>2. /\ ctx.payload_size \in Nat
        /\ ctx.values \in Nat /\ 12 <= ctx.values /\ ctx.num_joints \in Nat
        /\ ctx.values + 8 * ctx.num_joints = ctx.payload_size
    BY <1>2, <2>1, CommandOffsets
  <2>3. ctx.payload_size <= SlotSize
    BY <1>1, <1>2, <2>2, AcceptedFits
  <2> QED
    BY <2>2, <2>3
<1>5. /\ frame \in {Null} \cup Seq(Int) /\ names \in Seq(Seq(Int)) /\ Len(names) \in Nat
      /\ interface \in {Null} \cup Seq(Int)
  BY CdrAssumption, LenProperties DEF CdrAssumption
<1>6. x \in Seq(Int) /\ Len(x) = Len(names)
  BY <1>3, <1>5, ArrayBytes
<1> HIDE DEF x
<1>7. /\ m.frame = frame /\ m.names = names /\ m.interface = interface /\ m.sec = n
      /\ m.nanosec = 50 + n /\ m.values = x
  OBVIOUS
<1>8. m # Null
  <2>1. m \in JointCommand
    <3> HIDE DEF n
    <3> QED
      BY <1>3, <1>6 DEF JointCommand
  <2> QED
    BY <2>1, CdrAssumption DEF CdrAssumption
<1> HIDE DEF m
<1>9. Fits(m) /\ CommandFor(m, m) /\ m.interface \in {Null} \cup Seq(Int)
  <2>1. m.sec \in Int /\ m.nanosec \in Int
    BY <1>3, <1>7
  <2> QED
    BY <1>5, <1>6, <1>7, <2>1 DEF Fits, CommandFor
<1> HIDE DEF n, slot
<1>10. \A s \in {0, 1} : IsSlot(slots[s])
  BY <1>2 DEF CommandKept
<1>11. ASSUME NEW s \in {0, 1} PROVE CommandKept(s)' /\ IsSlot(slots'[s])
  <2>1. CASE slots'[s] = slots[s] /\ sent'[s] = sent[s]
    BY <1>1, <1>2, <1>10, <2>1 DEF CommandKept
  <2>2. CASE Len(payload) = ctx.payload_size /\ s = slot
    <3> DEFINE d == memcpy(slots[slot], 0, payload)
    <3>1. slots'[s] = d /\ sent'[s] = m
      BY <1>1, <1>2, <2>2
    <3>2. IsSlot(slots[slot])
      BY <1>3, <1>10
    <3>3. /\ IsSlot(d) /\ d[4] = m.sec /\ d[8] = m.nanosec
          /\ \A at \in Nat : 12 <= at /\ at + 8 * Len(m.values) = ctx.payload_size
                               => HasBytes(d, at, Doubles(m.values))
      BY <1>4, <1>9, <2>2, <3>2, ReceivedCommand
    <3> HIDE DEF d
    <3>4. ASSUME Len(m.names) = ctx.num_joints
          PROVE  /\ m.values \in Seq(Int) /\ Len(m.values) = ctx.num_joints
                 /\ HasBytes(d, ctx.values, Doubles(m.values))
      <4>1. m.values \in Seq(Int) /\ Len(m.values) = ctx.num_joints
        BY <1>6, <1>7, <3>4
      <4>2. ctx.values + 8 * Len(m.values) = ctx.payload_size
        BY <1>4, <4>1
      <4> QED
        BY <1>4, <3>3, <4>1, <4>2
    <3> QED
      BY <1>1, <1>8, <3>1, <3>3, <3>4 DEF CommandKept
  <2>3. \/ slots'[s] = slots[s] /\ sent'[s] = sent[s]
        \/ Len(payload) = ctx.payload_size /\ s = slot
    BY <1>1, <1>2
  <2> QED
    BY <2>1, <2>2, <2>3
<1>12. active' \in {0, 1} /\ count' \in Nat
  BY <1>1, <1>2, <1>3
<1>13. overrun' = FALSE
  <2>1. Beyond(slots'[active']) = FALSE
    BY <1>11, <1>12, SlotIsNotBeyond
  <2> QED
    BY <1>1, <1>2, <2>1
<1>14. DOMAIN slots' = {0, 1} /\ DOMAIN sent' = {0, 1}
  BY <1>1, <1>2
<1>15. ReadFindsValues'
  BY <1>1, <1>2 DEF ReadFindsValues, IsCommand
<1>16. /\ params' \in [frame : Frames, names : NameLists, interface : Interfaces]
       /\ ctx' = zcdr_init_joint_command(params', EmptySlot).ctx
       /\ status' = init_base(ctx'.payload_size)
  BY <1>1, <1>2
<1> QED
  BY <1>11, <1>12, <1>13, <1>14, <1>15, <1>16 DEF CommandIInv

(* read_command() finds what its slot stands for. *)
LEMMA ReadKeepsCommands ==
  ASSUME CommandIInv, read_command
  PROVE  CommandIInv'
<1> DEFINE b == slots[active]
           m == sent[active]
           n == ctx.num_joints
<1>1. /\ status = "OK"
      /\ out' = zcdr_deserialize_joint_command(b, ctx.payload_size) /\ source' = m
      /\ params' = params /\ ctx' = ctx /\ slots' = slots /\ active' = active
      /\ status' = status /\ sent' = sent /\ count' = count /\ overrun' = overrun
  BY DEF read_command
<1>2. /\ params \in [frame : Frames, names : NameLists, interface : Interfaces]
      /\ ctx = zcdr_init_joint_command(params, EmptySlot).ctx
      /\ CommandKept(active)
  BY <1>1 DEF CommandIInv
<1>3. /\ ctx.payload_size \in Nat /\ ctx.payload_size <= SlotSize /\ SlotSize \in Nat
      /\ ctx.values \in Nat /\ 12 <= ctx.values /\ n \in Nat /\ ctx.timestamp = 4
      /\ ctx.values + 8 * n = ctx.payload_size
  <2>1. Fits(params) /\ params.interface \in {Null} \cup Seq(Int)
    BY <1>2, CommandParams
  <2>2. /\ ctx.payload_size \in Nat /\ ctx.timestamp = 4
        /\ ctx.values \in Nat /\ 12 <= ctx.values /\ n \in Nat
        /\ ctx.values + 8 * n = ctx.payload_size
    BY <1>2, <2>1, CommandOffsets
  <2>3. ctx.payload_size <= SlotSize
    BY <1>1, <2>2, AcceptedFits DEF CommandIInv
  <2> QED
    BY <2>2, <2>3, CdrAssumption DEF CdrAssumption
<1>4. /\ m = Null => b = EmptySlot
      /\ m # Null => /\ b[4] = m.sec /\ b[8] = m.nanosec
                     /\ Len(m.names) = n => /\ m.values \in Seq(Int) /\ Len(m.values) = n
                                            /\ HasBytes(b, ctx.values, Doubles(m.values))
  BY <1>2 DEF CommandKept
<1>5. /\ out'.sec = b[4] /\ out'.nanosec = b[8] /\ out'.values = LoadDoubles(b, ctx.values, n)
  <2>1. ~(ctx.payload_size < ctx.payload_size) /\ ctx.timestamp + 4 = 8
    BY <1>3
  <2>2. out' = [ok |-> TRUE, sec |-> b[4], nanosec |-> b[8],
                values |-> LoadDoubles(b, ctx.values, n)]
    BY <1>1, <1>3, <2>1 DEF zcdr_deserialize_joint_command
  <2> QED
    BY <2>2
<1> HIDE DEF b, m, n
<1>6. ASSUME m = Null PROVE out'.sec = 0 /\ out'.values = Zero(n)
  <2>1. b = EmptySlot /\ DOMAIN b = 0 .. SlotSize - 1
        /\ \A a \in 0 .. SlotSize - 1 : b[a] = 0
    BY <1>4, <1>6 DEF EmptySlot
  <2>2. 4 \in 0 .. SlotSize - 1
    BY <1>3
  <2>3. Zero(n) \in Seq(Int) /\ Len(Zero(n)) = n
    BY <1>3, ZeroBytes
  <2>4. HasBytes(b, ctx.values, Doubles(Zero(n)))
    <3>1. Len(Doubles(Zero(n))) = 8 * n /\ \A k \in 1 .. 8 * n : Doubles(Zero(n))[k] = 0
      BY <1>3, ZeroDoubles
    <3>2. ASSUME NEW k \in 1 .. 8 * n PROVE ctx.values + k - 1 \in 0 .. SlotSize - 1
      BY <1>3
    <3> QED
      BY <2>1, <3>1, <3>2 DEF HasBytes
  <2>5. LoadDoubles(b, ctx.values, Len(Zero(n))) = Zero(n)
    <3> DEFINE z == Zero(n)
    <3>1. z \in Seq(Int) /\ HasBytes(b, ctx.values, Doubles(z))
      BY <2>3, <2>4
    <3> HIDE DEF z
    <3>2. LoadDoubles(b, ctx.values, Len(z)) = z
      BY <1>3, <3>1, LoadFindsDoubles
    <3> QED
      BY <3>2 DEF z
  <2> QED
    BY <1>5, <2>1, <2>2, <2>3, <2>5
<1>7. ASSUME m # Null, Len(m.names) = n PROVE out'.values = m.values
  <2>1. /\ m.values \in Seq(Int) /\ Len(m.values) = n
        /\ HasBytes(b, ctx.values, Doubles(m.values))
    BY <1>4, <1>7
  <2>2. LoadDoubles(b, ctx.values, Len(m.values)) = m.values
    BY <1>3, <2>1, LoadFindsDoubles
  <2> QED
    BY <1>5, <2>1, <2>2
<1>8. ReadFindsValues'
  BY <1>1, <1>4, <1>5, <1>6, <1>7 DEF ReadFindsValues, n
<1> QED
  BY <1>1, <1>8 DEF CommandIInv, CommandKept

(* A codec is for states or for commands. *)
LEMMA KindsDiffer ==
  /\ StateIInv => ~IsCommand
  /\ CommandIInv => IsCommand
BY StateParams, CommandParams DEF StateIInv, CommandIInv, IsCommand

LEMMA CdrInitIInv == CdrInit => CdrIInv
BY StateInit, CommandInit DEF CdrInit, CdrIInv

LEMMA CdrNextIInv == CdrIInv /\ [CdrNext]_cdrVars => CdrIInv'
<1> SUFFICES ASSUME CdrIInv, [CdrNext]_cdrVars PROVE CdrIInv'
  OBVIOUS
<1>1. CASE UNCHANGED cdrVars
  <2>1. StateIInv => StateIInv'
    BY <1>1 DEF cdrVars, StateIInv, StateKept
  <2>2. CommandIInv => CommandIInv'
    <3>1. ReadFindsValues => ReadFindsValues'
      BY <1>1 DEF cdrVars, ReadFindsValues, IsCommand
    <3> QED
      BY <1>1, <3>1 DEF cdrVars, CommandIInv, CommandKept
  <2> QED
    BY <2>1, <2>2 DEF CdrIInv
<1>2. ASSUME NEW given \in SUBSET (1 .. 3), write_state(given) PROVE CdrIInv'
  <2>1. StateIInv
    BY <1>2, KindsDiffer DEF CdrIInv, write_state
  <2> QED
    BY <1>2, <2>1, WriteKeepsStates DEF CdrIInv
<1>3. ASSUME NEW f \in Frames, NEW l \in NameLists, NEW i \in Interfaces, Receive(f, l, i)
      PROVE  CdrIInv'
  <2>1. CommandIInv
    BY <1>3, KindsDiffer DEF CdrIInv, Receive
  <2> QED
    BY <1>3, <2>1, ReceiveKeepsCommands DEF CdrIInv
<1>4. CASE read_command
  <2>1. CommandIInv
    BY <1>4, KindsDiffer DEF CdrIInv, read_command
  <2> QED
    BY <1>4, <2>1, ReadKeepsCommands DEF CdrIInv
<1> QED
  BY <1>1, <1>2, <1>3, <1>4 DEF CdrNext

(* In every state of the codecs the slots are what init() and the messages *)
(* since then made of them: offsets and status as init() computed them,    *)
(* a state slot template and last message, a command slot the last payload *)
(* that had the agreed size.                                               *)
THEOREM CdrInductive == CdrSpec => []CdrIInv
BY CdrInitIInv, CdrNextIInv, PTL DEF CdrSpec

(* A client whose template or messages would not fit into its slots was    *)
(* refused by init(): init_base() compares the whole payload, and nothing  *)
(* that is copied later goes past it, for every slot size and all names.   *)
THEOREM OverrunsAreRefused == CdrSpec => []OverrunIsRefused
<1>1. CdrIInv => OverrunIsRefused
  <2>1. ASSUME StateIInv PROVE OverrunIsRefused
    <3>1. ctx.payload_size \in Nat
      BY <2>1, StateParams, StateOffsets DEF StateIInv
    <3> QED
      BY <2>1, <3>1, AcceptedFits DEF StateIInv, OverrunIsRefused
  <2>2. ASSUME CommandIInv PROVE OverrunIsRefused
    <3>1. ctx.payload_size \in Nat
      BY <2>2, CommandParams, CommandOffsets DEF CommandIInv
    <3> QED
      BY <2>2, <3>1, AcceptedFits DEF CommandIInv, OverrunIsRefused
  <2> QED
    BY <2>1, <2>2 DEF CdrIInv
<1> QED
  BY <1>1, CdrInductive, PTL

(* read_command() returns the stamp of the command in the slot, and its    *)
(* values whenever the sender has as many joints as the client, although   *)
(* on_transport_cmd_cb() compares nothing but the size of the payload.     *)
THEOREM ReadsFindValues == CdrSpec => []ReadFindsValues
<1>1. CdrIInv => ReadFindsValues
  BY KindsDiffer DEF CdrIInv, CommandIInv, ReadFindsValues
<1> QED
  BY <1>1, CdrInductive, PTL

(* What zcdr_deserialize_joint_state() finds in a state slot *)
LEMMA StateReadBack ==
  ASSUME StateLayout(ctx), NEW b, NEW cells, NEW m, m.sec \in Int, m.nanosec \in Int,
         m.positions \in Seq(Int), Len(m.positions) = ctx.num_joints,
         m.velocities \in Seq(Int), Len(m.velocities) = ctx.num_joints,
         m.efforts \in Seq(Int), Len(m.efforts) = ctx.num_joints,
         StateSlot(b, ctx, cells, Stamp(m), m.positions, m.velocities, m.efforts)
  PROVE  zcdr_deserialize_joint_state(b, ctx.payload_size) =
           [ok |-> TRUE, sec |-> m.sec, nanosec |-> m.nanosec, positions |-> m.positions,
            velocities |-> m.velocities, efforts |-> m.efforts]
<1>1. /\ HasBytes(b, 4, Stamp(m))
      /\ HasBytes(b, ctx.position, Doubles(m.positions))
      /\ HasBytes(b, ctx.velocity, Doubles(m.velocities))
      /\ HasBytes(b, ctx.effort, Doubles(m.efforts))
  BY DEF StateSlot
<1>2. /\ ctx.timestamp = 4 /\ ctx.timestamp + 4 = 8 /\ ~(ctx.payload_size < ctx.payload_size)
      /\ ctx.position \in Nat /\ ctx.velocity \in Nat /\ ctx.effort \in Nat
  <2>1. /\ ctx.timestamp = 4 /\ ctx.num_joints \in Nat
        /\ ctx.position \in Nat /\ ctx.velocity \in Nat /\ ctx.effort \in Nat
        /\ ctx.effort + 8 * ctx.num_joints = ctx.payload_size
    BY DEF StateLayout
  <2>2. ctx.payload_size \in Nat
    <3>1. \A e, k \in Nat : e + 8 * k \in Nat
      OBVIOUS
    <3> QED
      BY <2>1, <3>1
  <2> QED
    BY <2>1, <2>2
<1>3. b[4] = m.sec /\ b[8] = m.nanosec
  <2>1. Len(Stamp(m)) = 8 /\ Stamp(m)[1] = m.sec /\ Stamp(m)[5] = m.nanosec
    BY StampBytes
  <2>2. b[4 + 1 - 1] = Stamp(m)[1] /\ b[4 + 5 - 1] = Stamp(m)[5]
    BY <1>1, <2>1 DEF HasBytes
  <2> QED
    BY <2>1, <2>2
<1>4. /\ LoadDoubles(b, ctx.position, Len(m.positions)) = m.positions
      /\ LoadDoubles(b, ctx.velocity, Len(m.velocities)) = m.velocities
      /\ LoadDoubles(b, ctx.effort, Len(m.efforts)) = m.efforts
  BY <1>1, <1>2, LoadFindsDoubles
<1> QED
  BY <1>2, <1>3, <1>4 DEF zcdr_deserialize_joint_state

(* Whatever arrays write_state() is given, in whatever order, the slot it  *)
(* publishes is the CDR of the message meant, and reads back as it: for    *)
(* all names, frames and numbers of joints.                                *)
THEOREM JointStatesConform == CdrSpec => []JointStateConforms
<1>1. ASSUME CdrIInv PROVE JointStateConforms
  <2>1. SUFFICES ASSUME ~IsCommand, status = "OK"
                 PROVE  LET m     == sent[active]
                            image == [a \in 1 .. ctx.payload_size |-> Byte(slots[active], a - 1)]
                            back  == zcdr_deserialize_joint_state(slots[active], ctx.payload_size)
                        IN  /\ IF ctx.num_joints = 0 THEN IsPrefix(RefJointState(m), image)
                               ELSE image = RefJointState(m)
                            /\ back.ok /\ \A f \in DOMAIN back \ {"ok"} : back[f] = m[f]
    BY DEF JointStateConforms
  <2> DEFINE m == sent[active]
             b == slots[active]
             cells == zcdr_init_joint_state(params, EmptySlot).cells
             back == zcdr_deserialize_joint_state(b, ctx.payload_size)
  <2>2. StateIInv
    BY <1>1, <2>1, KindsDiffer DEF CdrIInv
  <2>3. /\ params \in [frame : Frames, names : NameLists]
        /\ ctx = zcdr_init_joint_state(params, EmptySlot).ctx
        /\ status = init_base(ctx.payload_size)
        /\ StateKept(active)
    BY <2>1, <2>2 DEF StateIInv
  <2>4. Fits(params)
    BY <2>3, StateParams
  <2>5. /\ ctx.payload_size \in Nat /\ ctx.num_joints = Len(params.names)
        /\ ctx.payload_size <= SlotSize => StateLayout(ctx)
    BY <2>3, <2>4, StateOffsets
  <2>6. ctx.payload_size <= SlotSize /\ StateLayout(ctx)
    BY <2>1, <2>3, <2>5, AcceptedFits
  <2>7. /\ StateFor(m, params)
        /\ StateSlot(b, ctx, cells, Stamp(m), m.positions, m.velocities, m.efforts)
    BY <2>3 DEF StateKept
  <2> HIDE DEF m, b
  <2>8. LET image == [k \in 1 .. ctx.payload_size |-> Byte(b, k - 1)]
        IN  IF ctx.num_joints = 0 THEN IsPrefix(RefJointState(m), image)
            ELSE image = RefJointState(m)
    BY <2>3, <2>4, <2>6, <2>7, StateConforms
  <2>9. back = [ok |-> TRUE, sec |-> m.sec, nanosec |-> m.nanosec, positions |-> m.positions,
                velocities |-> m.velocities, efforts |-> m.efforts]
    <3>1. /\ m.sec \in Int /\ m.nanosec \in Int
          /\ m.positions \in Seq(Int) /\ Len(m.positions) = ctx.num_joints
          /\ m.velocities \in Seq(Int) /\ Len(m.velocities) = ctx.num_joints
          /\ m.efforts \in Seq(Int) /\ Len(m.efforts) = ctx.num_joints
      BY <2>5, <2>7 DEF StateFor
    <3> QED
      BY <2>6, <2>7, <3>1, StateReadBack
  <2> HIDE DEF back
  <2>10. back.ok /\ \A f \in DOMAIN back \ {"ok"} : back[f] = m[f]
    <3>1. DOMAIN back = {"ok", "sec", "nanosec", "positions", "velocities", "efforts"}
      BY <2>9
    <3>2. /\ back["ok"] = TRUE /\ back["sec"] = m["sec"] /\ back["nanosec"] = m["nanosec"]
          /\ back["positions"] = m["positions"] /\ back["velocities"] = m["velocities"]
          /\ back["efforts"] = m["efforts"]
      BY <2>9
    <3> QED
      BY <3>1, <3>2
  <2> QED
    BY <2>8, <2>10 DEF m, b, back
<1> QED
  BY <1>1, CdrInductive, PTL

(* A command that the firmware serializes itself is the CDR of ROS 2 too,  *)
(* and zcdr_serialize_joint_command() without values keeps the ones before *)
(* it: for all names, frames, interfaces and numbers of joints.            *)
THEOREM JointCommandsConform == CdrSpec => []JointCommandConforms
<1>1. ASSUME CdrIInv PROVE JointCommandConforms
  <2> DEFINE n == ctx.num_joints
             x == Array(4, 1, n)
             first == [sec |-> 1, nanosec |-> 51, values |-> x]
             second == [sec |-> 2, nanosec |-> 52, values |-> Null]
             m == [frame |-> params.frame, names |-> params.names,
                   interface |-> params.interface, sec |-> 2, nanosec |-> 52, values |-> x]
             cells == zcdr_init_joint_command(params, EmptySlot).cells
             b == memcpy(memcpy(memcpy(cells, 4, Stamp(first)), ctx.values, Doubles(x)),
                         4, Stamp(second))
             buffer == zcdr_serialize_joint_command(second,
                         zcdr_serialize_joint_command(first, cells))
  <2>1. SUFFICES ASSUME IsCommand, status = "OK"
                 PROVE  LET image == [a \in 1 .. ctx.payload_size |-> Byte(buffer, a - 1)]
                        IN  IF n = 0 THEN IsPrefix(RefJointCommand(m), image)
                            ELSE image = RefJointCommand(m)
    BY DEF JointCommandConforms
  <2>2. CommandIInv
    BY <1>1, <2>1, KindsDiffer DEF CdrIInv
  <2>3. /\ params \in [frame : Frames, names : NameLists, interface : Interfaces]
        /\ ctx = zcdr_init_joint_command(params, EmptySlot).ctx
        /\ status = init_base(ctx.payload_size)
    BY <2>2 DEF CommandIInv
  <2>4. Fits(params) /\ params.interface \in {Null} \cup Seq(Int)
    BY <2>3, CommandParams
  <2>5. /\ ctx.payload_size \in Nat /\ n = Len(params.names) /\ n \in Nat
        /\ ctx.timestamp = 4 /\ ctx.values \in Nat /\ 12 <= ctx.values
        /\ ctx.values + 8 * n = ctx.payload_size
        /\ ctx.payload_size <= SlotSize => IsSlot(cells)
    BY <2>3, <2>4, CommandOffsets
  <2>6. ctx.payload_size <= SlotSize /\ IsSlot(cells)
    BY <2>1, <2>3, <2>5, AcceptedFits
  <2>7. x \in Seq(Int) /\ Len(x) = n /\ x # Null
    <3>1. 4 \in Nat /\ 1 \in Nat /\ n \in Nat
      BY <2>5
    <3> HIDE DEF n
    <3>2. x \in Seq(Int) /\ Len(x) = n
      BY <3>1, ArrayBytes
    <3> HIDE DEF x
    <3> QED
      BY <3>2, CdrAssumption DEF CdrAssumption
  <2> HIDE DEF x, cells, n
  <2>8. /\ first.sec = 1 /\ first.nanosec = 51 /\ first.values = x
        /\ second.sec = 2 /\ second.nanosec = 52 /\ second.values = Null
        /\ m.frame = params.frame /\ m.names = params.names /\ m.interface = params.interface
        /\ m.sec = 2 /\ m.nanosec = 52 /\ m.values = x
    OBVIOUS
  <2> HIDE DEF first, second, m
  <2>9. buffer = b
    BY <2>5, <2>7, <2>8 DEF zcdr_serialize_joint_command
  <2>10. Stamp(first) \in Seq(Int) /\ Len(Stamp(first)) = 8
         /\ Stamp(second) \in Seq(Int) /\ Len(Stamp(second)) = 8
    <3>1. /\ first.sec \in Int /\ first.nanosec \in Int
          /\ second.sec \in Int /\ second.nanosec \in Int
      BY <2>8
    <3> QED
      BY <3>1, StampBytes
  <2>11. CommandSlot(b, ctx, cells, Stamp(second), x)
    BY <2>5, <2>6, <2>7, <2>10, PatchCommand DEF n
  <2>12. Stamp(second) = Stamp(m)
    BY <2>8 DEF Stamp
  <2>13. CommandFor(m, params)
    BY <2>5, <2>7, <2>8 DEF CommandFor
  <2> HIDE DEF b, buffer
  <2>14. CommandSlot(b, ctx, cells, Stamp(m), m.values)
    BY <2>8, <2>11, <2>12
  <2>15. LET image == [k \in 1 .. ctx.payload_size |-> Byte(b, k - 1)]
         IN  IF ctx.num_joints = 0 THEN IsPrefix(RefJointCommand(m), image)
             ELSE image = RefJointCommand(m)
    BY <2>3, <2>4, <2>6, <2>13, <2>14, CommandConforms DEF cells
  <2> QED
    BY <2>9, <2>15 DEF n
<1> QED
  BY <1>1, CdrInductive, PTL
=============================================================================
