------------------------- MODULE MCInterfaceSchema -------------------------
EXTENDS InterfaceSchema

(* Sections of one component with up to three fields on one side, a small  *)
(* one on the other; sections of two components, with keys repeated or     *)
(* without a value; documents without a section.                           *)
MCTypes == {"float32", "double", "int32", "uint64", "int16", "uint8", "float33"}
Keys == <<"x", "y", "z">>
Comp(name, types) ==
  [name |-> name, fields |-> [i \in DOMAIN types |-> [name |-> Keys[i], type |-> types[i]]]]
Empty == [name |-> "b", fields |-> NoMap]
TwoX == [name |-> "b", fields |-> <<[name |-> "x", type |-> "int16"],
                                   [name |-> "y", type |-> "uint8"],
                                   [name |-> "x", type |-> "float32"]>>]

MCSections ==
  {Missing, NoMap, <<>>}
    \cup {<<Comp("a", ts)>> : ts \in UNION {[1 .. n -> MCTypes] : n \in 0 .. 2}}
    \cup {<<Comp("a", <<"uint8">>), Comp("b", <<t, "int16">>)>> : t \in MCTypes}
    \cup {<<Comp("a", <<"int16">>), Empty>>, <<Empty, Comp("b", <<"uint8">>)>>, <<TwoX>>,
          <<Comp("a", <<>>), Comp("b", <<"uint8">>), Comp("a", <<"int16">>)>>}
Short(t) == <<Comp("a", <<t>>)>>
MCDocs == [state : MCSections, command : {Short("int16"), Missing, NoMap, Short("float33")}]
            \cup [state : {<<Comp("a", <<"uint8">>), Comp("b", <<"float64">>)>>},
                  command : MCSections]

(* The types with fewer bits: uint8 has 2, int16 has 3, int32 has 4 and    *)
(* uint64 has 6; a float has 3 digits and a double 5, so that int16 fits   *)
(* into a float, int32 only into a double, and uint64 into neither.        *)
Digits(m, e) == {s * k * 2 ^ x : s \in {-1, 1}, k \in 0 .. m, x \in 0 .. e}
MCFloats  == Digits(7, 3)
MCDoubles == Digits(31, 3)
MCLimits  == [float32 |-> [lo |-> -59, hi |-> 59], int32 |-> [lo |-> -8, hi |-> 7],
              uint64 |-> [lo |-> 0, hi |-> 63], int16 |-> [lo |-> -4, hi |-> 3],
              uint8 |-> [lo |-> 0, hi |-> 3]]

(* A fraction, a negative number (which wraps in uint64), a number without *)
(* a double, and one beyond all floats. *)
MCNumbers == {3, -9, 71, 100}
=============================================================================
