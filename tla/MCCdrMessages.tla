--------------------------- MODULE MCCdrMessages ---------------------------
EXTENDS CdrMessages

(* A string of n characters *)
Str(n) == [k \in 1 .. n |-> 64 + k]

(* Every alignment of what follows frame_id, the names and interface_name; *)
(* strings that differ with and without a change of the payload size; two  *)
(* long names whose template does not fit into a slot                      *)
FramesUsed == {Null, Str(3), Str(4)}
NamesUsed == {<<>>, <<Str(7), Str(3)>>, <<Str(7), Str(8)>>, <<Str(40), Str(30)>>}
             \cup {<<Str(m)>> : m \in {1, 2, 8}}
InterfacesUsed == {Null, Str(2), Str(8)}
=============================================================================
