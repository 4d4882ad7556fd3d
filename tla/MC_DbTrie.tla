------------------------------ MODULE MC_DbTrie -----------------------------
(***************************************************************************)
(* Hashes have 32 bytes, of which only the first two are written out.  The *)
(* rest lengthens the path of every leaf, so that no leaf of an account or *)
(* a slot is short enough to be embedded; the values of the slots are long *)
(* to the same effect.                                                     *)
(***************************************************************************)
EXTENDS DbTrie

MC_Keys == {<<17, 17>>, <<17, 18>>, <<17, 33>>, <<18, 17>>, <<33, 18>>}
MC_Contracts == {<<17, 17>>}
MC_Places == {<<17, 17>>, <<18, 17>>, <<33, 18>>}
MC_Slots == {[length |-> 40]}
MC_Values == {[length |-> 1], [length |-> 33]}
=============================================================================
