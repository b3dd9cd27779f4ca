------------------------------ MODULE Enumerator ------------------------------
(***************************************************************************)
(* What an enumerator on a list promises, however the list is packed: it   *)
(* is at a position, with its value; past the last one the value is the    *)
(* universe, which is above all values. pef_sequence is built on this      *)
(* promise, which CompactEf is checked to keep.                            *)
(***************************************************************************)
EXTENDS Integers, Sequences

enumerator(position, value) == [position |-> position, value |-> value]

unpositioned(list, universe) == enumerator(Len(list), universe)

moved(list, universe, position) ==
  enumerator(position, IF position < Len(list) THEN list[position + 1] ELSE universe)

(* The first position whose value is not below lower_bound.                *)
FirstGeq(list, lower_bound) ==
  CHOOSE p \in 0 .. Len(list) :
    /\ p < Len(list) => list[p + 1] >= lower_bound
    /\ \A q \in 0 .. p - 1 : list[q + 1] < lower_bound

(* From e: e itself if its value is the bound, though others before it may *)
(* have the same value.                                                    *)
found_geq(list, universe, e, lower_bound) ==
  IF e.value = lower_bound THEN e
  ELSE moved(list, universe, FirstGeq(list, lower_bound))
=============================================================================
