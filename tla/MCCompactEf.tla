----------------------------- MODULE MCCompactEf -----------------------------
(***************************************************************************)
(* Lists for TLC: every list of up to MaxLength values, none above         *)
(* MaxValue.                                                               *)
(***************************************************************************)
EXTENDS CompactEf

CONSTANTS MaxLength, MaxValue

MCLists ==
  {l \in UNION {[1 .. k -> 0 .. MaxValue] : k \in 1 .. MaxLength} :
     \A p \in 1 .. Len(l) - 1 : l[p] <= l[p + 1]}
=============================================================================
