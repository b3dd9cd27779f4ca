---------------------------- MODULE IntegerCodes ----------------------------
(***************************************************************************)
(* The codes of the header of pef_sequence. gamma: the length of n + 1 in  *)
(* unary and its bits below the highest; delta: the length in gamma. A     *)
(* reader gives a value and the bits_iterator it leaves.                   *)
(***************************************************************************)
EXTENDS BitVector

below_msb(nn) == bits_of(nn) \ {msb(nn)}

write_gamma(bv, n) ==
  LET l == msb(n + 1) IN append_bits(append_bits(bv, {l}, l + 1), below_msb(n + 1), l)

write_delta(bv, n) ==
  LET l == msb(n + 1) IN append_bits(write_gamma(bv, l), below_msb(n + 1), l)

(* The l bits after a length.                                              *)
read_rest(bv, l, it) ==
  LET rest == iterator_get_bits(bv, it, l) IN [val |-> rest.val + power[l] - 1, it |-> rest.it]

read_gamma(bv, it) ==
  LET length == iterator_skip_zeros(bv, it) IN read_rest(bv, length.val, length.it)

read_delta(bv, it) ==
  LET length == read_gamma(bv, it) IN read_rest(bv, length.val, length.it)
=============================================================================
