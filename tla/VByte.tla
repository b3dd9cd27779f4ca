-------------------------------- MODULE VByte --------------------------------
(***************************************************************************)
(* vbyte_block: a number in groups of bits, a byte for each, of which the  *)
(* last is marked. masked_vbyte_block, which the library of its name       *)
(* decodes, marks the others instead.                                      *)
(***************************************************************************)
EXTENDS Integers, Sequences

CONSTANTS
  group,           \* 128: how many values a group of bits has
  max_bytes        \* 5, for 32 bits

ASSUME VByteAssumption == group \in Nat \ {0, 1} /\ max_bytes \in Nat \ {0}

(* How many values that many groups have, and what one shifts by.          *)
group_power[k \in Nat] == IF k = 0 THEN 1 ELSE group * group_power[k - 1]

byte == 0 .. 2 * group - 1

bytes_for(val) ==
  CHOOSE d \in 1 .. max_bytes :
    (d < max_bytes => val < group_power[d]) /\ (d > 1 => val >= group_power[d - 1])

bytes_of(val) ==
  [k \in 1 .. bytes_for(val) |->
     ((val \div group_power[k - 1]) % group) + (IF k = bytes_for(val) THEN group ELSE 0)]

encode(out, in) ==
  LET buf[k \in 0 .. Len(in)] == IF k = 0 THEN out ELSE buf[k - 1] \o bytes_of(in[k])
  IN  buf[Len(in)]

(* The value of the bytes first .. last, and the next marked byte.         *)
value_of(bytes, first, last) ==
  LET v[k \in first - 1 .. last] ==
        IF k < first THEN 0 ELSE v[k - 1] + ((bytes[k] % group) * group_power[k - first])
  IN  v[last]

next_marked(bytes, first) ==
  CHOOSE k \in first .. Len(bytes) :
    bytes[k] >= group /\ \A j \in first .. k - 1 : bytes[j] < group

(* n numbers, of the bytes after the first read ones.                      *)
decode(bytes, read, n) ==
  LET last[k \in 0 .. n] == IF k = 0 THEN read ELSE next_marked(bytes, last[k - 1] + 1)
  IN  [k \in 1 .. n |-> value_of(bytes, last[k - 1] + 1, last[k])]
=============================================================================
