------------------------------ MODULE CompactEf ------------------------------
(***************************************************************************)
(* compact_ef: one partition of pef_sequence, written in a bit vector      *)
(* after what is there. The low bits of a value are stored as they are,    *)
(* the high ones in unary: the i-th value sets the bit high + i + 1. Some  *)
(* of the ones and of the zeros are sampled, and an enumerator walks the   *)
(* ones with a cursor of its own.                                          *)
(***************************************************************************)
EXTENDS BitVector

CONSTANTS
  linear_scan_threshold,
  log_sampling0,
  log_sampling1,
  Lists,         \* non-empty sequences that do not decrease
  BaseOffsets    \* how many bits there are before the partition

ASSUME CompactEfAssumption ==
  /\ linear_scan_threshold \in Nat
  /\ log_sampling0 \in Nat /\ log_sampling1 \in Nat
  /\ BaseOffsets \subseteq Nat
  /\ \A list \in Lists :
       /\ list \in Seq(Nat) /\ list # <<>>
       /\ \A i, j \in DOMAIN list : i <= j => list[i] <= list[j]
       (* What is read at a byte has this many bits: enough for a value,   *)
       (* and for any place among the high bits, of ids and their number.  *)
       /\ Len(list) + list[Len(list)] + 3 <= power[word_width - byte_width + 1]

VARIABLES
  list,
  base_offset,
  pc,          \* "writing", "written"
  i,           \* how many values have been written
  last_high,
  bvb,         \* the bit vector
  e            \* the enumerator: position, value, and its cursor on the ones

vars == <<list, base_offset, pc, i, last_high, bvb, e>>

(* offsets, for the universe that pef_sequence writes a partition with.    *)
n == Len(list)
universe == list[n] + 1
lower_bits == IF universe > n THEN msb(universe \div n) ELSE 0
high(v) == v \div power[lower_bits]

(* Mutant: one bit less, without the room for the first bit, which is 1.   *)
higher_bits_length_OneLess == n + high(universe)

higher_bits_length == n + high(universe) + 2
pointer_size == ceil_log2(higher_bits_length)
num_pointers0 == (higher_bits_length - n) \div power[log_sampling0]
num_pointers1 == n \div power[log_sampling1]
pointers0_offset == base_offset
pointers1_offset == pointers0_offset + num_pointers0 * pointer_size
higher_bits_offset == pointers1_offset + num_pointers1 * pointer_size
lower_bits_offset == higher_bits_offset + higher_bits_length
end == lower_bits_offset + n * lower_bits
-----------------------------------------------------------------------------
sampled(k, log) == k # 0 /\ k % power[log] = 0

set_pointer(bv, offset, ptr, bit) ==
  set_bits(bv, offset + (ptr - 1) * pointer_size, bits_of(bit), pointer_size)

(* Mutant: pointers to the zeros as if no ones came before them.           *)
set_ptr0s_WithoutRank(bv, begin, to, rank_end) ==
  LET first == ceil_div(begin - rank_end, power[log_sampling0])
      set[ptr0 \in Nat] ==
        IF ptr0 * power[log_sampling0] >= to - rank_end THEN bv
        ELSE IF ptr0 = 0 THEN set[1]
        ELSE set_pointer(set[ptr0 + 1], pointers0_offset, ptr0, ptr0 * power[log_sampling0])
  IN  set[first]

(* Pointers to the sampled ones of the zeros in begin .. to - 1, which     *)
(* come after rank_end ones.                                               *)
set_ptr0s(bv, begin, to, rank_end) ==
  LET first == ceil_div(begin - rank_end, power[log_sampling0])
      set[ptr0 \in Nat] ==
        IF ptr0 * power[log_sampling0] >= to - rank_end THEN bv
        ELSE IF ptr0 = 0 THEN set[1]
        ELSE set_pointer(set[ptr0 + 1], pointers0_offset, ptr0,
                         ptr0 * power[log_sampling0] + rank_end)
  IN  set[first]

WriteValue ==
  LET v == list[i + 1]
      bit == high(v) + i + 1
      with_high == set_bit(bvb, higher_bits_offset + bit)
      with_low == set_bits(with_high, lower_bits_offset + i * lower_bits,
                           bits_of(v % power[lower_bits]), lower_bits)
      with_ptr1 == IF sampled(i, log_sampling1)
                   THEN set_pointer(with_low, pointers1_offset, i \div power[log_sampling1], bit)
                   ELSE with_low
  IN
  /\ pc = "writing" /\ i < n
  /\ bvb' = set_ptr0s(with_ptr1, last_high + 1, bit, i)
  /\ last_high' = bit
  /\ i' = i + 1
  /\ UNCHANGED <<list, base_offset, pc, e>>

(* The enumerator's constructor leaves its cursor unset.                   *)
nowhere == [position |-> 0, buf |-> {}]

EndWrite ==
  /\ pc = "writing" /\ i = n
  /\ bvb' = set_ptr0s(bvb, last_high + 1, higher_bits_length, n)
  /\ pc' = "written"
  /\ e' = [position |-> n, value |-> universe, he |-> nowhere]
  /\ UNCHANGED <<list, base_offset, i, last_high>>
-----------------------------------------------------------------------------
low(position) ==
  number(get_word56(bvb, lower_bits_offset + position * lower_bits) \cap Mask(lower_bits))

read(position, he) ==
  (he.position - higher_bits_offset - position - 1) * power[lower_bits] + low(position)

At(position, value, he) == [position |-> position, value |-> value, he |-> he]
ReadAt(position, he) == At(position, read(position, he), he)
read_next_value(position, he) == ReadAt(position, next_one(bvb, he))
-----------------------------------------------------------------------------
pointer(offset, ptr) ==
  IF ptr = 0 THEN 0
  ELSE number(get_word56(bvb, offset + (ptr - 1) * pointer_size) \cap Mask(pointer_size))

(* The cursor at the place a pointer gives.                                *)
pointed(offset, ptr) == unary_iterator(bvb, higher_bits_offset + pointer(offset, ptr))

slow_move(en, position) ==
  LET ptr == position \div power[log_sampling1]
  IN  IF position > en.position /\ (position - en.position) \div power[log_sampling1] = 0
      THEN read_next_value(position, skip(bvb, en.he, position - en.position - 1))
      ELSE read_next_value(position, skip(bvb, pointed(pointers1_offset, ptr),
                                    position - ptr * power[log_sampling1]))

(* A short skip calls next as often as it skips.                           *)
move(en, position) ==
  LET he[k \in 0 .. position - en.position] ==
        IF k = 0 THEN en.he ELSE next_one(bvb, he[k - 1])
  IN  CASE position = en.position -> en
        [] position # en.position /\ position = n -> At(n, universe, en.he)
        [] position # en.position /\ position # n ->
             IF position > en.position /\ position - en.position <= linear_scan_threshold
             THEN ReadAt(position, he[position - en.position])
             ELSE slow_move(en, position)

(* Mutant: the position is not moved past the last value.                  *)
next_PastEnd(en) ==
  IF en.position + 1 < n THEN read_next_value(en.position + 1, en.he)
  ELSE At(en.position + 2, universe, en.he)

next(en) ==
  IF en.position + 1 < n THEN read_next_value(en.position + 1, en.he)
  ELSE At(en.position + 1, universe, en.he)

(* next_reader: the values from position on, read from the cursor he, up   *)
(* to the first that is not below the bound.                               *)
scan_geq(he, position, lower_bound) ==
  LET reader[p \in position .. n] ==
        IF p = n THEN At(n, universe, IF p = position THEN he ELSE reader[p - 1].he)
        ELSE read_next_value(p, IF p = position THEN he ELSE reader[p - 1].he)
  IN  reader[CHOOSE p \in position .. n :
               /\ p < n => reader[p].value >= lower_bound
               /\ \A q \in position .. p - 1 : reader[q].value < lower_bound]

slow_next_geq(en, lower_bound) ==
  LET h == high(lower_bound)
      diff == h - high(en.value)
      ptr == h \div power[log_sampling0]
      he == IF lower_bound > en.value /\ diff \div power[log_sampling0] = 0
            THEN skip0(bvb, en.he, diff)
            ELSE skip0(bvb, pointed(pointers0_offset, ptr), h - ptr * power[log_sampling0])
  IN  IF lower_bound >= universe THEN move(en, n)
      ELSE scan_geq(he, he.position - higher_bits_offset - h, lower_bound)

next_geq(en, lower_bound) ==
  IF lower_bound = en.value THEN en
  ELSE IF lower_bound > en.value
          /\ high(lower_bound) - high(en.value) <= linear_scan_threshold
       THEN scan_geq(en.he, en.position + 1, lower_bound)
       ELSE slow_next_geq(en, lower_bound)

(* Mutant: the search begins at the one of the position itself.            *)
prev_value_FromItself(en) ==
  LET prev_pos == en.position - 1
      prev_high == predecessor1(bvb, IF en.position < n THEN en.he.position
                                     ELSE lower_bits_offset - 1) - higher_bits_offset
  IN  IF en.position = 0 THEN 0
      ELSE (prev_high - prev_pos - 1) * power[lower_bits] + low(prev_pos)

(* The value before the position, from the one before the cursor's.        *)
prev_value(en) ==
  LET prev_pos == en.position - 1
      prev_high == predecessor1(bvb, IF en.position < n THEN en.he.position - 1
                                     ELSE lower_bits_offset - 1) - higher_bits_offset
  IN  IF en.position = 0 THEN 0
      ELSE (prev_high - prev_pos - 1) * power[lower_bits] + low(prev_pos)
-----------------------------------------------------------------------------
(* The bits before the partition are ones, the partition's are zeros.      *)
Init ==
  /\ list \in Lists
  /\ base_offset \in BaseOffsets
  /\ pc = "writing"
  /\ i = 0 /\ last_high = 0
  /\ LET set[k \in 0 .. base_offset] ==
           IF k = 0 THEN zeros(base_offset) ELSE set_bit(set[k - 1], k - 1)
     IN  bvb = zero_extend(set[base_offset], end - base_offset)
  /\ e = [position |-> 0, value |-> 0, he |-> nowhere]

Enumerate(en) ==
  /\ pc = "written"
  /\ e' = en
  /\ UNCHANGED <<list, base_offset, pc, i, last_high, bvb>>

Move == \E position \in 0 .. n : Enumerate(move(e, position))
Advance == e.position < n /\ Enumerate(next(e))
NextGeq == \E lower_bound \in 0 .. universe : Enumerate(next_geq(e, lower_bound))

Next == WriteValue \/ EndWrite \/ Move \/ Advance \/ NextGeq

Spec == Init /\ [][Next]_vars
-----------------------------------------------------------------------------
Promise == INSTANCE Enumerator

Plain(en) == [position |-> en.position, value |-> en.value]

Ones == {b \in 0 .. bvb.size - 1 : get_bits(bvb, b, 1) # {}}
BitOf(k) == higher_bits_offset + high(list[k + 1]) + k + 1

(* Types of the enumerator.                                                *)
TypeOK ==
  /\ pc \in {"writing", "written"}
  /\ bvb.size \in Nat /\ bvb.words \in Seq(Word)
  /\ e.position \in 0 .. n /\ e.value \in 0 .. universe
  /\ e.he.position \in 0 .. end /\ e.he.buf \in Word

(* The space reserved beforehand is enough: nothing is written over what   *)
(* comes before the partition, and no pointer, value or low bits over      *)
(* another (the assertions of compact_ef.hpp:87, 111, 118, in all words).  *)
FieldsIntact ==
  pc = "written" =>
    /\ bvb.size = end /\ Len(bvb.words) = words_for(end)
    /\ Ones \cap 0 .. base_offset - 1 = 0 .. base_offset - 1
    /\ Ones \cap higher_bits_offset .. lower_bits_offset - 1 = {BitOf(k) : k \in 0 .. n - 1}
    /\ \A k \in 0 .. n - 1 : low(k) = list[k + 1] % power[lower_bits]

(* Wherever calls have left it, the enumerator is as promised for its      *)
(* position, and its cursor has just consumed the one of that position:    *)
(* the short skips start there.                                            *)
CursorAtPosition ==
  pc = "written" =>
    /\ Plain(e) = Promise!moved(list, universe, e.position)
    /\ e.position < n =>
         /\ e.he.position = BitOf(e.position)
         /\ e.he.buf = WordAt(bvb.words, e.he.position \div word_width)
                         \ Mask((e.he.position % word_width) + 1)

(* Whatever has been called before, next_geq goes where it promises to,    *)
(* forwards or backwards, by short skips, pointers or long scans.          *)
NextGeqAsPromised ==
  pc = "written" =>
    \A lower_bound \in 0 .. universe :
      Plain(next_geq(e, lower_bound)) = Promise!found_geq(list, universe, Plain(e), lower_bound)

(* The value before is found through the cursor, or, past the end, through *)
(* the last one before the low bits, whatever calls have left the cursor.  *)
PrevValueKnown ==
  pc = "written" => prev_value(e) = IF e.position = 0 THEN 0 ELSE list[e.position]
=============================================================================
