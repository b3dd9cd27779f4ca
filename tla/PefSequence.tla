----------------------------- MODULE PefSequence -----------------------------
(***************************************************************************)
(* pef_sequence: the raised nodes of a level, cut in partitions of a fixed *)
(* size, each with a base, an upper bound and an enumerator (Enumerator).  *)
(* access and find share the iterator m_it, which they leave where they    *)
(* stopped; at() moves it too, to know the bound of the range before.      *)
(***************************************************************************)
EXTENDS NodesSequence, CompactVector, IntegerCodes, SequencesExt

CONSTANT Levels   \* [from, pointers, ids]: nodes, their ranges, ids to look for

(* The bounds, and the places of the bits of the partitions, fit in what a *)
(* read at a byte is sure to give: 57 bits.                                *)
BitsSuffice(l) ==
  LET n == Len(l.from)
  IN  3 * n + raised(l.from, l.pointers)[n] < power[word_width - byte_width + 1]

ASSUME PefAssumption ==
  /\ linear_scan_threshold \in Nat \ {0}
  /\ partition_size \in Nat \ {0}
  /\ byte_width > 1
  /\ \A l \in Levels : WellFormedLevel(l) /\ BitsSuffice(l)

VARIABLES
  level,
  stored,    \* the raised values, which write() is given
  sequence,  \* what write() makes: the bits, the upper bounds, the partitions
  parts,     \* what a reader finds of every partition
  pc,        \* "idle", "searching", "bisecting", "answered", "walking", "undefined"
  m_it,      \* the shared iterator
  call,      \* the call that goes on, and what it asks
  result,
  walker     \* a client's iterator: the iterator, its range, the node it gave last

built == <<level, stored, sequence, parts>>
vars == <<level, stored, sequence, parts, pc, m_it, call, result, walker>>

Elements == INSTANCE Enumerator

m_size == Len(level.from)
m_universe == stored[m_size]
m_partitions == (m_size + partition_size - 1) \div partition_size
LeastOf(a, b) == IF a < b THEN a ELSE b

(* The values of partition p, from its base, the last value before them.   *)
base(p) == IF p = 0 THEN stored[1] ELSE stored[p * partition_size]
EndOf(p) == LeastOf(m_size, (p + 1) * partition_size)
cur_partition(p) ==
  [k \in 1 .. EndOf(p) - p * partition_size |->
     stored[p * partition_size + k] - base(p)]

(* The bits compact_ef takes for a list; what they are is in CompactEf.    *)
bits_taken(list) == Len(list) + Last(list) + 2

(* A single partition's header: its base, and its last value unless it is  *)
(* the only one, with 0 for a tight universe.                              *)
single_header ==
  LET back == Last(cur_partition(0))
      with_base == append_bits(no_bits, bits_of(base(0)), ceil_log2(m_universe + 1))
  IN  IF m_size = 1 THEN with_base
      ELSE write_delta(with_base, IF base(0) + back + 1 = m_universe THEN 0 ELSE back)

(* The header of several: where each but the first begins.                 *)
header(endpoints) ==
  LET endpoint_bits == ceil_log2(endpoints[m_partitions] + 1)
      written[p \in 0 .. m_partitions - 1] ==
        IF p = 0 THEN write_gamma(no_bits, endpoint_bits)
        ELSE append_bits(written[p - 1], bits_of(endpoints[p]), endpoint_bits)
  IN  written[m_partitions - 1]

(* write(). The bits of the partitions are taken to be ones.               *)
write ==
  LET endpoints[p \in 0 .. m_partitions] ==
        IF p = 0 THEN 0 ELSE endpoints[p - 1] + bits_taken(cur_partition(p - 1))
      first == IF m_partitions = 1 THEN single_header ELSE header(endpoints)
      all == endpoints[m_partitions]
      bounds == <<stored[1]>> \o [p \in 1 .. m_partitions |-> stored[EndOf(p - 1)]]
      begins == {first.size + endpoints[p] : p \in 0 .. m_partitions - 1}
  IN  [data |-> append(first, [size |-> all,
                             words |-> [k \in 1 .. words_for(all) |->
                                          Bits \cap Mask(all - (k - 1) * word_width)]]),
       upper_bounds |->
         IF m_partitions = 1 THEN resized(0, 0)
         ELSE fill(resized(m_partitions + 1, ceil_log2(m_universe + 1)), bounds),
       partitions |->
         [offset \in begins |->
            cur_partition(CHOOSE p \in 0 .. m_partitions - 1 : first.size + endpoints[p] = offset)]]
-----------------------------------------------------------------------------
(* The upper bound of index k; past the last it is of some other bits.     *)
UpperBound(k) == access_bits(sequence.upper_bounds, k)

(* The list of n values at an offset, if one begins there.                 *)
list_at(offset, n) ==
  LET lists == sequence.partitions
  IN  IF offset \in DOMAIN lists /\ Len(lists[offset]) = n THEN lists[offset]
      ELSE [k \in 1 .. n |-> garbage]

(* The header as the iterator's constructor reads it, of one partition or  *)
(* of several, and their endpoints as switch_partition does. ub is an int  *)
(* of 32 bits, enough for the nodes of a single partition. It is -1 if all *)
(* are the same, and with base 0 the upper bound wraps in the code; but no *)
(* range then has a second node, and no search compares it.                *)
read_single ==
  LET first == iterator_get_bits(sequence.data, bits_iterator(0), ceil_log2(m_universe + 1))
      delta == IF m_size > 1 THEN read_delta(sequence.data, first.it) ELSE first
      ub == IF m_size = 1 THEN 0
            ELSE IF delta.val # 0 THEN delta.val ELSE m_universe - first.val - 1
  IN  [base |-> first.val, upper_bound |-> first.val + ub,
       values |-> list_at(delta.it.pos, m_size)]

read_partition(p) ==
  LET endpoint_bits == read_gamma(sequence.data, bits_iterator(0))
      Endpoint(k) == get_bits(sequence.data, endpoint_bits.it.pos + k * endpoint_bits.val,
                              endpoint_bits.val)
      sequences_offset == endpoint_bits.it.pos + endpoint_bits.val * (m_partitions - 1)
  IN  [base |-> UpperBound(p), upper_bound |-> UpperBound(p + 1),
       values |-> list_at(sequences_offset + (IF p = 0 THEN 0 ELSE number(Endpoint(p - 1))),
                          EndOf(p) - p * partition_size)]

(* The list an iterator has at hand.                                       *)
Values(x) == parts[x.partition].values
Universe(x) == x.upper_bound - x.base + 1

enum_move(x, k) == [x EXCEPT !.enum = Elements!moved(Values(x), Universe(x), k)]

switch_partition(x, partition) ==
  LET y == [x EXCEPT
              !.partition = partition,
              !.begin = partition * partition_size,
              !.end = EndOf(partition),
              !.upper_bound = parts[partition].upper_bound,
              !.base = parts[partition].base]
  IN  [y EXCEPT !.enum = Elements!unpositioned(Values(y), Universe(y))]

slow_move(x) ==
  LET partition == IF x.position = m_size THEN m_partitions - 1
                   ELSE x.position \div partition_size
      y == IF m_partitions > 1 THEN switch_partition(x, partition) ELSE x
  IN  enum_move(y, x.position - y.begin)

(* Mutant: the end of the partition is taken for its last position.        *)
move_EndIncluded(x, position) ==
  LET y == [x EXCEPT !.position = position]
  IN  IF position >= x.begin /\ position <= x.end
      THEN enum_move(y, position - x.begin) ELSE slow_move(y)

move(x, position) ==
  LET y == [x EXCEPT !.position = position]
  IN  IF position >= x.begin /\ position < x.end
      THEN enum_move(y, position - x.begin) ELSE slow_move(y)

moved_value(x) == IF x.position = m_size THEN m_universe ELSE x.base + x.enum.value

(* previous_range_upperbound: it moves m_it, unless the range is the first.*)
to_bound(x, r) == IF r.begin = 0 THEN x ELSE move(x, r.begin - 1)
bound(x, r) == IF r.begin = 0 THEN 0 ELSE moved_value(to_bound(x, r))

(* The constructor, given the bound of the range before. With a single     *)
(* partition its enumerator is not moved to the position. It leaves last   *)
(* unset, which value() sets before any switch_range.                      *)
iterator(position, prev_range_upper_bound) ==
  LET x == [position |-> position, partition |-> 0, begin |-> 0, end |-> m_size,
            base |-> parts[0].base, upper_bound |-> parts[0].upper_bound,
            prev_range_upper_bound |-> prev_range_upper_bound, last |-> 0,
            enum |-> Elements!enumerator(0, 0)]
  IN  IF m_partitions > 1 THEN slow_move(x)
      ELSE [x EXCEPT !.enum = Elements!unpositioned(Values(x), Universe(x))]

iterator_value(x) == x.base + x.enum.value - x.prev_range_upper_bound

(* value() keeps what it read, for switch_range.                           *)
iterator_read(x) == [x EXCEPT !.last = x.base + x.enum.value]
iterator_switch_range(x) == [x EXCEPT !.prev_range_upper_bound = x.last]

(* Mutant: the iterator begins a partition without switching to it.        *)
iterator_next_NotSwitched(x) ==
  LET y == [x EXCEPT !.position = @ + 1]
  IN  IF y.position < x.end \/ y.position = m_size
      THEN enum_move(y, x.enum.position + 1)
      ELSE enum_move(y, 0)

(* next() and slow_next(): past the end it stays in the last partition.    *)
iterator_next(x) ==
  LET y == [x EXCEPT !.position = @ + 1]
  IN  IF y.position < x.end \/ y.position = m_size
      THEN enum_move(y, x.enum.position + 1)
      ELSE enum_move(switch_partition(y, x.partition + 1), 0)
-----------------------------------------------------------------------------
Ranges == {RangeAt(level.pointers, p) : p \in 0 .. Len(level.pointers) - 2}
Length(r) == r.end - r.begin
no_call == [op |-> "none"]

(* visit(): m_it is at the beginning when the sequence has been loaded.    *)
Init ==
  /\ level \in Levels
  /\ stored = build("pef", level.from, level.pointers).values
  /\ sequence = write
  /\ parts = [p \in 0 .. m_partitions - 1 |->
               IF m_partitions = 1 THEN read_single ELSE read_partition(p)]
  /\ pc = "idle"
  /\ m_it = iterator(0, 0)
  /\ call = no_call
  /\ result = garbage
  /\ walker = <<>>

Answer(r) == pc' = "answered" /\ result' = r

(* The order in which the two operands of access are evaluated is the      *)
(* compiler's.                                                             *)
Access(r, pos) ==
  /\ pc = "idle"
  /\ call' = [op |-> "access", range |-> r, pos |-> pos]
  /\ \/ LET x == move(m_it, pos) IN
          m_it' = to_bound(x, r) /\ Answer(moved_value(x) - bound(x, r))
     \/ LET x == to_bound(m_it, r) IN
          m_it' = move(x, pos) /\ Answer(moved_value(m_it') - bound(m_it, r))
  /\ UNCHANGED <<built, walker>>

(* find in a short range: an iterator of its own goes over it.             *)
FindByScan(r, id) ==
  LET x[k \in 0 .. Length(r) - 1] ==
        IF k = 0 THEN iterator(r.begin, bound(m_it, r)) ELSE iterator_next(x[k - 1])
      hits == {k \in 0 .. Length(r) - 1 : iterator_value(x[k]) = id}
  IN
  /\ pc = "idle"
  /\ Length(r) <= linear_scan_threshold
  /\ call' = [op |-> "find", range |-> r, id |-> id]
  /\ m_it' = to_bound(m_it, r)
  /\ Answer(IF hits = {} THEN not_found
            ELSE r.begin + (CHOOSE k \in hits : \A h \in hits : k <= h))
  /\ UNCHANGED <<built, walker>>

(* Mutant: m_it is left at the bound.                                      *)
StartSearch_NotMoved(r, id) ==
  LET x == IF m_partitions > 1 THEN switch_partition(m_it, r.begin \div partition_size)
           ELSE m_it
  IN
  /\ pc = "idle"
  /\ Length(r) > linear_scan_threshold
  /\ m_it' = to_bound(x, r)
  /\ call' = [op |-> "find", range |-> r, id |-> id,
              lower_bound |-> id + bound(x, r),
              partition_end |-> r.end \div partition_size, lo |-> 0, hi |-> 0]
  /\ pc' = "searching"
  /\ UNCHANGED <<built, result, walker>>

(* find in a longer range, up to its call of next_geq.                     *)
StartSearch(r, id) ==
  LET x == IF m_partitions > 1 THEN switch_partition(m_it, r.begin \div partition_size)
           ELSE m_it
  IN
  /\ pc = "idle"
  /\ Length(r) > linear_scan_threshold
  /\ m_it' = move(to_bound(x, r), r.begin)
  /\ call' = [op |-> "find", range |-> r, id |-> id,
              lower_bound |-> id + bound(x, r),
              partition_end |-> r.end \div partition_size, lo |-> 0, hi |-> 0]
  /\ pc' = "searching"
  /\ UNCHANGED <<built, result, walker>>

InPartition == call.lower_bound >= m_it.base /\ call.lower_bound <= m_it.upper_bound

(* Mutant: the position is counted from the end of the partition.          *)
NextGeq_FromEnd ==
  LET enum == Elements!found_geq(Values(m_it), Universe(m_it), m_it.enum,
                                 call.lower_bound - m_it.base)
      position == m_it.end + enum.position
  IN
  /\ pc = "searching"
  /\ InPartition
  /\ m_it' = [m_it EXCEPT !.enum = enum, !.position = position]
  /\ Answer(not_found)
  /\ UNCHANGED <<built, call, walker>>

(* next_geq in the partition of the bound.                                 *)
NextGeq ==
  LET enum == Elements!found_geq(Values(m_it), Universe(m_it), m_it.enum,
                                 call.lower_bound - m_it.base)
      position == m_it.begin + enum.position
  IN
  /\ pc = "searching"
  /\ InPartition
  /\ m_it' = [m_it EXCEPT !.enum = enum, !.position = position]
  /\ Answer(IF position \in Positions(call.range)
               /\ m_it.base + enum.value = call.lower_bound
            THEN position ELSE not_found)
  /\ UNCHANGED <<built, call, walker>>

OutOfBounds == m_it.partition > call.partition_end \/ call.lower_bound < m_it.base

NextGeqOutOfBounds ==
  /\ pc = "searching"
  /\ ~ InPartition /\ OutOfBounds
  /\ Answer(not_found)
  /\ UNCHANGED <<built, m_it, call, walker>>

(* slow_next_geq, when the bound is above all values: move(size()).        *)
PastTheEnd ==
  /\ m_it' = move(m_it, m_size)
  /\ Answer(IF m_universe = call.lower_bound THEN m_size ELSE not_found)

SlowNextGeq ==
  /\ pc = "searching"
  /\ ~ InPartition /\ ~ OutOfBounds
  /\ IF m_partitions = 1 THEN PastTheEnd /\ UNCHANGED call
     ELSE /\ pc' = "bisecting"
          /\ call' = [call EXCEPT !.lo = m_it.partition + 1, !.hi = call.partition_end + 1]
          /\ UNCHANGED <<m_it, result>>
  /\ UNCHANGED <<built, walker>>

num_bounds == m_partitions + 1

(* Mutant: it switches to the partition before the one of the bound.       *)
Bisected_OneBefore(k) ==
  IF k = num_bounds THEN PastTheEnd
  ELSE m_it' = switch_partition(m_it, k - 2) /\ pc' = "searching" /\ UNCHANGED result

(* What slow_next_geq does with the partition that bsearch returned.       *)
Bisected(k) ==
  IF k = num_bounds THEN PastTheEnd
  ELSE m_it' = switch_partition(m_it, k - 1) /\ pc' = "searching" /\ UNCHANGED result

(* bsearch. The interval is never empty, as the threshold is above 0, and  *)
(* so what it returns after its loop, partition_id, is never used, nor the *)
(* bound after mid that it reads to set it, which in several partitions    *)
(* and with the threshold at 8 is a bound of some partition.               *)
Halve ==
  LET mid == (call.lo + call.hi) \div 2 IN
  /\ pc = "bisecting"
  /\ call.hi - call.lo > linear_scan_threshold
  /\ \/ /\ \/ UpperBound(mid) = call.lower_bound
           \/ UpperBound(mid) > call.lower_bound /\ UpperBound(mid - 1) < call.lower_bound
        /\ Bisected(mid)
        /\ UNCHANGED call
     \/ /\ UpperBound(mid) > call.lower_bound /\ UpperBound(mid - 1) >= call.lower_bound
        /\ call' = [call EXCEPT !.hi = mid - 1]
        /\ UNCHANGED <<pc, m_it, result>>
     \/ /\ UpperBound(mid) < call.lower_bound
        /\ call' = [call EXCEPT !.lo = mid + 1]
        /\ UNCHANGED <<pc, m_it, result>>
  /\ UNCHANGED <<built, walker>>

(* scan: up to the first bound that is not below, or one past hi. It may   *)
(* read past the last bound.                                               *)
Scan ==
  LET candidates == {k \in call.lo .. LeastOf(call.hi, num_bounds - 1) :
                       UpperBound(k) >= call.lower_bound}
  IN
  /\ pc = "bisecting"
  /\ call.hi - call.lo <= linear_scan_threshold
  /\ IF candidates # {} THEN Bisected(CHOOSE k \in candidates : \A c \in candidates : k <= c)
     ELSE IF call.hi < num_bounds THEN Bisected(call.hi + 1)
     ELSE pc' = "undefined" /\ UNCHANGED <<m_it, result>>
  /\ UNCHANGED <<built, call, walker>>

Return ==
  /\ pc = "answered"
  /\ pc' = "idle"
  /\ call' = no_call
  /\ result' = garbage
  /\ UNCHANGED <<built, m_it, walker>>
-----------------------------------------------------------------------------
(* A client walks the nodes from the beginning of a range, as trie_level   *)
(* does: at every step it reads the node, and at every range it switches.  *)
Walker(x, p) ==
  [iterator |-> iterator_read(x), range |-> p, node |-> iterator_value(x)]

Walk(p) ==
  LET r == RangeAt(level.pointers, p) IN
  /\ pc = "idle"
  /\ m_it' = to_bound(m_it, r)
  /\ walker' = Walker(iterator(r.begin, bound(m_it, r)), p)
  /\ pc' = "walking"
  /\ UNCHANGED <<built, call, result>>

Step ==
  LET x == iterator_next(walker.iterator)
      leaves == x.position = RangeAt(level.pointers, walker.range).end
  IN
  /\ pc = "walking"
  /\ walker.iterator.position + 1 < m_size
  /\ walker' = IF leaves THEN Walker(iterator_switch_range(x), walker.range + 1)
               ELSE Walker(x, walker.range)
  /\ UNCHANGED <<built, pc, m_it, call, result>>

Stop ==
  /\ pc = "walking"
  /\ walker' = <<>>
  /\ pc' = "idle"
  /\ UNCHANGED <<built, m_it, call, result>>

Searching == NextGeq \/ NextGeqOutOfBounds \/ SlowNextGeq \/ Halve \/ Scan

Next ==
  \/ \E r \in Ranges : \E pos \in Positions(r) : Access(r, pos)
  \/ \E r \in Ranges : \E id \in level.ids : FindByScan(r, id) \/ StartSearch(r, id)
  \/ Searching
  \/ Return
  \/ \E p \in 0 .. Len(level.pointers) - 2 : Walk(p)
  \/ Step
  \/ Stop

(* A call that has begun runs until it returns.                            *)
Spec == Init /\ [][Next]_vars /\ WF_vars(Searching)
-----------------------------------------------------------------------------
(* Types of the shared iterator.                                           *)
TypeOK ==
  /\ pc \in {"idle", "searching", "bisecting", "answered", "walking", "undefined"}
  /\ m_it.position \in 0 .. m_size
  /\ m_it.partition \in 0 .. m_partitions - 1
  /\ m_it.enum.position \in 0 .. partition_size
  /\ result \in Int

(* access gives the node, lowered by the bound of its range, wherever      *)
(* earlier calls have left m_it.                                           *)
AccessGivesNode ==
  pc = "answered" /\ call.op = "access" => result = level.from[call.pos + 1]

(* The constructor of an iterator moves it to its position (see iterator). *)
IteratorsMoved == m_partitions > 1

(* find gives the position of the id in the range, and not_found if it is  *)
(* not there, wherever earlier calls have left m_it; only with a single    *)
(* partition it does not in the ranges it scans.                           *)
FindsExactly ==
  /\ pc = "answered" /\ call.op = "find"
  /\ IteratorsMoved \/ Length(call.range) > linear_scan_threshold
  => result = find(level.from, call.range, call.id)

(* find finds the ids of every range, as test/check_find.cpp (:36-39)      *)
(* expects.                                                                *)
FindsInAnyRange ==
  /\ pc = "answered" /\ call.op = "find"
  /\ find(level.from, call.range, call.id) # not_found
  => result # not_found

(* An iterator gives the nodes one by one, over partitions and ranges,     *)
(* whether the two end together or not.                                    *)
WalkGivesNodes ==
  pc = "walking" /\ IteratorsMoved =>
    walker.node = level.from[walker.iterator.position + 1]

(* The access of a bound is below their number (the assertion of           *)
(* compact_vector.hpp:239).                                                *)
ReadsBounds == pc # "undefined"

(* next_geq, slow_next_geq and bsearch call each other to an end.          *)
SearchEnds == pc = "searching" ~> pc = "answered"
=============================================================================
