---------------------------- MODULE NodesSequence ----------------------------
(***************************************************************************)
(* The nodes of a level, as its encoder stores them and its iterator reads *)
(* them back. compact_vector ("compact") stores the values themselves;     *)
(* ef_sequence ("ef") and pef_sequence ("pef") a non-decreasing sequence,  *)
(* where every value is raised by the last one stored for the range before *)
(* its own; block_sequence ("vb") differences less one, but for a range's  *)
(* first value, which is stored as it is.                                  *)
(***************************************************************************)
EXTENDS Mappers

CONSTANTS
  partition_size,         \* of pef_sequence, in nodes: 128
  linear_scan_threshold   \* up to how many nodes its find scans: 8

(* ef_sequence::build: where a range begins, prev_upper becomes the last   *)
(* value that was pushed; loop[i] holds both after i values.               *)
Begins(pointers, i) == \E p \in DOMAIN pointers : pointers[p] = i - 1

raised(from, pointers) ==
  LET loop[i \in 0 .. Len(from)] ==
        IF i = 0 THEN <<0, 0>>
        ELSE LET prev_upper == loop[i - 1][IF Begins(pointers, i) THEN 2 ELSE 1]
             IN  <<prev_upper, from[i] + prev_upper>>
  IN  [i \in 1 .. Len(from) |-> loop[i][2]]

differences(from, pointers) ==
  [i \in 1 .. Len(from) |-> from[i] - (IF Begins(pointers, i) THEN 0 ELSE from[i - 1] + 1)]

build(encoding, from, pointers) ==
  [encoding |-> encoding,
   values   |-> CASE encoding = "compact" -> from
                  [] encoding \in {"ef", "pef"} -> raised(from, pointers)
                  [] encoding = "vb" -> differences(from, pointers)]

size(seq) == Len(seq.values)

(* A read through pos, 0-based: past the end it is of some other bits.     *)
At(values, pos) == IF pos + 1 \in DOMAIN values THEN values[pos + 1] ELSE garbage

previous_range_upperbound(seq, r) ==
  IF seq.encoding \notin {"ef", "pef"} \/ r.begin = 0 THEN 0 ELSE At(seq.values, r.begin - 1)

(* pef_sequence with a single partition: its iterators are not moved to    *)
(* their positions, and read, wherever they are, what is past the end.     *)
OnePartition(seq) == seq.encoding = "pef" /\ size(seq) <= partition_size

(* What pef_sequence's iterator reads past the end: one more than the last *)
(* value, but in a single partition whose values are all the same, where   *)
(* the universe is read back one too small.                                *)
past_end(seq) ==
  LET last == seq.values[size(seq)]
  IN  IF OnePartition(seq) /\ size(seq) > 1 /\ seq.values[1] = last THEN last ELSE last + 1

Scanned(r) == r.end - r.begin <= linear_scan_threshold

(* bsearch, for what is above all values when the last of several          *)
(* partitions is full, goes past the upper bounds (PefSequence).           *)
past_bounds(seq, r, id) ==
  /\ seq.encoding = "pef" /\ ~ OnePartition(seq) /\ ~ Scanned(r)
  /\ r.end = size(seq) /\ size(seq) % partition_size = 0
  /\ id + previous_range_upperbound(seq, r) > seq.values[size(seq)]

(* The sum of a range's differences up to pos.                             *)
Summed(seq, r, pos) ==
  LET sum[k \in r.begin .. pos] ==
        At(seq.values, k) + (IF k = r.begin THEN 0 ELSE sum[k - 1] + 1)
  IN  sum[pos]

(* find searches for the raised id in the stored values of the range; that *)
(* scan_binary_search finds it is the subject of ScanBinarySearch. Over    *)
(* blocks it gives the first value that is not less than id, or reads on.  *)
find_node(seq, r, id) ==
  LET raised_id == id + previous_range_upperbound(seq, r)
      at_least == {pos \in Positions(r) : Summed(seq, r, pos) >= id}
  IN  CASE seq.encoding = "vb" ->
             IF at_least = {} THEN garbage
             ELSE CHOOSE pos \in at_least : \A other \in at_least : pos <= other
        [] OnePartition(seq) /\ Scanned(r) ->
             IF raised_id = past_end(seq) THEN r.begin ELSE not_found
        [] past_bounds(seq, r, id) -> garbage
        [] OTHER -> find(seq.values, r, raised_id)
-----------------------------------------------------------------------------
(* An iterator on the nodes. slot is where compact_vector's enumerator     *)
(* reads next: value() moves it, ++ does not; pos is what ++ moves, and    *)
(* where the other iterators read. last is the last value that was read,   *)
(* and of block_sequence the value itself, which ++ adds to; pef_sequence  *)
(* leaves it unset until then.                                             *)
cursor(seq, r, pos) ==
  [pos |-> pos, slot |-> pos,
   last |-> CASE seq.encoding = "compact" -> 0
              [] seq.encoding = "pef" -> garbage
              [] seq.encoding = "ef" -> At(seq.values, size(seq) - 1)
              [] seq.encoding = "vb" -> Summed(seq, r, pos),
   prev_range_upper_bound |-> previous_range_upperbound(seq, r)]

first_cursor(seq) == cursor(seq, [begin |-> 0, end |-> 0], 0)

next(seq, c) ==
  [c EXCEPT !.pos = @ + 1,
            !.last = IF seq.encoding = "vb" THEN @ + At(seq.values, c.pos + 1) + 1 ELSE @]

switch_range(seq, c) ==
  CASE seq.encoding = "compact" -> c
    [] seq.encoding \in {"ef", "pef"} -> [c EXCEPT !.prev_range_upper_bound = c.last]
    [] seq.encoding = "vb" -> [c EXCEPT !.last = At(seq.values, c.pos)]

(* value() gives the node it reads, and keeps it or moves the cursor.      *)
read(seq, c) ==
  CASE seq.encoding = "compact" -> [c EXCEPT !.slot = @ + 1]
    [] seq.encoding = "ef" ->
         [c EXCEPT !.last = IF c.pos = size(seq) THEN c.last ELSE At(seq.values, c.pos)]
    [] seq.encoding = "pef" ->
         [c EXCEPT !.last = IF OnePartition(seq) \/ c.pos = size(seq) THEN past_end(seq)
                            ELSE At(seq.values, c.pos)]
    [] seq.encoding = "vb" -> c

value(seq, c) ==
  IF seq.encoding = "compact" THEN At(seq.values, c.slot)
  ELSE read(seq, c).last - c.prev_range_upper_bound
=============================================================================
