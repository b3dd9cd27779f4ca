------------------------------ MODULE EfSequence ------------------------------
(***************************************************************************)
(* ef_sequence, from the compact_vector builder it is given to the words   *)
(* it is read from: nodes are raised range by range, pointers taken as     *)
(* they are; the low bits of a value are appended to one bit vector, its   *)
(* high bits set a bit of another, whose ones a darray finds again. An     *)
(* iterator keeps a word of low bits and refills it every so many values,  *)
(* by next() before a value is read, by ++ after.                          *)
(***************************************************************************)
EXTENDS CompactVector, DArray, SequencesExt

CONSTANT Inputs
  \* [kind, by, values, width, pointers]: "nodes" or "pointers", pushed back
  \* or set; values of up to width bits, and where the ranges of nodes begin

(* A list does not go down from its first-th value to its last-th.         *)
Ordered(list, first, last) == \A k \in first + 1 .. last - 1 : list[k] <= list[k + 1]

ASSUME EfAssumption ==
  \A in \in Inputs :
    /\ in.kind \in {"nodes", "pointers"} /\ in.by \in {"push_back", "set"}
    /\ in.width \in 0 .. word_width
    /\ in.values \in Seq(Nat) /\ in.values # <<>>
    /\ \A k \in DOMAIN in.values : in.values[k] < power[in.width]
    /\ in.pointers \in Seq(Nat)
    /\ in.kind = "pointers" => Ordered(in.values, 0, Len(in.values))
    /\ in.kind = "nodes" =>
         /\ in.pointers # <<>> /\ in.pointers[1] = 0
         /\ Last(in.pointers) = Len(in.values) /\ Len(in.values) < power[word_width]
         /\ Ordered(in.pointers, 0, Len(in.pointers))
         /\ \A p \in 1 .. Len(in.pointers) - 1 :
              Ordered(in.values, in.pointers[p], in.pointers[p + 1])

VARIABLES
  input,
  pc,         \* "filling", "raising", "encoding", "refused", "loaded", "walking"
  from,       \* the builder the values come from
  filled,     \* the indexes it has been given
  build,      \* the locals of the two build functions
  ef,         \* the sequence
  it          \* a client's iterator: its fields, its range, what it gave last

vars == <<input, pc, from, filled, build, ef, it>>

n == Len(input.values)
nodes == input.kind = "nodes"

(* The builder of the level's pointers, as trie::builder has filled it.    *)
pointers ==
  LET w == ceil_log2(Last(input.pointers) + 1)
  IN  fill(resized(Len(input.pointers), w), input.pointers)
-----------------------------------------------------------------------------
no_ef == [l |-> 0, size |-> 0, high_bits |-> no_bits, low_bits |-> no_bits, d1 |-> <<>>]

Init ==
  /\ input \in Inputs
  /\ pc = "filling"
  /\ from = resized(n, input.width)
  /\ filled = {}
  /\ build = <<>>
  /\ ef = no_ef
  /\ it = <<>>

PushBack ==
  /\ pc = "filling" /\ input.by = "push_back"
  /\ Cardinality(filled) < n
  /\ from' = push_back(from, input.values[Cardinality(filled) + 1])
  /\ filled' = filled \cup {Cardinality(filled)}
  /\ UNCHANGED <<input, pc, build, ef, it>>

(* p_index::builder places the subjects of the predicates in turn.         *)
Set(i) ==
  /\ pc = "filling" /\ input.by = "set"
  /\ i \notin filled
  /\ from' = set(from, i, input.values[i + 1])
  /\ filled' = filled \cup {i}
  /\ UNCHANGED <<input, pc, build, ef, it>>
-----------------------------------------------------------------------------
(* The private build, up to its loop, for n values of which the last is u. *)
Encoding(begin, values, u) ==
  LET l == IF u \div n # 0 THEN msb(u \div n) ELSE 0
  IN  /\ pc' = "encoding"
      /\ build' = [begin |-> begin, values |-> values, i |-> 0, last |-> 0]
      /\ ef' = [l |-> l, size |-> n, low_bits |-> no_bits, d1 |-> <<>>,
                high_bits |-> zeros(n + u \div power[l] + 1)]

(* build(from, index_for_find), of pointers.                               *)
StartPointers ==
  /\ pc = "filling" /\ Cardinality(filled) = n /\ ~ nodes
  /\ Encoding(enumerator(from, 0), <<>>, from.back)
  /\ UNCHANGED <<input, from, filled, it>>

(* build(begin, n, pointers), up to its loop.                              *)
StartNodes ==
  LET first == enumerator(pointers, 0)
      second == enumerator_next(enumerator_read(pointers, first))
  IN
  /\ pc = "filling" /\ Cardinality(filled) = n /\ nodes
  /\ pc' = "raising"
  /\ build' = [begin |-> enumerator(from, 0), values |-> <<>>, within |-> 0, prev_upper |-> 0,
               pointers_it |-> enumerator_read(pointers, second),
               end |-> enumerator_value(pointers, second),
               run |-> enumerator_value(pointers, second) - enumerator_value(pointers, first)]
  /\ UNCHANGED <<input, from, filled, ef, it>>

(* Mutant: an empty range is not skipped.                                  *)
next_run_OneOnly(b) ==
  LET ptr == enumerator_next(b.pointers_it)
      end == enumerator_value(pointers, ptr)
  IN  [b EXCEPT !.pointers_it = enumerator_read(pointers, ptr),
                !.end = end, !.run = end - b.end, !.within = 0,
                !.prev_upper = IF b.values = <<>> THEN 0 ELSE Last(b.values)]

(* The next range that is not empty.                                       *)
next_run(b) ==
  LET skipped[k \in Nat] ==
        LET x == IF k = 0 THEN b ELSE skipped[k - 1]
            ptr == enumerator_next(x.pointers_it)
            end == enumerator_value(pointers, ptr)
        IN  [x EXCEPT !.pointers_it = enumerator_read(pointers, ptr),
                      !.end = end, !.run = end - x.end]
      found == CHOOSE k \in 0 .. Len(input.pointers) :
                 skipped[k].run # 0 /\ \A j \in 0 .. k - 1 : skipped[j].run = 0
  IN  [skipped[found] EXCEPT !.within = 0,
         !.prev_upper = IF b.values = <<>> THEN 0 ELSE Last(b.values)]

Raise ==
  LET b == IF build.within = build.run THEN next_run(build) ELSE build
      v == enumerator_value(from, b.begin)
  IN
  /\ pc = "raising" /\ Len(build.values) < n
  /\ build' = [b EXCEPT !.values = Append(@, v + b.prev_upper), !.within = @ + 1,
                        !.begin = enumerator_next(enumerator_read(from, @))]
  /\ UNCHANGED <<input, pc, from, filled, ef, it>>

EndRaise ==
  /\ pc = "raising" /\ Len(build.values) = n
  /\ Encoding(build.begin, build.values, Last(build.values))
  /\ UNCHANGED <<input, from, filled, it>>

(* One turn of the private build's loop. A value below the last is refused.*)
Encode ==
  LET v == IF nodes THEN build.values[build.i + 1] ELSE enumerator_value(from, build.begin)
  IN
  /\ pc = "encoding" /\ build.i < n
  /\ IF build.i # 0 /\ v < build.last THEN pc' = "refused" /\ UNCHANGED <<build, ef>>
     ELSE /\ ef' = [ef EXCEPT
                      !.low_bits = append_bits(@, bits_of(v) \cap Mask(ef.l), ef.l),
                      !.high_bits = set_bit(@, v \div power[ef.l] + build.i)]
          /\ build' = [build EXCEPT !.i = @ + 1, !.last = v,
                         !.begin = IF nodes THEN @ ELSE enumerator_next(enumerator_read(from, @))]
          /\ UNCHANGED pc
  /\ UNCHANGED <<input, from, filled, it>>

EndEncode ==
  /\ pc = "encoding" /\ build.i = n
  /\ ef' = [ef EXCEPT !.d1 = darray(ef.high_bits)]
  /\ pc' = "loaded"
  /\ build' = <<>>
  /\ UNCHANGED <<input, from, filled, it>>
-----------------------------------------------------------------------------
joined(high, pos, low) == (high - pos) * power[ef.l] + low

access(i) ==
  joined(select(ef.d1, ef.high_bits, i), i, number(get_bits(ef.low_bits, i * ef.l, ef.l)))

universe == access(ef.size - 1)

previous_range_upperbound(r) == IF r.begin = 0 THEN 0 ELSE access(r.begin - 1)

access_in(r, pos) == access(pos) - previous_range_upperbound(r)

(* The iterator of a range, at a position.                                 *)
chunks_in_word == IF ef.l = 0 THEN 0 ELSE word_width \div ef.l

refilled(x) ==
  [x EXCEPT !.low_buf = get_word64(ef.low_bits, x.pos * ef.l),
            !.chunks_avail = chunks_in_word - 1]

high_next(x) ==
  LET e == next_one(ef.high_bits, x.high_enum) IN [x EXCEPT !.high_enum = e, !.high = e.position]

(* Mutant: the chunks are counted the same way without low bits.           *)
iterator_ChunksAnyway(r, pos) ==
  LET x == [pos |-> pos, val |-> universe, last |-> 0, high |-> 0,
            prev_range_upper_bound |-> previous_range_upperbound(r),
            low_buf |-> {}, chunks_avail |-> 0,
            high_enum |-> unary_iterator(ef.high_bits, select(ef.d1, ef.high_bits, pos))]
  IN  high_next(refilled(x))

iterator(r, pos) ==
  LET x == [pos |-> pos, val |-> universe, last |-> 0, high |-> 0,
            prev_range_upper_bound |-> previous_range_upperbound(r),
            low_buf |-> {}, chunks_avail |-> ef.d1.positions,
            high_enum |-> unary_iterator(ef.high_bits, select(ef.d1, ef.high_bits, pos))]
  IN  high_next(IF ef.l = 0 THEN x ELSE refilled(x))

current(x) == joined(x.high, x.pos, number(x.low_buf \cap Mask(ef.l)))

(* operator*                                                               *)
deref(x) == IF x.pos = ef.size THEN x ELSE [x EXCEPT !.val = current(x)]

(* value() keeps what it reads, for switch_range.                          *)
value_read(x) == [deref(x) EXCEPT !.last = deref(x).val]
value(x) == deref(x).val - x.prev_range_upper_bound

switch_range(x) == [x EXCEPT !.prev_range_upper_bound = x.last]

(* Mutant: the word of low bits is taken to hold one value more.           *)
increment_OneChunkMore(x) ==
  LET y == [x EXCEPT !.pos = @ + 1]
      z == [high_next(y) EXCEPT !.low_buf = Right(@, ef.l), !.chunks_avail = @ - 1]
  IN  IF y.pos = ef.size THEN y
      ELSE IF x.chunks_avail = 0 THEN [refilled(z) EXCEPT !.chunks_avail = chunks_in_word] ELSE z

(* operator++: the low bits that are left go on, until there are none.     *)
increment(x) ==
  LET y == [x EXCEPT !.pos = @ + 1]
      z == [high_next(y) EXCEPT !.low_buf = Right(@, ef.l), !.chunks_avail = @ - 1]
  IN  IF y.pos = ef.size THEN y ELSE IF x.chunks_avail = 0 THEN refilled(z) ELSE z

(* Mutant: the low bits are fetched for the value after the one it gives.  *)
next_RefillsAhead(x) ==
  LET y == IF x.chunks_avail = 0
           THEN [refilled([x EXCEPT !.pos = @ + 1]) EXCEPT !.pos = x.pos]
           ELSE [x EXCEPT !.chunks_avail = @ - 1]
      z == [y EXCEPT !.val = current(y), !.pos = @ + 1, !.low_buf = Right(@, ef.l)]
  IN  IF x.pos = ef.size THEN x ELSE IF z.pos = ef.size THEN z ELSE high_next(z)

(* next(): the low bits of the value it gives may have to be fetched.      *)
next(x) ==
  LET y == IF x.chunks_avail = 0 THEN refilled(x) ELSE [x EXCEPT !.chunks_avail = @ - 1]
      z == [y EXCEPT !.val = current(y), !.pos = @ + 1, !.low_buf = Right(@, ef.l)]
  IN  IF x.pos = ef.size THEN x ELSE IF z.pos = ef.size THEN z ELSE high_next(z)
-----------------------------------------------------------------------------
RangeOf(p) == [begin |-> input.pointers[p], end |-> input.pointers[p + 1]]
Ranges == {p \in 1 .. Len(input.pointers) - 1 : RangeOf(p).begin < RangeOf(p).end}
no_range == [begin |-> 0, end |-> 0]

Given(x, p) == [iterator |-> value_read(x), range |-> p, given |-> value(x)]

(* A client goes through the nodes as trie_level::iterator does, switching *)
(* ranges; it knows of none that are empty.                                *)
WalkNodes(p) ==
  /\ pc = "loaded" /\ nodes /\ Cardinality(Ranges) = Len(input.pointers) - 1
  /\ pc' = "walking"
  /\ it' = Given(iterator(RangeOf(p), RangeOf(p).begin), p)
  /\ UNCHANGED <<input, from, filled, build, ef>>

StepNodes ==
  LET x == increment(it.iterator)
      leaves == x.pos = RangeOf(it.range).end
  IN
  /\ pc = "walking" /\ nodes
  /\ it.iterator.pos + 1 < n
  /\ it' = IF leaves THEN Given(switch_range(x), it.range + 1) ELSE Given(x, it.range)
  /\ UNCHANGED <<input, pc, from, filled, build, ef>>

(* It reads the pointers one by one, and may go on past the last.          *)
WalkPointers(pos) ==
  LET x == next(iterator(no_range, pos)) IN
  /\ pc = "loaded" /\ ~ nodes
  /\ pc' = "walking"
  /\ it' = [iterator |-> x, range |-> 0, given |-> x.val]
  /\ UNCHANGED <<input, from, filled, build, ef>>

StepPointers ==
  LET x == next(it.iterator) IN
  /\ pc = "walking" /\ ~ nodes
  /\ it' = [iterator |-> x, range |-> 0, given |-> x.val]
  /\ UNCHANGED <<input, pc, from, filled, build, ef>>

Stop ==
  /\ pc = "walking"
  /\ pc' = "loaded"
  /\ it' = <<>>
  /\ UNCHANGED <<input, from, filled, build, ef>>

Next ==
  \/ PushBack
  \/ \E i \in 0 .. n - 1 : Set(i)
  \/ StartPointers \/ StartNodes
  \/ Raise \/ EndRaise
  \/ Encode \/ EndEncode
  \/ \E p \in Ranges : WalkNodes(p)
  \/ StepNodes
  \/ \E pos \in 0 .. n - 1 : WalkPointers(pos)
  \/ StepPointers
  \/ Stop

Spec == Init /\ [][Next]_vars
-----------------------------------------------------------------------------
(* The two constants are pef_sequence's, which is not looked at here.      *)
Nodes == INSTANCE NodesSequence WITH partition_size <- 128, linear_scan_threshold <- 8

Readable == pc \in {"loaded", "walking"}

(* Types of the builder, the sequence and the iterator.                    *)
TypeOK ==
  /\ pc \in {"filling", "raising", "encoding", "refused", "loaded", "walking"}
  /\ filled \subseteq 0 .. n - 1
  /\ from.bits \in Seq(Word)
  /\ ef.l \in 0 .. word_width - 1
  /\ ef.high_bits.words \in Seq(Word) /\ ef.low_bits.words \in Seq(Word)
  /\ pc = "walking" =>
       /\ it.iterator.pos \in 0 .. n
       /\ it.iterator.chunks_avail \in 0 .. n + word_width
       /\ it.iterator.low_buf \in Word /\ it.iterator.high_enum.buf \in Word

(* The values of a builder are read as they were given, in whatever order, *)
(* by the three ways to read them: at an index, through an enumerator from *)
(* any index on, and by an unaligned read, if it gets as many bits, even   *)
(* where it goes past the last word.                                       *)
ReadsBack ==
  pc # "filling" =>
    \A i \in 0 .. n - 1 :
      /\ get(from, i) = input.values[i + 1]
      /\ from.width <= word_width - byte_width + 1 => access_bits(from, i) = input.values[i + 1]
      /\ LET e[k \in 0 .. n - 1 - i] ==
               IF k = 0 THEN enumerator(from, i)
               ELSE enumerator_next(enumerator_read(from, e[k - 1]))
         IN  \A k \in DOMAIN e : enumerator_value(from, e[k]) = input.values[i + k + 1]

(* The darray gives the place of every one, in dense and sparse blocks.    *)
SelectFindsOnes ==
  Readable =>
    /\ ef.d1.positions = n
    /\ \A k \in 0 .. n - 1 :
         LET p == select(ef.d1, ef.high_bits, k)
         IN  /\ get_bits(ef.high_bits, p, 1) # {}
             /\ Cardinality({q \in 0 .. p - 1 : get_bits(ef.high_bits, q, 1) # {}}) = k

(* The values are not refused, and access gives them: pointers as they are,*)
(* and nodes raised as NodesSequence promises, so that they come back when *)
(* the bound of their range is taken away.                                 *)
AccessGivesNode ==
  /\ pc # "refused"
  /\ Readable /\ ~ nodes => \A i \in 0 .. n - 1 : access(i) = input.values[i + 1]
  /\ Readable /\ nodes =>
       /\ [i \in 1 .. n |-> access(i - 1)]
            = Nodes!build("ef", input.values, input.pointers).values
       /\ \A p \in Ranges : \A pos \in Nodes!Positions(RangeOf(p)) :
            access_in(RangeOf(p), pos) = input.values[pos + 1]

(* An iterator gives the values one by one: nodes by ++, over its ranges,  *)
(* pointers by next(), which repeats the last one past the end.            *)
WalkGivesNodes ==
  pc = "walking" /\ nodes => it.given = input.values[it.iterator.pos + 1]

WalkGivesPointers ==
  pc = "walking" /\ ~ nodes => it.given = input.values[it.iterator.pos]
=============================================================================
