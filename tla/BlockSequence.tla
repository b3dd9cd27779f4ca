---------------------------- MODULE BlockSequence ----------------------------
(***************************************************************************)
(* block_sequence: the nodes of a level, cut in blocks of a fixed size of  *)
(* differences between neighbours, with each block's last value as its     *)
(* upper bound. The first node of a range is stored as it is, wherever in  *)
(* a block it falls. access and find share the iterator m_it.              *)
(***************************************************************************)
EXTENDS Mappers, VByte

CONSTANTS
  block_size,
  linear_scan_threshold,
  AbsentIds,    \* whether find is asked for ids that are not in the range
  Levels        \* [from, pointers, ids]: nodes, their ranges, ids to look for

ASSUME BlockSequenceAssumption ==
  /\ block_size \in Nat \ {0}
  /\ linear_scan_threshold \in Nat
  /\ AbsentIds \in BOOLEAN
  /\ \A l \in Levels : /\ WellFormedLevel(l)
                       /\ \A k \in DOMAIN l.from : l.from[k] < group_power[max_bytes]

VARIABLES
  level,
  pc,       \* "building", "idle", "skipping", "scanning", "answered", "walking", "undefined"
  builder,  \* [i, range, within, last, buf], of build()
  data,     \* the bytes of the blocks
  endpoints,
  upper_bounds,
  m_it,     \* the shared iterator: [block, buffer, pos, val]
  call,
  result,
  walker    \* a client's iterator, and its range

vars == <<level, pc, builder, data, endpoints, upper_bounds, m_it, call, result, walker>>

m_size == Len(level.from)
m_blocks == (m_size + block_size - 1) \div block_size
BlockSize(b) == IF (b + 1) * block_size <= m_size THEN block_size ELSE m_size % block_size
Length(r) == r.end - r.begin
-----------------------------------------------------------------------------
no_call == [op |-> "none"]
no_iterator == <<>>

Init ==
  /\ level \in Levels
  /\ pc = "building"
  /\ builder = [i |-> 0, range |-> 0, within |-> 0, last |-> -1, buf |-> <<>>]
  /\ data = <<>> /\ endpoints = <<>> /\ upper_bounds = <<>>
  /\ m_it = no_iterator
  /\ call = no_call
  /\ result = garbage
  /\ walker = no_iterator

(* Mutant: a range's first value is lowered by the last of the one before. *)
Push_LastKept ==
  LET leaves == builder.within = Length(RangeAt(level.pointers, builder.range))
      last == builder.last
      v == level.from[builder.i + 1]
      buf == Append(builder.buf, v - last - 1)
      b == Len(upper_bounds)
      closes == Len(buf) = BlockSize(b)
  IN
  /\ pc = "building"
  /\ builder.i # m_size
  /\ builder' = [i      |-> builder.i + 1,
                 range  |-> IF leaves THEN builder.range + 1 ELSE builder.range,
                 within |-> IF leaves THEN 1 ELSE builder.within + 1,
                 last   |-> v,
                 buf    |-> IF closes THEN <<>> ELSE buf]
  /\ data' = IF closes THEN encode(data, buf) ELSE data
  /\ endpoints' = IF closes /\ b # m_blocks - 1 THEN Append(endpoints, Len(data')) ELSE endpoints
  /\ upper_bounds' = IF closes THEN Append(upper_bounds, v) ELSE upper_bounds
  /\ UNCHANGED <<level, pc, m_it, call, result, walker>>

(* One value. The unsigned last is 2^32 - 1 before a range: v - last - 1   *)
(* is then v.                                                              *)
Push ==
  LET leaves == builder.within = Length(RangeAt(level.pointers, builder.range))
      last == IF leaves THEN -1 ELSE builder.last
      v == level.from[builder.i + 1]
      buf == Append(builder.buf, v - last - 1)
      b == Len(upper_bounds)
      closes == Len(buf) = BlockSize(b)
  IN
  /\ pc = "building"
  /\ builder.i # m_size
  /\ builder' = [i      |-> builder.i + 1,
                 range  |-> IF leaves THEN builder.range + 1 ELSE builder.range,
                 within |-> IF leaves THEN 1 ELSE builder.within + 1,
                 last   |-> v,
                 buf    |-> IF closes THEN <<>> ELSE buf]
  /\ data' = IF closes THEN encode(data, buf) ELSE data
  /\ endpoints' = IF closes /\ b # m_blocks - 1 THEN Append(endpoints, Len(data')) ELSE endpoints
  /\ upper_bounds' = IF closes THEN Append(upper_bounds, v) ELSE upper_bounds
  /\ UNCHANGED <<level, pc, m_it, call, result, walker>>
-----------------------------------------------------------------------------
(* Mutant: a block's first value is not raised by the bound of the one     *)
(* before.                                                                 *)
decode_block_FromZero(b) ==
  LET buffer == decode(data, IF b = 0 THEN 0 ELSE endpoints[b], BlockSize(b))
  IN  [block |-> b, buffer |-> buffer, pos |-> 0, val |-> buffer[1]]

(* decode_block, which takes the block's first value for one of the range  *)
(* of the block before; switch_range puts that right.                      *)
decode_block(b) ==
  LET buffer == decode(data, IF b = 0 THEN 0 ELSE endpoints[b], BlockSize(b))
      prev == IF b = 0 THEN -1 ELSE upper_bounds[b]
  IN  [block |-> b, buffer |-> buffer, pos |-> 0, val |-> buffer[1] + prev + 1]

upper_bound(x) == upper_bounds[x.block + 1]
position(x) == x.block * block_size + x.pos

(* Mutant: the value is kept.                                              *)
switch_range_Kept(x, pos) == [x EXCEPT !.pos = pos]

switch_range(x, pos) == [x EXCEPT !.pos = pos, !.val = x.buffer[pos + 1]]

(* One difference further in the block.                                    *)
further(x) == [x EXCEPT !.pos = @ + 1, !.val = @ + x.buffer[x.pos + 2] + 1]

(* next(); past the last block only the value changes.                     *)
iterator_next(x) ==
  IF x.pos + 1 # Len(x.buffer) THEN further(x)
  ELSE IF x.block + 1 = m_blocks
       THEN [x EXCEPT !.pos = @ + 1, !.val = @ + x.buffer[x.pos + 1] + 1]
       ELSE decode_block(x.block + 1)

iterator_access(x, pos) ==
  LET block == pos \div block_size
      from == IF block # x.block THEN decode_block(block) ELSE x
      walk[k \in from.pos .. pos % block_size] ==
        IF k = from.pos THEN from ELSE further(walk[k - 1])
  IN  IF position(from) < pos THEN walk[pos % block_size] ELSE from

(* An iterator at the beginning of a range; at() goes on to a position.    *)
range_iterator(r) == switch_range(decode_block(r.begin \div block_size), r.begin % block_size)
at(r, pos) == iterator_access(range_iterator(r), pos)
-----------------------------------------------------------------------------
(* visit(): the sequence is loaded.                                        *)
Load ==
  /\ pc = "building"
  /\ builder.i = m_size
  /\ m_it' = decode_block(0)
  /\ pc' = "idle"
  /\ UNCHANGED <<level, builder, data, endpoints, upper_bounds, call, result, walker>>

built == <<level, builder, data, endpoints, upper_bounds>>
Answer(x) == pc' = "answered" /\ result' = x

Access(r, pos) ==
  /\ pc = "idle"
  /\ call' = [op |-> "access", pos |-> pos]
  /\ m_it' = at(r, pos)
  /\ Answer(m_it'.val)
  /\ UNCHANGED <<built, walker>>

(* In a short range an iterator of its own goes over the nodes; if it does *)
(* not find the id, m_it looks for it again.                               *)
Scanned(r, id) ==
  LET x[k \in 0 .. Length(r) - 1] ==
        IF k = 0 THEN at(r, r.begin) ELSE iterator_next(x[k - 1])
  IN  IF Length(r) <= linear_scan_threshold
      THEN {k \in 0 .. Length(r) - 1 : x[k].val = id} ELSE {}

FindByScan(r, id) ==
  LET hits == Scanned(r, id) IN
  /\ pc = "idle"
  /\ hits # {}
  /\ call' = [op |-> "find", range |-> r, id |-> id]
  /\ Answer(r.begin + (CHOOSE k \in hits : \A h \in hits : k <= h))
  /\ UNCHANGED <<built, m_it, walker>>

(* Mutant: a block whose upper bound is the id is skipped.                 *)
StartFind_SkipAtBound(r, id) ==
  LET block_begin == r.begin \div block_size
      block_end == r.end \div block_size
      x == IF block_begin # m_it.block THEN decode_block(block_begin) ELSE m_it
  IN
  /\ pc = "idle"
  /\ Scanned(r, id) = {}
  /\ m_it' = switch_range(x, r.begin % block_size)
  /\ call' = [op |-> "find", range |-> r, id |-> id, block |-> block_begin + 1]
  /\ pc' = IF block_begin # block_end /\ id >= upper_bound(x) THEN "skipping" ELSE "scanning"
  /\ UNCHANGED <<built, result, walker>>

(* iterator::find, up to its first loop.                                   *)
StartFind(r, id) ==
  LET block_begin == r.begin \div block_size
      block_end == r.end \div block_size
      x == IF block_begin # m_it.block THEN decode_block(block_begin) ELSE m_it
  IN
  /\ pc = "idle"
  /\ Scanned(r, id) = {}
  /\ m_it' = switch_range(x, r.begin % block_size)
  /\ call' = [op |-> "find", range |-> r, id |-> id, block |-> block_begin + 1]
  /\ pc' = IF block_begin # block_end /\ id > upper_bound(x) THEN "skipping" ELSE "scanning"
  /\ UNCHANGED <<built, result, walker>>

(* Mutant: the last block of the range is skipped like the others.         *)
SkipBlock_PastRange ==
  /\ pc = "skipping"
  /\ IF call.block = m_blocks THEN pc' = "undefined" /\ UNCHANGED <<m_it, call>>
     ELSE IF upper_bounds[call.block + 1] < call.id
     THEN call' = [call EXCEPT !.block = @ + 1] /\ UNCHANGED <<pc, m_it>>
     ELSE m_it' = decode_block(call.block) /\ pc' = "scanning" /\ UNCHANGED call
  /\ UNCHANGED <<built, result, walker>>

(* The upper bound of block block_end is read before it is known to be the *)
(* last one to look at, and there may be no such block.                    *)
SkipBlock ==
  /\ pc = "skipping"
  /\ IF call.block = m_blocks THEN pc' = "undefined" /\ UNCHANGED <<m_it, call>>
     ELSE IF upper_bounds[call.block + 1] < call.id
             /\ call.block # call.range.end \div block_size
     THEN call' = [call EXCEPT !.block = @ + 1] /\ UNCHANGED <<pc, m_it>>
     ELSE m_it' = decode_block(call.block) /\ pc' = "scanning" /\ UNCHANGED call
  /\ UNCHANGED <<built, result, walker>>

(* The second loop: past the block's last value it reads what an earlier   *)
(* block left in the buffer.                                               *)
ScanValue ==
  /\ pc = "scanning"
  /\ m_it.val < call.id
  /\ IF m_it.pos + 1 = Len(m_it.buffer) THEN pc' = "undefined" /\ UNCHANGED m_it
     ELSE m_it' = further(m_it) /\ UNCHANGED pc
  /\ UNCHANGED <<built, call, result, walker>>

EndScan ==
  /\ pc = "scanning"
  /\ m_it.val >= call.id
  /\ Answer(position(m_it))
  /\ UNCHANGED <<built, m_it, call, walker>>

Return ==
  /\ pc = "answered"
  /\ pc' = "idle"
  /\ call' = no_call
  /\ result' = garbage
  /\ UNCHANGED <<built, m_it, walker>>
-----------------------------------------------------------------------------
(* A client walks the nodes from the beginning of a range, as trie_level   *)
(* does: at every range it enters, it switches. Past the last node, whose  *)
(* successor it would not use, it stops.                                   *)
Walk(p) ==
  /\ pc = "idle"
  /\ walker' = [iterator |-> at(RangeAt(level.pointers, p), level.pointers[p + 1]), range |-> p]
  /\ pc' = "walking"
  /\ UNCHANGED <<built, m_it, call, result>>

Step ==
  LET x == iterator_next(walker.iterator)
      leaves == position(x) = RangeAt(level.pointers, walker.range).end
  IN
  /\ pc = "walking"
  /\ position(walker.iterator) + 1 < m_size
  /\ walker' = IF leaves THEN [iterator |-> switch_range(x, x.pos), range |-> walker.range + 1]
               ELSE [walker EXCEPT !.iterator = x]
  /\ UNCHANGED <<built, pc, m_it, call, result>>

Stop ==
  /\ pc = "walking"
  /\ walker' = no_iterator
  /\ pc' = "idle"
  /\ UNCHANGED <<built, m_it, call, result>>

Ranges == {RangeAt(level.pointers, p) : p \in 0 .. Len(level.pointers) - 2}
Asked(r) == {id \in level.ids : AbsentIds \/ \E pos \in Positions(r) : level.from[pos + 1] = id}

Next ==
  \/ Push
  \/ Load
  \/ \E r \in Ranges : \E pos \in Positions(r) : Access(r, pos)
  \/ \E r \in Ranges : \E id \in Asked(r) : FindByScan(r, id)
  \/ \E r \in Ranges : \E id \in Asked(r) : StartFind(r, id)
  \/ SkipBlock
  \/ ScanValue
  \/ EndScan
  \/ Return
  \/ \E p \in 0 .. Len(level.pointers) - 2 : Walk(p)
  \/ Step
  \/ Stop

Spec == Init /\ [][Next]_vars
-----------------------------------------------------------------------------
(* Types: differences are unsigned, blocks are bytes, and m_it is within   *)
(* its block.                                                              *)
TypeOK ==
  /\ pc \in {"building", "idle", "skipping", "scanning", "answered", "walking", "undefined"}
  /\ builder.buf \in Seq(Nat)
  /\ data \in Seq(byte) /\ endpoints \in Seq(Nat) /\ upper_bounds \in Seq(Nat)
  /\ m_it # no_iterator => m_it.buffer \in Seq(Nat) /\ m_it.pos \in 0 .. Len(m_it.buffer) - 1

(* access gives the node, though differences run over the ranges' ends and *)
(* earlier calls have left m_it anywhere.                                  *)
AccessGivesNode ==
  pc = "answered" /\ call.op = "access" => result = level.from[call.pos + 1]

(* find gives the position of an id that is in the range, whatever block   *)
(* the upper bounds lead it to.                                            *)
FindsPresent ==
  pc = "answered" /\ call.op = "find" =>
    find(level.from, call.range, call.id) \in {result, not_found}

(* find keeps within the block it has decoded and the blocks there are     *)
(* (the assertions of block_sequence.hpp:146, 152).                        *)
StaysInBlock == pc # "undefined"

(* An iterator gives the nodes one by one, whether ranges and blocks end   *)
(* together or not.                                                        *)
WalkGivesNodes ==
  pc = "walking" => walker.iterator.val = level.from[position(walker.iterator) + 1]

(* find refuses an id that is not in the range, as test/check_find.cpp     *)
(* (:41-46) expects of every sequence of nodes.                            *)
FindRefusesAbsent ==
  pc = "answered" /\ call.op = "find" /\ find(level.from, call.range, call.id) = not_found =>
    result = not_found
=============================================================================
