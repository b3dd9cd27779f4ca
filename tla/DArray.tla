-------------------------------- MODULE DArray --------------------------------
(***************************************************************************)
(* darray1: where the ones of a bit vector are. They are grouped in blocks *)
(* of block_size. A dense block keeps where it begins and, for every       *)
(* subblock_size-th one, its distance from there; select goes on from it   *)
(* word by word. A sparse block keeps the position of each of its ones.    *)
(***************************************************************************)
EXTENDS BitVector

CONSTANTS block_size, subblock_size, max_in_block_distance

ASSUME DArrayAssumption ==
  /\ block_size \in Nat \ {0} /\ subblock_size \in Nat \ {0}
  /\ block_size % subblock_size = 0
  /\ max_in_block_distance \in Nat \ {0}

(* A uint16_t has as many values as max_in_block_distance says.            *)
uint16_t(x) == x % max_in_block_distance

flush_cur_block(d, cur) ==
  LET front == cur[1]
      dense == cur[Len(cur)] - front < max_in_block_distance
      subblocks == 1 .. ceil_div(Len(cur), subblock_size)
  IN  IF dense
      THEN [d EXCEPT !.block_inventory = Append(@, front),
                     !.subblock_inventory =
                        @ \o [k \in subblocks |->
                                 uint16_t(cur[(k - 1) * subblock_size + 1] - front)]]
      ELSE [d EXCEPT !.block_inventory = Append(@, -Len(d.overflow_positions) - 1),
                     !.subblock_inventory = @ \o [k \in subblocks |-> uint16_t(-1)],
                     !.overflow_positions = @ \o cur]

(* The positions of the ones below the size of the vector, block by block. *)
darray(bv) ==
  LET places == {p \in 0 .. bv.size - 1 : p % word_width \in bv.words[p \div word_width + 1]}
      ones == [k \in 1 .. Cardinality(places) |-> select_in_word(places, k - 1)]
      Block(k) == SubSeq(ones, (k - 1) * block_size + 1,
                         IF k * block_size < Len(ones) THEN k * block_size ELSE Len(ones))
      flushed[k \in 0 .. ceil_div(Len(ones), block_size)] ==
        IF k = 0 THEN [positions |-> Len(ones), block_inventory |-> <<>>,
                       subblock_inventory |-> <<>>, overflow_positions |-> <<>>]
        ELSE flush_cur_block(flushed[k - 1], Block(k))
  IN  flushed[ceil_div(Len(ones), block_size)]

(* Mutant: a block is sparse if its place in the overflow is not the first.*)
select_SparseFromSecond(d, bv, idx) ==
  LET block_pos == d.block_inventory[idx \div block_size + 1]
      start_pos == block_pos + d.subblock_inventory[idx \div subblock_size + 1]
      reminder == idx % subblock_size
      found == kth_bit(bv.words, FALSE, start_pos \div word_width,
                       WordAt(bv.words, start_pos \div word_width)
                         \ Mask(start_pos % word_width), reminder)
  IN  IF block_pos < -1 THEN d.overflow_positions[-block_pos - 1 + (idx % block_size) + 1]
      ELSE IF reminder = 0 THEN start_pos
      ELSE found.word * word_width + found.bit

select(d, bv, idx) ==
  LET block_pos == d.block_inventory[idx \div block_size + 1]
      start_pos == block_pos + d.subblock_inventory[idx \div subblock_size + 1]
      reminder == idx % subblock_size
      found == kth_bit(bv.words, FALSE, start_pos \div word_width,
                       WordAt(bv.words, start_pos \div word_width)
                         \ Mask(start_pos % word_width), reminder)
  IN  IF block_pos < 0 THEN d.overflow_positions[-block_pos - 1 + (idx % block_size) + 1]
      ELSE IF reminder = 0 THEN start_pos
      ELSE found.word * word_width + found.bit
=============================================================================
