---------------------------- MODULE CompactVector ----------------------------
(***************************************************************************)
(* compact_vector and its builder: values of a fixed width, one after      *)
(* another in words. The builder writes at a cursor (push_back) or at an   *)
(* index (set); values are read at an index, by a read of a word at a      *)
(* byte, or through an enumerator, which has a cursor like the builder's.  *)
(***************************************************************************)
EXTENDS BitVector

cursor_at(pos) == [block |-> pos \div word_width, shift |-> pos % word_width]
cursor_pos(c) == c.block * word_width + c.shift

(* Where the cursor is after one value more, in this word or in the next.  *)
advanced(c, width) ==
  LET to == c.shift + width
  IN  [block |-> c.block + (to \div word_width), shift |-> to % word_width]

(* resize: a width of 0 becomes 1, but its mask stays empty.               *)
resized(n, w) ==
  LET width == IF w = 0 THEN 1 ELSE w
  IN  [size |-> n, width |-> width, mask |-> Mask(w), back |-> 0,
       cur |-> cursor_at(0), bits |-> zeros(n * width).words]

(* Mutant: what does not fit in a word is not carried to the next.         *)
push_back_NotCarried(cv, v) ==
  [cv EXCEPT !.back = v, !.cur = advanced(@, cv.width),
             !.bits = Write(@, cv.cur.block, Left(cv.mask, cv.cur.shift),
                            Left(bits_of(v), cv.cur.shift))]

push_back(cv, v) ==
  [cv EXCEPT !.back = v, !.cur = advanced(@, cv.width),
             !.bits = write_bits(@, cursor_pos(cv.cur), bits_of(v), cv.width, cv.mask)]

fill(cv, values) ==
  LET filled[k \in 0 .. Len(values)] ==
        IF k = 0 THEN cv ELSE push_back(filled[k - 1], values[k])
  IN  filled[Len(values)]

set(cv, i, v) ==
  [cv EXCEPT !.back = IF i = cv.size - 1 THEN v ELSE @,
             !.bits = write_bits(@, i * cv.width, bits_of(v), cv.width, cv.mask)]
-----------------------------------------------------------------------------
(* operator[]                                                              *)
get(cv, i) == number(read_bits(cv.bits, i * cv.width, cv.width, cv.mask))

(* At least word_width - byte_width + 1 bits from pos on are read.         *)
access_bits(cv, i) == number(unaligned_word(cv.bits, i * cv.width) \cap cv.mask)

(* The enumerator: * reads and moves the cursor, ++ moves only i.          *)
enumerator(cv, i) == [i |-> i, cur |-> cursor_at(i * cv.width)]

enumerator_value(cv, e) == number(read_bits(cv.bits, cursor_pos(e.cur), cv.width, cv.mask))

enumerator_read(cv, e) == [e EXCEPT !.cur = advanced(@, cv.width)]

enumerator_next(e) == [e EXCEPT !.i = @ + 1]
=============================================================================
