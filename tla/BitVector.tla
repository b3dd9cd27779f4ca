------------------------------ MODULE BitVector ------------------------------
(***************************************************************************)
(* bit_vector and its builder: a size in bits, and words. m_cur_word is    *)
(* the last word. The iterators are records of the fields they keep.       *)
(***************************************************************************)
EXTENDS Words

no_bits == [size |-> 0, words |-> <<>>]

zeros(n) == [size |-> n, words |-> [k \in 1 .. words_for(n) |-> {}]]
-----------------------------------------------------------------------------
zero_extend(bv, n) ==
  LET size == bv.size + n
  IN  [size  |-> size,
       words |-> bv.words \o [k \in 1 .. words_for(size) - Len(bv.words) |-> {}]]

set_bit(bv, pos) ==
  [bv EXCEPT !.words = Write(@, pos \div word_width, {pos % word_width}, {pos % word_width})]

(* len bits at pos, in one word or in two.                                 *)
write_bits(words, pos, bits, len, mask) ==
  LET word == pos \div word_width
      pos_in_word == pos % word_width
      stored == word_width - pos_in_word
      first == Write(words, word, Left(mask, pos_in_word), Left(bits, pos_in_word))
  IN  IF stored < len THEN Write(first, word + 1, Right(mask, stored), Right(bits, stored))
      ELSE first

set_bits(bv, pos, bits, len) ==
  IF len = 0 THEN bv ELSE [bv EXCEPT !.words = write_bits(@, pos, bits, len, Mask(len))]

append_bits(bv, bits, len) ==
  LET pos_in_word == bv.size % word_width
      last == Len(bv.words) - 1
      words == IF pos_in_word = 0 THEN Append(bv.words, bits)
               ELSE LET filled == Write(bv.words, last, {}, Left(bits, pos_in_word))
                    IN  IF len > word_width - pos_in_word
                        THEN Append(filled, Right(bits, word_width - pos_in_word))
                        ELSE filled
  IN  IF len = 0 THEN bv ELSE [size |-> bv.size + len, words |-> words]

(* append: each word of rhs goes to two words, unless they are aligned.    *)
append(bv, rhs) ==
  LET pos == Len(bv.words)
      shift == bv.size % word_width
      Own(k) == IF k <= pos THEN bv.words[k] ELSE {}
      Theirs(k) == IF k \in DOMAIN rhs.words THEN rhs.words[k] ELSE {}
  IN  [size  |-> bv.size + rhs.size,
       words |-> [k \in 1 .. words_for(bv.size + rhs.size) |->
                    IF shift = 0 THEN Own(k) \cup Theirs(k - pos)
                    ELSE Own(k) \cup Left(Theirs(k - pos + 1), shift)
                                \cup Right(Theirs(k - pos), word_width - shift)]]
-----------------------------------------------------------------------------
read_bits(words, pos, len, mask) ==
  LET block == pos \div word_width
      shift == pos % word_width
      first == Right(WordAt(words, block), shift)
  IN  IF shift + len <= word_width THEN first \cap mask
      ELSE first \cup (Left(WordAt(words, block + 1), word_width - shift) \cap mask)

get_bits(bv, pos, len) == IF len = 0 THEN {} ELSE read_bits(bv.words, pos, len, Mask(len))

get_word64(bv, pos) ==
  LET block == pos \div word_width
      shift == pos % word_width
      word == Right(WordAt(bv.words, block), shift)
  IN  IF shift # 0 /\ block + 1 < Len(bv.words)
      THEN word \cup Left(WordAt(bv.words, block + 1), word_width - shift) ELSE word

(* A word read at the byte of pos, which may go past the last one.         *)
unaligned_word(words, pos) ==
  LET begin == pos - (pos % byte_width)
      word == {b \in Bits : (begin + b) % word_width
                              \in WordAt(words, (begin + b) \div word_width)}
  IN  Right(word, pos % byte_width)

get_word56(bv, pos) == unaligned_word(bv.words, pos)
-----------------------------------------------------------------------------
(* The last one up to pos, from the word of pos back.                      *)
predecessor1(bv, pos) ==
  LET block == pos \div word_width
      word(k) == IF k = block THEN bv.words[k + 1] \cap Mask((pos % word_width) + 1)
                 ELSE bv.words[k + 1]
      found == CHOOSE k \in 0 .. block :
                 word(k) # {} /\ \A j \in k + 1 .. block : word(j) = {}
  IN  found * word_width + (CHOOSE b \in word(found) : \A c \in word(found) : c <= b)

(* Word by word, from word base on, of which buf is left, counting ones or *)
(* zeros: the word with the k-th, what was left of it, and the bit.        *)
kth_bit(words, zero, base, buf, k) ==
  LET word(j) == WordAt(words, base + j)
      Buf(j) == IF j = 0 THEN buf ELSE IF zero THEN Not(word(j)) ELSE word(j)
      skipped[j \in 0 .. Len(words) + k] ==
        IF j = 0 THEN 0 ELSE skipped[j - 1] + popcount(Buf(j - 1))
      passed == CHOOSE j \in DOMAIN skipped :
                  skipped[j] <= k /\ k < skipped[j] + popcount(Buf(j))
  IN  [buf |-> Buf(passed), bit |-> select_in_word(Buf(passed), k - skipped[passed]),
       word |-> base + passed]

(* unary_iterator: a position, and the ones of its word still to come.     *)
unary_iterator(bv, pos) ==
  [position |-> pos, buf |-> WordAt(bv.words, pos \div word_width) \ Mask(pos % word_width)]

skip(bv, it, k) ==
  LET found == kth_bit(bv.words, FALSE, it.position \div word_width, it.buf, k)
  IN  [position |-> found.word * word_width + found.bit, buf |-> found.buf \ Mask(found.bit)]

(* Mutant: the one is not consumed.                                        *)
next_one_Kept(bv, it) == skip(bv, it, 0)

next_one(bv, it) ==
  LET at == skip(bv, it, 0) IN [at EXCEPT !.buf = @ \ {at.position % word_width}]

(* skip0: a one that has been consumed counts as a zero.                   *)
skip0(bv, it, k) ==
  LET buf == Not(it.buf) \ Mask(it.position % word_width)
      found == kth_bit(bv.words, TRUE, it.position \div word_width, buf, k)
  IN  [position |-> found.word * word_width + found.bit,
       buf |-> Not(found.buf) \ Mask(found.bit)]
-----------------------------------------------------------------------------
(* bits_iterator: a position and a buffer of the bits from there on. Its   *)
(* reads give a value and the iterator they leave.                         *)
bits_iterator(pos) == [pos |-> pos, buf |-> {}, avail |-> 0]

fill_buf(bv, it) == [it EXCEPT !.buf = get_word64(bv, it.pos), !.avail = word_width]

iterator_get_bits(bv, it, len) ==
  LET from == IF it.avail < len THEN fill_buf(bv, it) ELSE it
  IN  [val |-> number(from.buf \cap Mask(len)),
       it  |-> [pos |-> from.pos + len, avail |-> from.avail - len,
                buf |-> IF len = word_width THEN from.buf ELSE Right(from.buf, len)]]

(* Zeros up to a one, which is passed too.                                 *)
iterator_skip_zeros(bv, it) ==
  LET refilled[k \in 0 .. words_for(bv.size) + 1] ==
        IF k = 0 THEN it
        ELSE LET x == refilled[k - 1]
             IN  fill_buf(bv, [x EXCEPT !.pos = @ + x.avail, !.avail = 0])
      from == refilled[CHOOSE k \in DOMAIN refilled :
                         refilled[k].buf # {} /\ \A j \in 0 .. k - 1 : refilled[j].buf = {}]
      l == lsb(from.buf)
  IN  [val |-> from.pos + l - it.pos,
       it  |-> [pos |-> from.pos + l + 1, buf |-> Right(from.buf, l + 1),
                avail |-> from.avail - l - 1]]
=============================================================================
