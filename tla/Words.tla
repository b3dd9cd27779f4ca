-------------------------------- MODULE Words --------------------------------
(***************************************************************************)
(* Machine words, as the sets of their bits that are 1: or is \cup, and is *)
(* \cap. A shift by the width of a word, which C++ leaves undefined, gives *)
(* no bits here; the code guards against it.                               *)
(***************************************************************************)
EXTENDS Integers, Sequences, FiniteSets

CONSTANTS
  word_width,   \* 64
  byte_width    \* 8, where unaligned reads begin

ASSUME WordsAssumption ==
  /\ word_width \in Nat \ {0}
  /\ byte_width \in Nat \ {0}
  /\ word_width % byte_width = 0

Bits == 0 .. word_width - 1
Word == SUBSET Bits

Left(w, k) == {b \in Bits : b - k \in w}
Right(w, k) == {b \in Bits : b + k \in w}
Mask(k) == 0 .. k - 1
Not(w) == Bits \ w

(* 1 << k.                                                                 *)
power[k \in Nat] == IF k = 0 THEN 1 ELSE 2 * power[k - 1]

(* The word of a number, and the number of a word.                         *)
bits_of(v) == {b \in Bits : (v \div power[b]) % 2 = 1}
number(w) ==
  LET below[k \in 0 .. word_width] ==
        IF k = 0 THEN 0 ELSE below[k - 1] + IF k - 1 \in w THEN power[k - 1] ELSE 0
  IN  below[word_width]

ceil_div(a, b) == (a + b - 1) \div b
msb(x) == CHOOSE b \in 0 .. x : power[b] <= x /\ x < power[b + 1]
ceil_log2(x) == IF x > 1 THEN msb(x - 1) + 1 ELSE 0

popcount(w) == Cardinality(w)
select_in_word(w, k) == CHOOSE b \in w : Cardinality(w \cap Mask(b)) = k
lsb(w) == select_in_word(w, 0)

(* Words in memory: past the last one there is something else, here ones.  *)
words_for(n) == ceil_div(n, word_width)
WordAt(words, k) == IF k + 1 \in DOMAIN words THEN words[k + 1] ELSE Bits

(* A write that clears some bits of word k and sets others.                *)
Write(words, k, cleared, set) == [words EXCEPT ![k + 1] = (@ \ cleared) \cup set]
=============================================================================
