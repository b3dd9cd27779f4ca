-------------------------- MODULE PefSequence_proofs --------------------------
(***************************************************************************)
(* Proofs about PefSequence, for levels, partitions and thresholds of any  *)
(* size. What write() makes is read back (Readable): the codes and numbers *)
(* of its header lie where they are looked for, the lists begin where its  *)
(* endpoints say, and each is found with its bounds. An iterator is then   *)
(* on a partition, wherever it has been, and moving it gives the one that  *)
(* stands at the position. While find searches, the shared iterator is at  *)
(* the range's beginning, or in the partition whose bounds are around what *)
(* it looks for (SearchInv).                                               *)
(***************************************************************************)
EXTENDS PefSequence, Basics_proofs
-----------------------------------------------------------------------------
(* A number is below its power of 2.                                       *)
LEMMA PowerAbove ==
  ASSUME NEW x \in Nat
  PROVE  x < power[x]
<1> DEFINE Q == {k \in Nat : k < power[k]}
<1>0. \A k \in Nat : power[k] \in Nat \ {0}
  BY Powers
<1>1. 0 \in Q
  BY Powers
<1>2. ASSUME NEW k \in 0 .. x - 1, k \in Q PROVE k + 1 \in Q
  <2>1. k \in Nat /\ k + 1 \in Nat /\ power[k] \in Nat \ {0} /\ k < power[k]
    BY <1>0, <1>2
  <2>2. power[k + 1] = 2 * power[k]
    BY <2>1, Powers
  <2>3. k + 1 < power[k + 1]
    BY <2>1, <2>2
  <2> QED
    BY <2>1, <2>3
<1>3. x \in Q
  <2> HIDE DEF Q
  <2> QED
    BY <1>1, <1>2, InductionUpTo
<1> QED
  BY <1>3

(* A number of so many bits has its highest bit among them.                *)
LEMMA MsbWithin ==
  ASSUME NEW v \in Nat \ {0}, NEW len \in Nat, v < power[len]
  PROVE  msb(v) \in 0 .. len - 1
<1>1. PICK m \in Nat : m = msb(v) /\ power[m] <= v
  BY MsbKnown
<1>2. CASE len <= m
  <2>1. power[len] <= power[m] /\ power[len] \in Nat /\ power[m] \in Nat
    BY <1>1, <1>2, PowersOrdered, Powers
  <2> QED
    BY <1>1, <2>1
<1> QED
  BY <1>1, <1>2

(* The bits of a number below its highest are those of the rest.           *)
LEMMA BelowHighest ==
  ASSUME NEW v \in Nat \ {0}, v < power[word_width]
  PROVE  /\ msb(v) \in 0 .. word_width - 1
         /\ power[msb(v)] \in Nat \ {0} /\ power[msb(v)] <= v
         /\ below_msb(v) \in SUBSET (0 .. msb(v) - 1)
         /\ number(below_msb(v)) = v - power[msb(v)]
<1>0. word_width \in Nat \ {0}
  BY WordsAssumption
<1>1. PICK m \in Nat : m = msb(v) /\ power[m] <= v /\ v < power[m + 1]
  BY MsbKnown
<1>2. m \in 0 .. word_width - 1
  BY <1>0, <1>1, MsbWithin
<1>3. power[m] \in Nat \ {0} /\ power[m + 1] = 2 * power[m]
  BY <1>1, Powers
<1>4. bits_of(v) \subseteq Mask(m + 1)
  <2>1. m + 1 \in 0 .. word_width
    BY <1>0, <1>2
  <2> QED
    BY <1>1, <2>1, BitsWithin
<1>5. below_msb(v) = bits_of(v) \cap Mask(m)
  <2>1. \A x \in Mask(m + 1) : x # m <=> x \in Mask(m)
    BY <1>1 DEF Mask
  <2>2. Mask(m) \subseteq Mask(m + 1) /\ m \notin Mask(m)
    BY <1>1 DEF Mask
  <2> QED
    BY <1>1, <1>4, <2>1, <2>2 DEF below_msb
<1>6. v = (v \div power[m]) * power[m] + number(bits_of(v) \cap Mask(m))
  <2>1. m \in 0 .. word_width
    BY <1>0, <1>2
  <2> QED
    BY <2>1, LowBits
<1>7. v \div power[m] = 1
  <2>1. PICK p \in Nat \ {0} : p = power[m]
    BY <1>3
  <2>2. v - p \in 0 .. p - 1 /\ v = p * 1 + (v - p)
    BY <1>1, <1>3, <2>1
  <2>3. (p * 1 + (v - p)) \div p = 1
    BY <2>1, <2>2, DivisionKnown
  <2> QED
    BY <2>1, <2>2, <2>3
<1>8. number(below_msb(v)) = v - power[m]
  <2>1. PICK p \in Nat \ {0} : p = power[m]
    BY <1>3
  <2>2. v = p + number(bits_of(v) \cap Mask(m)) /\ number(bits_of(v) \cap Mask(m)) \in Int
    <3>1. v = 1 * p + number(bits_of(v) \cap Mask(m))
      BY <1>6, <1>7, <2>1
    <3>2. number(bits_of(v) \cap Mask(m)) \in Nat
      <4>1. m \in 0 .. word_width
        BY <1>0, <1>2
      <4> QED
        BY <4>1, LowBits
    <3> QED
      BY <3>1, <3>2, <2>1
  <2> QED
    BY <1>5, <2>1, <2>2
<1>9. below_msb(v) \in SUBSET (0 .. m - 1)
  BY <1>5 DEF Mask
<1> QED
  BY <1>1, <1>2, <1>3, <1>8, <1>9

-----------------------------------------------------------------------------
(* The bits from a on, len of them, are those of a set.                    *)
Spelt(bv, a, len, bits) == \A x \in 0 .. len - 1 : BitAt(bv.words, a + x) <=> x \in bits

(* new goes on from the bits of bv.                                        *)
Continues(new, bv) ==
  /\ bv.size <= new.size
  /\ \A p \in 0 .. bv.size - 1 : BitAt(new.words, p) <=> BitAt(bv.words, p)

(* The gamma code of n lies from a to b; its delta code does.              *)
GammaAt(bv, a, n, b) ==
  LET l == msb(n + 1)
  IN  /\ b = a + l + 1 + l /\ b <= bv.size
      /\ Spelt(bv, a, l + 1, {l}) /\ Spelt(bv, a + l + 1, l, below_msb(n + 1))

DeltaAt(bv, a, n, b) ==
  LET l == msb(n + 1)
  IN  \E c \in Nat : /\ GammaAt(bv, a, l, c)
                     /\ b = c + l /\ b <= bv.size /\ Spelt(bv, c, l, below_msb(n + 1))

(* What lies in a vector lies in what goes on from it.                     *)
LEMMA SpeltKept ==
  ASSUME NEW bv, bv.size \in Nat, NEW new, new.size \in Nat, Continues(new, bv),
         NEW a \in Nat, NEW len \in Nat, NEW bits, Spelt(bv, a, len, bits), a + len <= bv.size
  PROVE  Spelt(new, a, len, bits)
<1>1. ASSUME NEW x \in 0 .. len - 1 PROVE BitAt(new.words, a + x) <=> x \in bits
  <2>1. a + x \in 0 .. bv.size - 1
    OBVIOUS
  <2>2. BitAt(new.words, a + x) <=> BitAt(bv.words, a + x)
    BY <2>1 DEF Continues
  <2>3. BitAt(bv.words, a + x) <=> x \in bits
    BY DEF Spelt
  <2> QED
    BY <2>2, <2>3
<1> QED
  BY <1>1 DEF Spelt

LEMMA GammaKept ==
  ASSUME NEW bv, bv.size \in Nat, NEW new, new.size \in Nat, Continues(new, bv),
         NEW a \in Nat, NEW n \in Nat, NEW b \in Nat, GammaAt(bv, a, n, b)
  PROVE  GammaAt(new, a, n, b)
<1>1. PICK l \in Nat : l = msb(n + 1)
  BY MsbKnown
<1>2. b = a + l + 1 + l /\ b <= bv.size /\ bv.size <= new.size
  BY <1>1 DEF GammaAt, Continues
<1>3. Spelt(bv, a, l + 1, {l}) /\ Spelt(bv, a + l + 1, l, below_msb(n + 1))
  BY <1>1 DEF GammaAt
<1>4. Spelt(new, a, l + 1, {l})
  <2>1. l + 1 \in Nat /\ a + (l + 1) <= bv.size
    BY <1>2
  <2> QED
    BY <1>3, <2>1, SpeltKept
<1>5. Spelt(new, a + l + 1, l, below_msb(n + 1))
  <2>1. a + l + 1 \in Nat /\ (a + l + 1) + l <= bv.size
    BY <1>2
  <2> QED
    BY <1>3, <2>1, SpeltKept
<1> QED
  BY <1>1, <1>2, <1>4, <1>5 DEF GammaAt

LEMMA DeltaKept ==
  ASSUME NEW bv, bv.size \in Nat, NEW new, new.size \in Nat, Continues(new, bv),
         NEW a \in Nat, NEW n \in Nat, NEW b \in Nat, DeltaAt(bv, a, n, b)
  PROVE  DeltaAt(new, a, n, b)
<1>1. PICK l \in Nat : l = msb(n + 1)
  BY MsbKnown
<1>2. PICK c \in Nat : /\ GammaAt(bv, a, l, c)
                       /\ b = c + l /\ b <= bv.size /\ Spelt(bv, c, l, below_msb(n + 1))
  BY <1>1 DEF DeltaAt
<1>3. GammaAt(new, a, l, c)
  BY <1>2, GammaKept
<1>4. Spelt(new, c, l, below_msb(n + 1))
  BY <1>2, SpeltKept
<1>5. b <= new.size
  BY <1>2 DEF Continues
<1> QED
  BY <1>1, <1>2, <1>3, <1>4, <1>5 DEF DeltaAt

(* What is appended lies at the end of a vector that goes on.              *)
LEMMA AppendedSpelt ==
  ASSUME NEW bv, Packed(bv), NEW len \in 0 .. word_width, NEW bits \in SUBSET (0 .. len - 1),
         NEW new, new = append_bits(bv, bits, len)
  PROVE  /\ Packed(new) /\ new.size = bv.size + len /\ bv.size \in Nat /\ new.size \in Nat
         /\ Continues(new, bv) /\ Spelt(new, bv.size, len, bits)
<1>1. /\ Packed(new) /\ new.size = bv.size + len
      /\ \A p \in 0 .. bv.size - 1 : BitAt(new.words, p) <=> BitAt(bv.words, p)
      /\ \A x \in 0 .. len - 1 : BitAt(new.words, bv.size + x) <=> x \in bits
  BY BitsAppended
<1>2. bv.size \in Nat /\ new.size \in Nat
  BY <1>1 DEF Packed, BitVec
<1>3. len \in Nat
  BY WordsAssumption
<1> QED
  BY <1>1, <1>2, <1>3 DEF Continues, Spelt

(* What goes on from a vector that goes on from another does from it too.  *)
LEMMA ContinuesOn ==
  ASSUME NEW x, x.size \in Nat, NEW y, y.size \in Nat, NEW z, z.size \in Nat,
         Continues(y, x), Continues(z, y)
  PROVE  Continues(z, x)
<1>1. x.size <= z.size
  BY DEF Continues
<1>2. ASSUME NEW p \in 0 .. x.size - 1 PROVE BitAt(z.words, p) <=> BitAt(x.words, p)
  <2>1. p \in 0 .. y.size - 1
    BY DEF Continues
  <2> QED
    BY <2>1 DEF Continues
<1> QED
  BY <1>1, <1>2 DEF Continues

(* The codes are written at the end.                                       *)
LEMMA GammaWritten ==
  ASSUME NEW bv, Packed(bv), NEW n \in Nat, n + 1 < power[word_width], NEW new,
         new = write_gamma(bv, n)
  PROVE  /\ Packed(new) /\ bv.size \in Nat /\ new.size \in Nat
         /\ Continues(new, bv) /\ GammaAt(new, bv.size, n, new.size)
<1>0. word_width \in Nat \ {0}
  BY WordsAssumption
<1>1. PICK l \in 0 .. word_width - 1 : l = msb(n + 1) /\ below_msb(n + 1) \in SUBSET (0 .. l - 1)
  BY BelowHighest
<1>2. PICK mid : mid = append_bits(bv, {l}, l + 1)
  OBVIOUS
<1>3. /\ Packed(mid) /\ mid.size = bv.size + (l + 1) /\ bv.size \in Nat /\ mid.size \in Nat
      /\ Continues(mid, bv) /\ Spelt(mid, bv.size, l + 1, {l})
  <2>1. l + 1 \in 0 .. word_width /\ {l} \in SUBSET (0 .. (l + 1) - 1)
    BY <1>0
  <2> QED
    BY <1>2, <2>1, AppendedSpelt
<1>4. new = append_bits(mid, below_msb(n + 1), l)
  BY <1>1, <1>2 DEF write_gamma
<1>5. /\ Packed(new) /\ new.size = mid.size + l /\ new.size \in Nat
      /\ Continues(new, mid) /\ Spelt(new, mid.size, l, below_msb(n + 1))
  <2>1. l \in 0 .. word_width
    BY <1>0
  <2> QED
    BY <1>1, <1>3, <1>4, <2>1, AppendedSpelt
<1>6. Continues(new, bv)
  BY <1>3, <1>5, ContinuesOn
<1>7. Spelt(new, bv.size, l + 1, {l})
  <2>1. l + 1 \in Nat /\ bv.size + (l + 1) <= mid.size
    BY <1>3
  <2> QED
    BY <1>3, <1>5, <2>1, SpeltKept
<1>8. mid.size = bv.size + l + 1 /\ new.size = bv.size + l + 1 + l
  BY <1>3, <1>5
<1>9. GammaAt(new, bv.size, n, new.size)
  BY <1>1, <1>5, <1>7, <1>8 DEF GammaAt
<1> QED
  BY <1>3, <1>5, <1>6, <1>9

LEMMA DeltaWritten ==
  ASSUME NEW bv, Packed(bv), NEW n \in Nat, n + 1 < power[word_width], NEW new,
         new = write_delta(bv, n)
  PROVE  /\ Packed(new) /\ bv.size \in Nat /\ new.size \in Nat
         /\ Continues(new, bv) /\ DeltaAt(new, bv.size, n, new.size)
<1>0. word_width \in Nat \ {0}
  BY WordsAssumption
<1>1. PICK l \in 0 .. word_width - 1 : l = msb(n + 1) /\ below_msb(n + 1) \in SUBSET (0 .. l - 1)
  BY BelowHighest
<1>2. PICK mid : mid = write_gamma(bv, l)
  OBVIOUS
<1>3. /\ Packed(mid) /\ bv.size \in Nat /\ mid.size \in Nat
      /\ Continues(mid, bv) /\ GammaAt(mid, bv.size, l, mid.size)
  <2>1. l \in Nat /\ l + 1 < power[word_width]
    <3>1. PICK w \in Nat : w = word_width /\ w < power[w] /\ power[w] \in Nat
      BY <1>0, PowerAbove, Powers
    <3> QED
      BY <1>0, <3>1
  <2> QED
    BY <1>2, <2>1, GammaWritten
<1>4. new = append_bits(mid, below_msb(n + 1), l)
  BY <1>1, <1>2 DEF write_delta
<1>5. /\ Packed(new) /\ new.size = mid.size + l /\ new.size \in Nat
      /\ Continues(new, mid) /\ Spelt(new, mid.size, l, below_msb(n + 1))
  <2>1. l \in 0 .. word_width
    BY <1>0
  <2> QED
    BY <1>1, <1>3, <1>4, <2>1, AppendedSpelt
<1>6. Continues(new, bv)
  BY <1>3, <1>5, ContinuesOn
<1>7. GammaAt(new, bv.size, l, mid.size)
  <2>1. l \in Nat
    OBVIOUS
  <2> QED
    BY <1>3, <1>5, <2>1, GammaKept
<1>8. DeltaAt(new, bv.size, n, new.size)
  BY <1>1, <1>3, <1>5, <1>7 DEF DeltaAt
<1> QED
  BY <1>3, <1>5, <1>6, <1>8

-----------------------------------------------------------------------------
(* The buffer of a bits_iterator has the bits from its position on.        *)
Buffered(bv, it) ==
  /\ it \in [pos : Nat, buf : SUBSET Bits, avail : 0 .. word_width]
  /\ \A x \in it.buf : x < it.avail
  /\ \A x \in 0 .. it.avail - 1 :
       it.pos + x < bv.size => (x \in it.buf <=> BitAt(bv.words, it.pos + x))

(* A bits_iterator of given parts, and updates of it.                      *)
ItOf(pos, buf, avail) == [pos |-> pos, buf |-> buf, avail |-> avail]
Drained(it, x) == [it EXCEPT !.pos = @ + x.avail, !.avail = 0]

(* What the changes of a bits_iterator lead to.                            *)
LEMMA IteratorUpdated ==
  ASSUME NEW bv, NEW pos, NEW buf, NEW avail
  PROVE  /\ fill_buf(bv, ItOf(pos, buf, avail)) = ItOf(pos, get_word64(bv, pos), word_width)
         /\ Drained(ItOf(pos, buf, avail), ItOf(pos, buf, avail)) = ItOf(pos + avail, buf, 0)
<1> DEFINE P(x, y) == [x EXCEPT !.pos = y]
           B(x, y) == [x EXCEPT !.buf = y]
           A(x, y) == [x EXCEPT !.avail = y]
           Sets(p1, b1, a1) == \A y : /\ P(ItOf(p1, b1, a1), y) = ItOf(y, b1, a1)
                                      /\ B(ItOf(p1, b1, a1), y) = ItOf(p1, y, a1)
                                      /\ A(ItOf(p1, b1, a1), y) = ItOf(p1, b1, y)
<1>1. \A p1, b1, a1 : Sets(p1, b1, a1)
  BY DEF ItOf
<1>2. ItOf(pos, buf, avail).pos = pos /\ ItOf(pos, buf, avail).avail = avail
  BY DEF ItOf
<1>3. /\ \A x : fill_buf(bv, x) = A(B(x, get_word64(bv, x.pos)), word_width)
      /\ \A x, z : Drained(x, z) = A(P(x, x.pos + z.avail), 0)
  BY DEF fill_buf, Drained
<1> HIDE DEF P, B, A
<1> QED
  BY <1>1, <1>2, <1>3

(* At the start the buffer is empty; when it is filled it has a word.      *)
LEMMA StartBuffered ==
  ASSUME NEW bv
  PROVE  Buffered(bv, bits_iterator(0)) /\ bits_iterator(0).pos = 0
<1>1. 0 \in 0 .. word_width
  BY WordsAssumption
<1> QED
  BY <1>1 DEF Buffered, bits_iterator

LEMMA FilledBuffered ==
  ASSUME NEW bv, BitVec(bv), NEW it \in [pos : Nat, buf : SUBSET Bits, avail : 0 .. word_width]
  PROVE  Buffered(bv, fill_buf(bv, it)) /\ fill_buf(bv, it).pos = it.pos
         /\ fill_buf(bv, it).avail = word_width
<1>0. word_width \in Nat \ {0}
  BY WordsAssumption
<1>1. PICK p \in Nat : p = it.pos
  OBVIOUS
<1>2. /\ get_word64(bv, p) \in SUBSET Bits
      /\ \A x \in Bits : p + x < bv.size => (x \in get_word64(bv, p) <=> BitAt(bv.words, p + x))
  BY WordRead DEF Word
<1>3. PICK y : y = fill_buf(bv, it)
  OBVIOUS
<1>4. y.pos = p /\ y.avail = word_width /\ y.buf = get_word64(bv, p)
      /\ y \in [pos : Nat, buf : SUBSET Bits, avail : 0 .. word_width]
  <2>1. word_width \in 0 .. word_width
    BY <1>0
  <2> QED
    BY <1>1, <1>2, <1>3, <2>1 DEF fill_buf
<1>5. \A x \in Bits : x \in 0 .. word_width - 1 /\ x < word_width
  BY <1>0 DEF Bits
<1>6. \A x \in 0 .. word_width - 1 : x \in Bits
  BY DEF Bits
<1>7. Buffered(bv, y)
  BY <1>2, <1>4, <1>5, <1>6 DEF Buffered
<1> QED
  BY <1>1, <1>3, <1>4, <1>7

(* After the first bits of a buffer it has those that follow.              *)
LEMMA BufferShifted ==
  ASSUME NEW bv, NEW it, Buffered(bv, it), NEW len \in 0 .. it.avail, NEW new,
         new = [pos |-> it.pos + len, buf |-> Right(it.buf, len), avail |-> it.avail - len]
  PROVE  Buffered(bv, new)
<1>0. /\ it.pos \in Nat /\ it.avail \in 0 .. word_width /\ word_width \in Nat /\ len \in Nat
      /\ it.buf \in SUBSET Bits
  BY WordsAssumption DEF Buffered
<1>1. \A x : x \in Right(it.buf, len) <=> x \in Bits /\ x + len \in it.buf
  BY DEF Right
<1>2. new \in [pos : Nat, buf : SUBSET Bits, avail : 0 .. word_width]
  <2>1. Right(it.buf, len) \in SUBSET Bits
    BY <1>1
  <2>2. it.pos + len \in Nat /\ it.avail - len \in 0 .. word_width
    BY <1>0
  <2> QED
    BY <2>1, <2>2
<1>3. ASSUME NEW x \in new.buf PROVE x < new.avail
  <2>1. x + len \in it.buf /\ x \in Bits
    BY <1>1
  <2>2. x + len < it.avail /\ x \in Nat
    BY <2>1 DEF Buffered, Bits
  <2> QED
    BY <1>0, <2>2
<1>4. ASSUME NEW x \in 0 .. new.avail - 1, new.pos + x < bv.size
      PROVE  x \in new.buf <=> BitAt(bv.words, new.pos + x)
  <2>1. x + len \in 0 .. it.avail - 1 /\ x \in Bits /\ it.pos + (x + len) = new.pos + x
    BY <1>0 DEF Bits
  <2>2. x + len \in it.buf <=> BitAt(bv.words, new.pos + x)
    BY <1>4, <2>1 DEF Buffered
  <2> QED
    BY <1>1, <2>1, <2>2
<1> QED
  BY <1>2, <1>3, <1>4 DEF Buffered

(* A few bits are read and passed.                                         *)
LEMMA BitsGotten ==
  ASSUME NEW bv, BitVec(bv), NEW it, Buffered(bv, it), NEW len \in 0 .. word_width - 1,
         it.pos + len <= bv.size, NEW bits \in SUBSET (0 .. len - 1), Spelt(bv, it.pos, len, bits)
  PROVE  LET got == iterator_get_bits(bv, it, len)
         IN  got.val = number(bits) /\ Buffered(bv, got.it) /\ got.it.pos = it.pos + len
<1>0. /\ word_width \in Nat \ {0} /\ it.pos \in Nat /\ it.avail \in 0 .. word_width
      /\ it \in [pos : Nat, buf : SUBSET Bits, avail : 0 .. word_width] /\ bv.size \in Nat
  BY WordsAssumption DEF Buffered, BitVec
<1>1. PICK from : from = IF it.avail < len THEN fill_buf(bv, it) ELSE it
  OBVIOUS
<1>2. Buffered(bv, from) /\ from.pos = it.pos /\ len <= from.avail
  <2>1. CASE it.avail < len
    BY <1>0, <1>1, <2>1, FilledBuffered
  <2>2. CASE ~ it.avail < len
    BY <1>0, <1>1, <2>2
  <2> QED
    BY <2>1, <2>2
<1>3. from.avail \in 0 .. word_width /\ len \in 0 .. from.avail
  BY <1>0, <1>2 DEF Buffered
<1>4. from.buf \cap Mask(len) = bits
  <2>1. ASSUME NEW x \in 0 .. len - 1 PROVE x \in from.buf <=> x \in bits
    <3>1. x \in 0 .. from.avail - 1 /\ from.pos + x < bv.size
      BY <1>0, <1>2, <1>3
    <3>2. x \in from.buf <=> BitAt(bv.words, it.pos + x)
      BY <1>2, <3>1 DEF Buffered
    <3>3. BitAt(bv.words, it.pos + x) <=> x \in bits
      BY DEF Spelt
    <3> QED
      BY <3>2, <3>3
  <2> QED
    BY <2>1 DEF Mask
<1>5. PICK new : new = [pos |-> from.pos + len, buf |-> Right(from.buf, len), avail |-> from.avail - len]
  OBVIOUS
<1>6. Buffered(bv, new) /\ new.pos = it.pos + len
  BY <1>2, <1>3, <1>5, BufferShifted
<1>7. iterator_get_bits(bv, it, len)
        = [val |-> number(from.buf \cap Mask(len)),
           it  |-> [pos |-> from.pos + len, avail |-> from.avail - len, buf |-> Right(from.buf, len)]]
  <2>1. len # word_width
    BY <1>0
  <2> QED
    BY <1>1, <2>1 DEF iterator_get_bits
<1>8. [pos |-> from.pos + len, avail |-> from.avail - len, buf |-> Right(from.buf, len)] = new
  BY <1>5
<1> QED
  BY <1>4, <1>6, <1>7, <1>8

(* The refills of a search for a one, each at the end of the last buffer.  *)
Refill(bv, it, f, k) ==
  IF k = 0 THEN it
  ELSE LET x == f[k - 1] IN fill_buf(bv, Drained(x, x))

RefillAt(bv, it, k) ==
  IF k = 0 THEN it
  ELSE LET pos == it.pos + it.avail + (k - 1) * word_width
       IN  ItOf(pos, get_word64(bv, pos), word_width)

(* Every refill has a word of what comes next.                             *)
LEMMA Refills ==
  ASSUME NEW bv, BitVec(bv), NEW it, Buffered(bv, it), NEW m \in Nat
  PROVE  LET f == CHOOSE f : f = [k \in 0 .. m |-> Refill(bv, it, f, k)]
         IN  /\ DOMAIN f = 0 .. m
             /\ \A k \in 0 .. m : f[k] = RefillAt(bv, it, k) /\ Buffered(bv, f[k])
<1>0. /\ word_width \in Nat \ {0} /\ it.pos \in Nat /\ it.avail \in 0 .. word_width
      /\ it \in [pos : Nat, buf : SUBSET Bits, avail : 0 .. word_width]
  BY WordsAssumption DEF Buffered
<1> DEFINE g == [k \in 0 .. m |-> RefillAt(bv, it, k)]
           f == CHOOSE f : f = [k \in 0 .. m |-> Refill(bv, it, f, k)]
           Pos(k) == it.pos + it.avail + (k - 1) * word_width
<1>1. ASSUME NEW k \in Nat \ {0}
      PROVE  /\ Pos(k) \in Nat /\ Pos(k + 1) = Pos(k) + word_width
             /\ RefillAt(bv, it, k) = ItOf(Pos(k), get_word64(bv, Pos(k)), word_width)
  <2>1. PICK a \in Nat : a = (k - 1) * word_width
    BY <1>0
  <2>2. ((k + 1) - 1) * word_width = a + word_width
    BY <1>0, <2>1
  <2> QED
    BY <1>0, <2>1, <2>2 DEF RefillAt
<1>2. ASSUME NEW h, NEW k \in Nat \ {0}, h[k - 1] = RefillAt(bv, it, k - 1)
      PROVE  Refill(bv, it, h, k) = RefillAt(bv, it, k)
  <2>1. CASE k = 1
    <3>1. h[k - 1] = it /\ Pos(k) = it.pos + it.avail
      BY <1>0, <1>2, <2>1 DEF RefillAt
    <3>2. it = ItOf(it.pos, it.buf, it.avail)
      BY <1>0 DEF ItOf
    <3> HIDE DEF Pos
    <3>3. Drained(it, it) = ItOf(Pos(k), it.buf, 0)
      BY <3>1, <3>2, IteratorUpdated
    <3>4. Refill(bv, it, h, k) = fill_buf(bv, Drained(it, it))
      BY <2>1, <3>1 DEF Refill
    <3> QED
      BY <1>1, <3>3, <3>4, IteratorUpdated
  <2>2. CASE k # 1
    <3>1. k - 1 \in Nat \ {0} /\ (k - 1) + 1 = k /\ k # 0
      BY <2>2
    <3>2. Pos(k) = Pos(k - 1) + word_width
      BY <1>1, <3>1
    <3>3. PICK buf : h[k - 1] = ItOf(Pos(k - 1), buf, word_width)
      BY <1>1, <1>2, <3>1
    <3> HIDE DEF Pos
    <3>4. Drained(h[k - 1], h[k - 1]) = ItOf(Pos(k), buf, 0)
      BY <3>2, <3>3, IteratorUpdated
    <3>5. Refill(bv, it, h, k) = fill_buf(bv, Drained(h[k - 1], h[k - 1]))
      BY <3>1 DEF Refill
    <3> QED
      BY <1>1, <3>4, <3>5, IteratorUpdated
  <2> QED
    BY <2>1, <2>2
<1>3. g = [k \in 0 .. m |-> Refill(bv, it, g, k)]
  <2>1. ASSUME NEW k \in 0 .. m PROVE g[k] = Refill(bv, it, g, k)
    <3>1. CASE k = 0
      BY <3>1 DEF Refill, RefillAt
    <3>2. CASE k # 0
      <4>1. k \in Nat \ {0} /\ k - 1 \in 0 .. m
        BY <3>2
      <4>2. g[k - 1] = RefillAt(bv, it, k - 1)
        BY <4>1
      <4> HIDE DEF g
      <4>3. Refill(bv, it, g, k) = RefillAt(bv, it, k)
        BY <1>2, <4>1, <4>2
      <4> QED
        BY <4>3 DEF g
    <3> QED
      BY <3>1, <3>2
  <2> HIDE DEF g
  <2>2. g = [k \in 0 .. m |-> g[k]]
    BY DEF g
  <2> QED
    BY <2>1, <2>2
<1> HIDE DEF g, Pos
<1>4. f = [k \in 0 .. m |-> Refill(bv, it, f, k)]
  BY <1>3
<1> HIDE DEF f
<1>5. ASSUME NEW k \in 0 .. m PROVE f[k] = RefillAt(bv, it, k)
  <2> DEFINE P == {j \in 0 .. m : f[j] = RefillAt(bv, it, j)}
  <2>1. 0 \in P
    <3>1. 0 \in 0 .. m
      OBVIOUS
    <3>2. f[0] = Refill(bv, it, f, 0)
      BY <1>4, <3>1
    <3> QED
      BY <3>1, <3>2 DEF Refill, RefillAt
  <2>2. ASSUME NEW j \in 0 .. m - 1, j \in P PROVE j + 1 \in P
    <3>1. j + 1 \in Nat \ {0} /\ (j + 1) - 1 = j /\ j + 1 \in 0 .. m
      OBVIOUS
    <3>2. f[j + 1] = Refill(bv, it, f, j + 1)
      BY <1>4, <3>1
    <3>3. Refill(bv, it, f, j + 1) = RefillAt(bv, it, j + 1)
      BY <1>2, <2>2, <3>1
    <3> QED
      BY <3>1, <3>2, <3>3
  <2>3. \A j \in 0 .. m : j \in P
    <3> HIDE DEF P
    <3> QED
      BY <2>1, <2>2, InductionUpTo
  <2> QED
    BY <2>3
<1>6. ASSUME NEW k \in 0 .. m PROVE Buffered(bv, f[k])
  <2>1. CASE k = 0
    BY <1>5, <2>1 DEF RefillAt
  <2>2. CASE k # 0
    <3>1. k \in Nat \ {0}
      BY <2>2
    <3>2. f[k] = ItOf(Pos(k), get_word64(bv, Pos(k)), word_width) /\ Pos(k) \in Nat
      BY <1>1, <1>5, <3>1
    <3>3. ItOf(Pos(k), {}, 0) \in [pos : Nat, buf : SUBSET Bits, avail : 0 .. word_width]
      BY <1>0, <3>2 DEF ItOf
    <3>4. fill_buf(bv, ItOf(Pos(k), {}, 0)) = f[k]
      BY <3>2, IteratorUpdated
    <3> QED
      BY <3>3, <3>4, FilledBuffered
  <2> QED
    BY <2>1, <2>2
<1> QED
  <2>1. DOMAIN f = 0 .. m
    BY <1>4
  <2> QED
    BY <1>5, <1>6, <2>1 DEF f

(* From a place on there are zeros up to the one at q.                     *)
FirstOne(bv, pos, q) ==
  /\ pos \in Nat /\ q \in Nat /\ pos <= q /\ q < bv.size
  /\ \A p \in pos .. q - 1 : ~ BitAt(bv.words, p)
  /\ BitAt(bv.words, q)

(* A buffer that ends before that one is empty, and in that which has it   *)
(* it is the lowest.                                                       *)
LEMMA BufferEmpty ==
  ASSUME NEW bv, BitVec(bv), NEW pos, NEW q, FirstOne(bv, pos, q),
         NEW y, Buffered(bv, y), pos <= y.pos, y.pos + y.avail <= q
  PROVE  y.buf = {}
<1>0. y.pos \in Nat /\ y.avail \in Nat /\ y.buf \in SUBSET Bits /\ bv.size \in Nat
      /\ word_width \in Nat /\ q \in Nat /\ pos \in Nat /\ q < bv.size
  BY WordsAssumption DEF Buffered, BitVec, FirstOne
<1>1. ASSUME NEW x \in y.buf PROVE FALSE
  <2>1. x \in Nat /\ x < y.avail
    BY <1>0, <1>1 DEF Buffered, Bits
  <2>2. x \in 0 .. y.avail - 1 /\ y.pos + x < bv.size /\ y.pos + x \in pos .. q - 1
    BY <1>0, <2>1
  <2>3. BitAt(bv.words, y.pos + x)
    BY <1>1, <2>2 DEF Buffered
  <2> QED
    BY <2>2, <2>3 DEF FirstOne
<1> QED
  BY <1>1

LEMMA BufferLowest ==
  ASSUME NEW bv, BitVec(bv), NEW pos, NEW q, FirstOne(bv, pos, q),
         NEW y, Buffered(bv, y), pos <= y.pos, y.pos <= q, q < y.pos + y.avail
  PROVE  y.buf # {} /\ lsb(y.buf) = q - y.pos
<1>0. /\ y.pos \in Nat /\ y.avail \in 0 .. word_width /\ y.buf \in SUBSET Bits /\ bv.size \in Nat
      /\ word_width \in Nat /\ q \in Nat /\ pos \in Nat /\ q < bv.size
  BY WordsAssumption DEF Buffered, BitVec, FirstOne
<1>1. PICK d \in Nat : d = q - y.pos /\ d \in 0 .. y.avail - 1 /\ y.pos + d = q
  BY <1>0
<1>2. d \in y.buf
  <2>1. BitAt(bv.words, q)
    BY DEF FirstOne
  <2> QED
    BY <1>0, <1>1, <2>1 DEF Buffered
<1>3. ASSUME NEW x \in 0 .. d - 1 PROVE x \notin y.buf
  <2>1. x \in 0 .. y.avail - 1 /\ y.pos + x < bv.size /\ y.pos + x \in pos .. q - 1
    BY <1>0, <1>1
  <2>2. ~ BitAt(bv.words, y.pos + x)
    BY <2>1 DEF FirstOne
  <2> QED
    BY <2>1, <2>2 DEF Buffered
<1>4. CountTo(y.buf, d) = 0
  <2>1. CountTo(y.buf, 0) = 0
    BY CountGrows
  <2>2. CountTo(y.buf, d) = CountTo(y.buf, 0)
    BY <1>3, NoneCounted
  <2> QED
    BY <2>1, <2>2
<1>5. select_in_word(y.buf, CountTo(y.buf, d)) = d
  <2>1. y.buf \in SUBSET (0 .. word_width - 1)
    BY <1>0 DEF Bits
  <2> QED
    BY <1>0, <1>2, <2>1, SelectKnown
<1> QED
  BY <1>1, <1>2, <1>4, <1>5 DEF lsb

(* Zeros are skipped up to the first one, which is passed.                 *)
LEMMA ZerosSkipped ==
  ASSUME NEW bv, BitVec(bv), NEW it, Buffered(bv, it), NEW q, FirstOne(bv, it.pos, q)
  PROVE  LET got == iterator_skip_zeros(bv, it)
         IN  got.val = q - it.pos /\ Buffered(bv, got.it) /\ got.it.pos = q + 1
<1> DEFINE m == words_for(bv.size) + 1
           f == CHOOSE f : f = [k \in 0 .. m |-> Refill(bv, it, f, k)]
           e == it.pos + it.avail
<1>0. /\ word_width \in Nat \ {0} /\ it.pos \in Nat /\ it.avail \in 0 .. word_width
      /\ it \in [pos : Nat, buf : SUBSET Bits, avail : 0 .. word_width]
      /\ bv.size \in Nat /\ q \in Nat /\ it.pos <= q /\ q < bv.size /\ e \in Nat
  BY WordsAssumption DEF Buffered, BitVec, FirstOne
<1>1. /\ words_for(bv.size) \in Nat /\ m \in Nat
      /\ \A x \in Nat : x < bv.size => x \div word_width < words_for(bv.size)
  <2>1. /\ words_for(bv.size) \in Nat
        /\ \A x \in Nat : x < bv.size => x \div word_width < words_for(bv.size)
    BY <1>0, CeilDiv DEF words_for
  <2>2. words_for(bv.size) + 1 \in Nat
    BY <2>1
  <2> QED
    BY <2>1, <2>2
<1>2. /\ DOMAIN f = 0 .. m
      /\ \A k \in 0 .. m : f[k] = RefillAt(bv, it, k) /\ Buffered(bv, f[k])
  BY <1>1, Refills
<1>3. \A x : [x EXCEPT !.pos = @ + x.avail, !.avail = 0] = Drained(x, x)
  BY DEF Drained
<1> DEFINE K == CHOOSE k \in DOMAIN f : f[k].buf # {} /\ \A j \in 0 .. k - 1 : f[j].buf = {}
           from == f[K]
           l == lsb(from.buf)
<1>4. iterator_skip_zeros(bv, it)
        = [val |-> from.pos + l - it.pos,
           it  |-> [pos |-> from.pos + l + 1, buf |-> Right(from.buf, l + 1),
                    avail |-> from.avail - l - 1]]
  BY DEF iterator_skip_zeros, Refill, Drained
<1> HIDE DEF m, f
(* The refill that has the one.                                            *)
<1> DEFINE t == IF q < e THEN 0 ELSE 1 + ((q - e) \div word_width)
           Pos(k) == IF k = 0 THEN it.pos ELSE e + (k - 1) * word_width
           Avail(k) == IF k = 0 THEN it.avail ELSE word_width
<1>5. \A k \in 0 .. m : f[k].pos = Pos(k) /\ f[k].avail = Avail(k)
  BY <1>2 DEF RefillAt, ItOf
<1>6. t \in 0 .. m /\ it.pos <= Pos(t) /\ Pos(t) <= q /\ q < Pos(t) + Avail(t)
  <2>1. CASE q < e
    BY <1>0, <1>1, <2>1
  <2>2. CASE ~ q < e
    <3>1. q - e \in Nat /\ q - e < bv.size
      BY <1>0, <2>2
    <3>2. PICK d \in Nat, r \in 0 .. word_width - 1 :
            d = (q - e) \div word_width /\ q - e = word_width * d + r /\ d < words_for(bv.size)
      BY <1>0, <1>1, <3>1, Division
    <3>3. t = 1 + d /\ t # 0 /\ t - 1 = d
      BY <2>2, <3>2
    <3>4. PICK a \in Nat : a = word_width * d /\ a = d * word_width
      BY <1>0
    <3>5. Pos(t) = e + a /\ Avail(t) = word_width
      BY <3>3, <3>4
    <3>6. t \in 0 .. m
      BY <1>1, <3>2, <3>3 DEF m
    <3> HIDE DEF t, Pos, Avail
    <3> QED
      BY <1>0, <3>2, <3>4, <3>5, <3>6
  <2> QED
    BY <2>1, <2>2
<1>7. ASSUME NEW j \in 0 .. t - 1 PROVE j \in 0 .. m /\ it.pos <= Pos(j) /\ Pos(j) + Avail(j) <= q
  <2>1. t # 0 /\ ~ q < e /\ j \in 0 .. m /\ j < t
    <3>1. t \in Nat /\ t <= m /\ m \in Nat
      BY <1>1, <1>6
    <3>2. j \in Nat /\ j < t
      <4> HIDE DEF t
      <4> QED
        BY <1>7, <3>1
    <3>3. t # 0
      BY <3>1, <3>2
    <3>4. ~ q < e
      BY <3>3
    <3> HIDE DEF t
    <3> QED
      BY <3>1, <3>2, <3>3, <3>4
  <2>2. CASE j = 0
    BY <1>0, <2>1, <2>2
  <2>3. CASE j # 0
    <3>1. j \in Nat \ {0} /\ t \in Nat \ {0} /\ Pos(t) = e + (t - 1) * word_width
          /\ Pos(j) = e + (j - 1) * word_width /\ Avail(j) = word_width
      BY <1>6, <2>1, <2>3
    <3> HIDE DEF t
    <3>2. PICK b \in Nat, d \in Nat : b = j - 1 /\ d = t - 1 /\ b + 1 <= d
      BY <2>1, <3>1
    <3>3. word_width * (b + 1) <= word_width * d /\ word_width * (b + 1) = word_width * b + word_width
          /\ word_width * b \in Nat /\ word_width * d \in Nat
      <4>1. b + 1 \in Nat
        OBVIOUS
      <4> QED
        BY <3>2, <4>1, WordsOrdered
    <3>4. PICK g \in Nat, h \in Nat : g = b * word_width /\ h = d * word_width /\ g + word_width <= h
      <4>1. b * word_width = word_width * b /\ d * word_width = word_width * d
        BY <1>0
      <4> QED
        BY <3>3, <4>1
    <3>5. Pos(t) = e + h /\ Pos(j) = e + g
      BY <3>1, <3>2, <3>4
    <3> HIDE DEF Pos, Avail
    <3> QED
      BY <1>0, <1>6, <2>1, <3>1, <3>4, <3>5
  <2> QED
    BY <2>2, <2>3
<1> HIDE DEF t, Pos, Avail
<1>8. f[t].buf # {} /\ lsb(f[t].buf) = q - f[t].pos
  BY <1>2, <1>5, <1>6, BufferLowest
<1>9. \A j \in 0 .. t - 1 : f[j].buf = {}
  BY <1>2, <1>5, <1>7, BufferEmpty
<1>10. K = t
  <2>1. ASSUME NEW k \in DOMAIN f, f[k].buf # {}, \A j \in 0 .. k - 1 : f[j].buf = {}
        PROVE  k = t
    <3>1. k \in Nat /\ t \in Nat
      BY <1>1, <1>2, <1>6
    <3>2. ~ k < t
      BY <1>9, <2>1, <3>1
    <3>3. ~ t < k
      BY <1>8, <2>1, <3>1
    <3> QED
      BY <3>1, <3>2, <3>3
  <2>2. t \in DOMAIN f
    BY <1>2, <1>6
  <2> QED
    BY <1>8, <1>9, <2>1, <2>2
<1>11. PICK y : y = f[t] /\ Buffered(bv, y) /\ lsb(y.buf) = q - y.pos /\ y.pos <= q /\ q < y.pos + y.avail
  BY <1>2, <1>5, <1>6, <1>8
<1>12. y.pos \in Nat /\ y.avail \in 0 .. word_width
  BY <1>11 DEF Buffered
<1>13. PICK d \in Nat : d = q - y.pos /\ d + 1 \in 0 .. y.avail /\ y.pos + (d + 1) = q + 1
                        /\ y.pos + d - it.pos = q - it.pos
  BY <1>0, <1>11, <1>12
<1>14. PICK new : new = [pos |-> y.pos + (d + 1), buf |-> Right(y.buf, d + 1), avail |-> y.avail - (d + 1)]
  OBVIOUS
<1>15. Buffered(bv, new) /\ new.pos = q + 1
  BY <1>11, <1>13, <1>14, BufferShifted
<1>16. from = y /\ l = d
  BY <1>10, <1>11, <1>13
<1> HIDE DEF K, from, l
<1>17. iterator_skip_zeros(bv, it) = [val |-> y.pos + d - it.pos,
         it |-> [pos |-> y.pos + d + 1, buf |-> Right(y.buf, d + 1), avail |-> y.avail - d - 1]]
  BY <1>4, <1>16
<1>18. y.pos + d + 1 = y.pos + (d + 1) /\ y.avail - d - 1 = y.avail - (d + 1)
  BY <1>12
<1> QED
  BY <1>13, <1>14, <1>15, <1>17, <1>18

(* The bits below the highest give back the number.                        *)
LEMMA RestRead ==
  ASSUME NEW bv, BitVec(bv), NEW it, Buffered(bv, it), NEW n \in Nat, n + 1 < power[word_width],
         NEW l, l = msb(n + 1), it.pos + l <= bv.size, Spelt(bv, it.pos, l, below_msb(n + 1))
  PROVE  LET got == read_rest(bv, l, it)
         IN  got.val = n /\ Buffered(bv, got.it) /\ got.it.pos = it.pos + l
<1>1. /\ l \in 0 .. word_width - 1 /\ power[l] \in Nat \ {0}
      /\ below_msb(n + 1) \in SUBSET (0 .. l - 1) /\ number(below_msb(n + 1)) = (n + 1) - power[l]
  BY BelowHighest
<1>2. PICK rest : rest = iterator_get_bits(bv, it, l)
  OBVIOUS
<1>3. rest.val = number(below_msb(n + 1)) /\ Buffered(bv, rest.it) /\ rest.it.pos = it.pos + l
  BY <1>1, <1>2, BitsGotten
<1>4. read_rest(bv, l, it) = [val |-> rest.val + power[l] - 1, it |-> rest.it]
  BY <1>2 DEF read_rest
<1>5. rest.val + power[l] - 1 = n
  BY <1>1, <1>3
<1> QED
  BY <1>3, <1>4, <1>5

(* A number is read back from its code.                                    *)
LEMMA GammaRead ==
  ASSUME NEW bv, BitVec(bv), NEW it, Buffered(bv, it), NEW n \in Nat, n + 1 < power[word_width],
         NEW b, GammaAt(bv, it.pos, n, b)
  PROVE  LET got == read_gamma(bv, it)
         IN  got.val = n /\ Buffered(bv, got.it) /\ got.it.pos = b
<1>1. PICK l \in Nat : l = msb(n + 1)
  BY MsbKnown
<1>2. PICK a \in Nat : a = it.pos
  BY DEF Buffered
<1>3. /\ b = a + l + 1 + l /\ b <= bv.size /\ bv.size \in Nat
      /\ Spelt(bv, a, l + 1, {l}) /\ Spelt(bv, a + l + 1, l, below_msb(n + 1))
  BY <1>1, <1>2 DEF GammaAt, BitVec
<1>4. FirstOne(bv, a, a + l)
  <2>1. ASSUME NEW p \in a .. (a + l) - 1 PROVE ~ BitAt(bv.words, p)
    <3>1. p - a \in 0 .. (l + 1) - 1 /\ p - a # l /\ a + (p - a) = p
      BY <1>1, <1>2
    <3> QED
      BY <1>3, <3>1 DEF Spelt
  <2>2. BitAt(bv.words, a + l)
    <3>1. l \in 0 .. (l + 1) - 1
      BY <1>1
    <3> QED
      BY <1>3, <3>1 DEF Spelt
  <2> QED
    BY <1>3, <2>1, <2>2 DEF FirstOne
<1>5. PICK length : length = iterator_skip_zeros(bv, it)
  OBVIOUS
<1>6. length.val = l /\ Buffered(bv, length.it) /\ length.it.pos = a + l + 1
  <2>1. length.val = (a + l) - a /\ Buffered(bv, length.it) /\ length.it.pos = (a + l) + 1
    BY <1>2, <1>4, <1>5, ZerosSkipped
  <2> QED
    BY <2>1
<1>7. read_gamma(bv, it) = read_rest(bv, l, length.it)
  BY <1>5, <1>6 DEF read_gamma
<1>8. (a + l + 1) + l <= bv.size /\ (a + l + 1) + l = b
  BY <1>3
<1> QED
  BY <1>1, <1>3, <1>6, <1>7, <1>8, RestRead

LEMMA DeltaRead ==
  ASSUME NEW bv, BitVec(bv), NEW it, Buffered(bv, it), NEW n \in Nat, n + 1 < power[word_width],
         NEW b, DeltaAt(bv, it.pos, n, b)
  PROVE  LET got == read_delta(bv, it)
         IN  got.val = n /\ Buffered(bv, got.it) /\ got.it.pos = b
<1>0. word_width \in Nat \ {0}
  BY WordsAssumption
<1>1. PICK l \in 0 .. word_width - 1 : l = msb(n + 1)
  BY BelowHighest
<1>2. PICK c \in Nat : /\ GammaAt(bv, it.pos, l, c)
                       /\ b = c + l /\ b <= bv.size /\ Spelt(bv, c, l, below_msb(n + 1))
  BY <1>1 DEF DeltaAt
<1>3. l \in Nat /\ l + 1 < power[word_width]
  <2>1. PICK w \in Nat : w = word_width /\ w < power[w] /\ power[w] \in Nat
    BY <1>0, PowerAbove, Powers
  <2> QED
    BY <1>0, <2>1
<1>4. PICK length : length = read_gamma(bv, it)
  OBVIOUS
<1>5. length.val = l /\ Buffered(bv, length.it) /\ length.it.pos = c
  <2>1. GammaAt(bv, it.pos, l, c)
    BY <1>2
  <2>2. LET got == read_gamma(bv, it)
        IN  got.val = l /\ Buffered(bv, got.it) /\ got.it.pos = c
    BY <1>3, <2>1, GammaRead
  <2> QED
    BY <1>4, <2>2
<1>6. read_delta(bv, it) = read_rest(bv, l, length.it)
  BY <1>4, <1>5 DEF read_delta
<1> QED
  BY <1>1, <1>2, <1>5, <1>6, RestRead

(* A vector that is appended to another comes after its bits.              *)
LEMMA VectorAppended ==
  ASSUME NEW bv, Packed(bv), NEW rhs, rhs.size \in Nat, rhs.words \in Seq(Word), NEW new,
         new = append(bv, rhs)
  PROVE  /\ BitVec(new) /\ new.size = bv.size + rhs.size /\ new.size \in Nat
         /\ Continues(new, bv)
<1> DEFINE pos == Len(bv.words)
           shift == bv.size % word_width
           Own(k) == IF k <= pos THEN bv.words[k] ELSE {}
           Theirs(k) == IF k \in DOMAIN rhs.words THEN rhs.words[k] ELSE {}
           both == bv.size + rhs.size
           m == words_for(both)
           WordOfBoth(k) == IF shift = 0 THEN Own(k) \cup Theirs(k - pos)
                      ELSE Own(k) \cup Left(Theirs(k - pos + 1), shift)
                                  \cup Right(Theirs(k - pos), word_width - shift)
<1>0. /\ word_width \in Nat \ {0} /\ bv.size \in Nat /\ bv.words \in Seq(Word) /\ pos \in Nat
      /\ bv.size <= word_width * pos /\ word_width * pos < bv.size + word_width
      /\ both \in Nat /\ bv.size <= both
  BY WordsAssumption DEF Packed, BitVec
<1>1. new = [size |-> both, words |-> [k \in 1 .. m |-> WordOfBoth(k)]]
  BY DEF append
<1>2. /\ m \in Nat /\ both <= word_width * m
      /\ \A x \in Nat : x < both => x \div word_width < m
  BY <1>0, CeilDiv DEF words_for
<1>3. \A k \in 1 .. m : WordOfBoth(k) \in Word
  <2>1. \A w, k : Left(w, k) \in SUBSET Bits /\ Right(w, k) \in SUBSET Bits
    BY DEF Left, Right
  <2>2. ASSUME NEW k \in 1 .. m PROVE Own(k) \in SUBSET Bits
    <3>1. k <= pos => k \in 1 .. Len(bv.words)
      BY <1>0
    <3>2. k <= pos => bv.words[k] \in Word
      <4> HIDE DEF pos
      <4> QED
        BY <1>0, <3>1
    <3> QED
      BY <3>2 DEF Word
  <2>3. \A k : Theirs(k) \in SUBSET Bits
    <3>1. \A k \in DOMAIN rhs.words : rhs.words[k] \in Word
      OBVIOUS
    <3> QED
      BY <3>1 DEF Word
  <2> HIDE DEF Own, Theirs, shift
  <2> QED
    BY <2>1, <2>2, <2>3 DEF Word
<1> HIDE DEF WordOfBoth, m, both
<1>4. BitVec(new) /\ new.size = both /\ new.words = [k \in 1 .. m |-> WordOfBoth(k)]
  <2>1. PICK d \in Nat : d = m
    BY <1>2
  <2>2. [k \in 1 .. d |-> WordOfBoth(k)] \in Seq(Word) /\ Len([k \in 1 .. d |-> WordOfBoth(k)]) = d
    BY <1>3, <2>1
  <2> QED
    BY <1>0, <1>1, <1>2, <2>1, <2>2 DEF BitVec
<1>5. ASSUME NEW p \in 0 .. bv.size - 1 PROVE BitAt(new.words, p) <=> BitAt(bv.words, p)
  <2>1. PICK a \in Nat, x \in 0 .. word_width - 1 :
          a = p \div word_width /\ x = p % word_width /\ p = word_width * a + x
    <3>1. p \in Nat
      BY <1>0
    <3> QED
      BY <3>1, BitPlace
  <2>2. a < m /\ a < pos
    <3>1. p \in Nat /\ p < both
      BY <1>0
    <3>2. a < m
      BY <1>2, <2>1, <3>1
    <3>3. p < word_width * pos
      <4>1. PICK h \in Nat : h = word_width * pos
        BY <1>0
      <4> QED
        BY <1>0, <4>1
    <3>4. \E c \in Nat : c = p \div word_width /\ c < pos
      <4> HIDE DEF pos
      <4> QED
        BY <1>0, <3>1, <3>3, WordOf
    <3> QED
      BY <2>1, <3>2, <3>4
  <2>3. new.words[a + 1] = WordOfBoth(a + 1)
    <3>1. a + 1 \in 1 .. m
      BY <1>2, <2>2
    <3> QED
      BY <1>4, <3>1
  <2>4. x \in WordOfBoth(a + 1) <=> x \in bv.words[a + 1]
    <3>1. Own(a + 1) = bv.words[a + 1]
      BY <1>0, <2>2
    <3>2. DOMAIN rhs.words = 1 .. Len(rhs.words) /\ Len(rhs.words) \in Nat
      OBVIOUS
    <3>3. Theirs((a + 1) - pos) = {}
      <4>1. pos \in Nat
        BY <1>0
      <4>2. (a + 1) - pos \in Int /\ ~ (a + 1) - pos >= 1
        <5> HIDE DEF pos
        <5> QED
          BY <2>2, <4>1
      <4>3. (a + 1) - pos \notin DOMAIN rhs.words
        <5> HIDE DEF pos
        <5> QED
          BY <3>2, <4>2
      <4> QED
        BY <4>3
    <3>4. CASE shift = 0
      <4> HIDE DEF Own, Theirs, pos
      <4> QED
        BY <3>1, <3>3, <3>4 DEF WordOfBoth
    <3>5. CASE shift # 0
      <4>1. x \notin Left(Theirs(((a + 1) - pos) + 1), shift)
        <5>1. CASE a + 1 < pos
          <6>1. Theirs(((a + 1) - pos) + 1) = {}
            <7>1. pos \in Nat
              BY <1>0
            <7>2. ((a + 1) - pos) + 1 \in Int /\ ~ ((a + 1) - pos) + 1 >= 1
              <8> HIDE DEF pos
              <8> QED
                BY <5>1, <7>1
            <7>3. ((a + 1) - pos) + 1 \notin DOMAIN rhs.words
              <8> HIDE DEF pos
              <8> QED
                BY <3>2, <7>2
            <7> QED
              BY <7>3
          <6> QED
            BY <6>1 DEF Left
        <5>2. CASE ~ a + 1 < pos
          <6>1. pos = a + 1
            BY <1>0, <2>2, <5>2
          <6>2. x < shift
            <7>1. PICK q \in Nat, r \in 0 .. word_width - 1 :
                    q = bv.size \div word_width /\ r = shift /\ bv.size = word_width * q + r
              BY <1>0, BitPlace
            <7>2. word_width * pos = word_width * a + word_width /\ word_width * a \in Nat
              BY <1>0, <2>1, <6>1, WordsOrdered
            <7>3. q = a
              <8>1. word_width * q < word_width * (a + 1) /\ word_width * a < word_width * (q + 1)
                <9>1. word_width * (a + 1) = word_width * a + word_width /\ word_width * (q + 1) = word_width * q + word_width
                      /\ word_width * q \in Nat /\ word_width * a \in Nat
                  BY <2>1, <7>1, WordsOrdered
                <9>2. PICK g \in Nat, h \in Nat : g = word_width * q /\ h = word_width * a
                  BY <9>1
                <9>3. g + r <= h + word_width /\ h < g + r /\ r # 0
                  <10>1. word_width * pos = h + word_width
                    BY <7>2, <9>2
                  <10>2. bv.size = g + r
                    BY <7>1, <9>2
                  <10>3. g + r <= h + word_width /\ h + word_width < (g + r) + word_width
                    BY <1>0, <10>1, <10>2
                  <10> HIDE DEF pos, shift
                  <10> QED
                    BY <1>0, <3>5, <7>1, <10>3
                <9>4. g < h + word_width /\ h < g + word_width
                  <10>1. r \in Nat /\ r < word_width /\ word_width \in Nat
                    BY <1>0
                  <10> QED
                    BY <9>3, <10>1
                <9>5. word_width * (a + 1) = h + word_width /\ word_width * (q + 1) = g + word_width
                  BY <9>1, <9>2
                <9> QED
                  BY <9>2, <9>4, <9>5
              <8>2. q < a + 1 /\ a < q + 1
                <9>1. q + 1 \in Nat /\ a + 1 \in Nat
                  OBVIOUS
                <9> QED
                  BY <8>1, <9>1, WordsOrdered
              <8> QED
                BY <8>2
            <7>4. p < bv.size
              BY <1>0
            <7>5. PICK h \in Nat : h = word_width * a
              BY <7>2
            <7>6. h + x < h + r
              BY <2>1, <7>1, <7>3, <7>4, <7>5
            <7> QED
              BY <7>1, <7>6
          <6>3. x - shift \notin Bits
            <7>1. shift \in Nat /\ x \in Nat
              <8>1. shift \in 0 .. word_width - 1
                BY <1>0, BitPlace
              <8> QED
                BY <1>0, <8>1
            <7> QED
              BY <6>2, <7>1 DEF Bits
          <6>4. Theirs(((a + 1) - pos) + 1) \in SUBSET Bits
            <7>1. \A k \in DOMAIN rhs.words : rhs.words[k] \in Word
              OBVIOUS
            <7> QED
              BY <7>1 DEF Word
          <6> HIDE DEF Theirs
          <6> QED
            BY <6>3, <6>4 DEF Left
        <5> QED
          BY <5>1, <5>2
      <4>2. x \notin Right(Theirs((a + 1) - pos), word_width - shift)
        BY <3>3 DEF Right
      <4> HIDE DEF Own, Theirs, pos
      <4> QED
        BY <3>1, <3>5, <4>1, <4>2 DEF WordOfBoth
    <3> QED
      BY <3>4, <3>5
  <2> QED
    BY <2>1, <2>3, <2>4 DEF BitAt
<1> QED
  BY <1>0, <1>4, <1>5 DEF Continues, both

-----------------------------------------------------------------------------
(* What is assumed of the nodes of a level and of their pointers.          *)
LEMMA PointerFacts ==
  ASSUME NEW l, WellFormedLevel(l)
  PROVE  /\ l.pointers \in Seq(Nat) /\ Len(l.pointers) \in Nat \ {0, 1}
         /\ l.from \in Seq(Nat) /\ Len(l.from) \in Nat \ {0}
         /\ l.pointers[1] = 0 /\ l.pointers[Len(l.pointers)] = Len(l.from)
         /\ \A p \in 1 .. Len(l.pointers) : l.pointers[p] \in Nat
         /\ \A p, q \in 1 .. Len(l.pointers) : p <= q => l.pointers[p] <= l.pointers[q]
         /\ \A p, q \in 1 .. Len(l.pointers) : p < q => l.pointers[p] < l.pointers[q]
         /\ \A p \in 1 .. Len(l.pointers) : l.pointers[p] \in 0 .. Len(l.from)
<1> DEFINE len == Len(l.pointers)
           ptr == l.pointers
<1>1. /\ ptr \in Seq(Nat) /\ l.from \in Seq(Nat) /\ len > 1
      /\ ptr[1] = 0 /\ ptr[len] = Len(l.from)
      /\ \A p \in 1 .. len - 1 : ptr[p] < ptr[p + 1]
  BY DEF WellFormedLevel, WellFormedRanges
<1>2. len \in Nat \ {0, 1} /\ Len(l.from) \in Nat /\ \A p \in 1 .. len : ptr[p] \in Nat
  BY <1>1
<1> HIDE DEF len, ptr
<1>3. ASSUME NEW p \in 1 .. len, NEW q \in 1 .. len, p < q PROVE ptr[p] < ptr[q]
  <2> DEFINE P == {k \in Nat : p + 1 + k <= q => ptr[p] < ptr[p + 1 + k]}
  <2>0. p \in Nat /\ q \in Nat /\ p + 1 <= q
    BY <1>2, <1>3
  <2>1. 0 \in P
    <3>1. p \in 1 .. len - 1 /\ p + 1 + 0 = p + 1
      BY <1>2, <2>0
    <3> QED
      BY <1>1, <3>1
  <2>2. ASSUME NEW k \in 0 .. (q - (p + 1)) - 1, k \in P PROVE k + 1 \in P
    <3>1. /\ p + 1 + k \in 1 .. len - 1 /\ p + 1 + (k + 1) = (p + 1 + k) + 1 /\ k \in Nat
          /\ p + 1 + k \in 1 .. len /\ (p + 1 + k) + 1 \in 1 .. len /\ p + 1 + k <= q
      BY <1>2, <2>0
    <3>2. ptr[p + 1 + k] < ptr[(p + 1 + k) + 1] /\ ptr[p] < ptr[p + 1 + k]
      BY <1>1, <2>2, <3>1
    <3>3. ptr[p] \in Nat /\ ptr[p + 1 + k] \in Nat /\ ptr[(p + 1 + k) + 1] \in Nat
      BY <1>2, <3>1
    <3>4. ptr[p] < ptr[(p + 1 + k) + 1]
      BY <3>2, <3>3
    <3> QED
      BY <3>1, <3>4
  <2>3. q - (p + 1) \in 0 .. q - (p + 1) /\ q - (p + 1) \in Nat
    BY <2>0
  <2>4. q - (p + 1) \in P
    <3> HIDE DEF P
    <3> QED
      BY <2>1, <2>2, <2>3, InductionUpTo
  <2>5. p + 1 + (q - (p + 1)) = q
    BY <2>0
  <2> QED
    BY <2>0, <2>4, <2>5
<1>4. ASSUME NEW p \in 1 .. len, NEW q \in 1 .. len, p <= q PROVE ptr[p] <= ptr[q]
  <2>1. CASE p = q
    BY <1>2, <2>1
  <2>2. CASE p # q
    <3>1. p < q
      BY <1>2, <1>4, <2>2
    <3> QED
      BY <1>2, <1>3, <3>1
  <2> QED
    BY <2>1, <2>2
<1>5. ASSUME NEW p \in 1 .. len PROVE ptr[p] \in 0 .. Len(l.from)
  <2>1. len \in 1 .. len /\ p <= len
    BY <1>2
  <2>2. ptr[p] <= ptr[len]
    BY <1>4, <2>1
  <2> QED
    BY <1>1, <1>2, <2>2
<1>6. Len(l.from) # 0
  <2>1. 1 \in 1 .. len /\ len \in 1 .. len /\ 1 < len
    BY <1>2
  <2>2. ptr[1] < ptr[len]
    BY <1>3, <2>1
  <2> QED
    BY <1>1, <2>2
<1> QED
  BY <1>1, <1>2, <1>3, <1>4, <1>5, <1>6 DEF len, ptr

(* Every position is in a range.                                           *)
LEMMA RangeFound ==
  ASSUME NEW l, WellFormedLevel(l), NEW i \in 0 .. Len(l.from) - 1
  PROVE  \E p \in 1 .. Len(l.pointers) - 1 : l.pointers[p] <= i /\ i < l.pointers[p + 1]
<1> DEFINE P == {p \in Nat : p \in 1 .. Len(l.pointers) /\ i < l.pointers[p]}
<1>1. /\ Len(l.pointers) \in Nat \ {0, 1} /\ Len(l.from) \in Nat \ {0}
      /\ l.pointers[1] = 0 /\ l.pointers[Len(l.pointers)] = Len(l.from)
      /\ \A p \in 1 .. Len(l.pointers) : l.pointers[p] \in Nat
  BY PointerFacts
<1>2. Len(l.pointers) \in P /\ P \subseteq Nat
  BY <1>1
<1>3. PICK x \in P : \A y \in P : x <= y
  <2> HIDE DEF P
  <2> QED
    BY <1>2, LeastNatural
<1>4. x # 1
  BY <1>1, <1>3
<1>5. x - 1 \in 1 .. Len(l.pointers) - 1 /\ (x - 1) + 1 = x /\ x - 1 \in Nat
      /\ x - 1 \in 1 .. Len(l.pointers)
  BY <1>1, <1>3, <1>4
<1>6. ~ (i < l.pointers[x - 1])
  <2>1. ~ (x <= x - 1)
    BY <1>3
  <2>2. x - 1 \notin P
    BY <1>3, <2>1
  <2> QED
    BY <1>5, <2>2
<1>7. l.pointers[x - 1] <= i /\ i < l.pointers[x]
  BY <1>1, <1>3, <1>5, <1>6
<1> QED
  BY <1>5, <1>7

(* Raising goes on from a pair: the bound of the range before, and the     *)
(* value that was raised last.                                             *)
RaiseTurn(l, f, i) ==
  IF i = 0 THEN <<0, 0>>
  ELSE LET prev_upper == f[i - 1][IF Begins(l.pointers, i) THEN 2 ELSE 1]
       IN  <<prev_upper, l.from[i] + prev_upper>>

Raising(l) == CHOOSE f : f = [i \in 0 .. Len(l.from) |-> RaiseTurn(l, f, i)]

(* The bound of the range before that of a value, and the raised value.    *)
Upper(l, i) == Raising(l)[i][1]
Raised(l, i) == Raising(l)[i][2]

(* What raised() computes, one value after another.                        *)
LEMMA RaisingKnown ==
  ASSUME NEW l, WellFormedLevel(l)
  PROVE  /\ raised(l.from, l.pointers) = [i \in 1 .. Len(l.from) |-> Raised(l, i)]
         /\ \A i \in 0 .. Len(l.from) : Upper(l, i) \in Nat /\ Raised(l, i) \in Nat
         /\ Upper(l, 0) = 0 /\ Raised(l, 0) = 0
         /\ \A i \in 1 .. Len(l.from) :
              /\ Upper(l, i) = IF Begins(l.pointers, i) THEN Raised(l, i - 1)
                                ELSE Upper(l, i - 1)
              /\ Raised(l, i) = l.from[i] + Upper(l, i)
<1> DEFINE len == Len(l.from)
           D == Nat \X Nat
           given(k) == IF k \in 1 .. len THEN l.from[k] ELSE 0
           upper(k, e) == IF Begins(l.pointers, k) THEN e[2] ELSE e[1]
           step == [x \in Nat \X D |-> <<upper(x[1] + 1, x[2]),
                                         given(x[1] + 1) + upper(x[1] + 1, x[2])>>]
           F == Raising(l)
<1>1. len \in Nat \ {0} /\ \A i \in 1 .. len : l.from[i] \in Nat
  BY PointerFacts
<1> HIDE DEF len
<1>2. \A k : given(k) \in Nat
  BY <1>1
<1>3. \A k : \A e \in D : upper(k, e) \in Nat /\ upper(k, e) = e[IF Begins(l.pointers, k) THEN 2 ELSE 1]
  OBVIOUS
<1> HIDE DEF given, upper
<1>4. /\ step \in [Nat \X D -> D] /\ <<0, 0>> \in D
      /\ \A k \in Nat, e \in D :
           step[<<k, e>>] = <<upper(k + 1, e), given(k + 1) + upper(k + 1, e)>>
  <2>1. \A k, e : e \in D => <<upper(k, e), given(k) + upper(k, e)>> \in D
    BY <1>2, <1>3
  <2>2. \A x \in Nat \X D : x[1] \in Nat /\ x[2] \in D
    OBVIOUS
  <2> HIDE DEF D
  <2>3. step \in [Nat \X D -> D]
    BY <2>1, <2>2
  <2>4. <<0, 0>> \in D
    BY DEF D
  <2> QED
    BY <2>3, <2>4
<1> HIDE DEF step
<1>5. PICK f \in [Nat -> D] : f[0] = <<0, 0>> /\ \A k \in Nat : f[k + 1] = step[<<k, f[k]>>]
  <2>1. Steps(D, <<0, 0>>, step)
    BY <1>4 DEF Steps
  <2>2. HasRecursion(D, <<0, 0>>, step)
    BY <2>1, Recursion
  <2> QED
    BY <2>2 DEF HasRecursion
<1> DEFINE g == [i \in 0 .. len |-> f[i]]
<1>6. g = [i \in 0 .. len |-> RaiseTurn(l, g, i)]
  <2>1. ASSUME NEW i \in 0 .. len PROVE f[i] = RaiseTurn(l, g, i)
    <3>1. CASE i = 0
      BY <1>5, <3>1 DEF RaiseTurn
    <3>2. CASE i # 0
      <4>1. i - 1 \in Nat /\ (i - 1) + 1 = i /\ i - 1 \in 0 .. len /\ i \in 1 .. len
        BY <1>1, <3>2
      <4>2. f[i] = <<upper(i, f[i - 1]), given(i) + upper(i, f[i - 1])>> /\ f[i - 1] \in D
        <5>1. PICK k \in Nat : k = i - 1 /\ k + 1 = i
          BY <4>1
        <5>2. f[k] \in D /\ f[k + 1] = step[<<k, f[k]>>]
          BY <1>5
        <5>3. step[<<k, f[k]>>] = <<upper(k + 1, f[k]), given(k + 1) + upper(k + 1, f[k])>>
          BY <1>4, <5>2
        <5> QED
          BY <5>1, <5>2, <5>3
      <4>3. given(i) = l.from[i]
        BY <4>1 DEF given
      <4>4. upper(i, f[i - 1]) = g[i - 1][IF Begins(l.pointers, i) THEN 2 ELSE 1]
        BY <1>3, <4>1, <4>2
      <4> QED
        BY <3>2, <4>2, <4>3, <4>4 DEF RaiseTurn
    <3> QED
      BY <3>1, <3>2
  <2> QED
    BY <2>1
<1>7. F = [i \in 0 .. len |-> RaiseTurn(l, F, i)]
  BY <1>6 DEF Raising, len
<1>8. raised(l.from, l.pointers) = [i \in 1 .. Len(l.from) |-> F[i][2]]
  BY DEF raised, Raising, RaiseTurn
<1> HIDE DEF F
<1>9. ASSUME NEW i \in 1 .. len
      PROVE  /\ F[i][1] = F[i - 1][IF Begins(l.pointers, i) THEN 2 ELSE 1]
             /\ F[i][2] = l.from[i] + F[i][1]
  <2>1. F[i] = RaiseTurn(l, F, i) /\ i # 0
    <3>1. i \in 0 .. len /\ i # 0
      BY <1>1
    <3> QED
      BY <1>7, <3>1
  <2> QED
    BY <2>1 DEF RaiseTurn
<1>10. F[0] = <<0, 0>>
  <2>1. 0 \in 0 .. len
    BY <1>1
  <2> QED
    BY <1>7, <2>1 DEF RaiseTurn
<1> DEFINE P == {i \in Nat : F[i][1] \in Nat /\ F[i][2] \in Nat}
<1>11. 0 \in P
  BY <1>10
<1>12. ASSUME NEW i \in 0 .. len - 1, i \in P PROVE i + 1 \in P
  <2>0. i \in Nat /\ i + 1 <= len
    BY <1>1
  <2>1. i + 1 \in 1 .. len /\ (i + 1) - 1 = i /\ i + 1 \in Nat
    BY <1>1, <2>0
  <2>2. F[i + 1][1] \in Nat
    BY <1>9, <1>12, <2>1
  <2>3. F[i + 1][2] \in Nat
    <3>1. l.from[i + 1] \in Nat
      BY <1>1, <2>1
    <3>2. F[i + 1][2] = l.from[i + 1] + F[i + 1][1]
      BY <1>9, <2>1
    <3> QED
      BY <2>2, <3>1, <3>2
  <2> QED
    BY <2>1, <2>2, <2>3
<1>13. \A i \in 0 .. len : i \in P
  <2> HIDE DEF P
  <2> QED
    BY <1>1, <1>11, <1>12, InductionUpTo
<1>14. \A i \in 0 .. len : Upper(l, i) \in Nat /\ Raised(l, i) \in Nat
  BY <1>13 DEF Upper, Raised, F
<1>15. Upper(l, 0) = 0 /\ Raised(l, 0) = 0
  <2>1. F[0][1] = 0 /\ F[0][2] = 0
    BY <1>10
  <2> QED
    BY <2>1 DEF Upper, Raised, F
<1>16. ASSUME NEW i \in 1 .. len
       PROVE  /\ Upper(l, i) = IF Begins(l.pointers, i) THEN Raised(l, i - 1)
                                 ELSE Upper(l, i - 1)
              /\ Raised(l, i) = l.from[i] + Upper(l, i)
  BY <1>9 DEF Upper, Raised, F
<1>17. raised(l.from, l.pointers) = [i \in 1 .. Len(l.from) |-> Raised(l, i)]
  BY <1>8 DEF Raised, F
<1> QED
  BY <1>14, <1>15, <1>16, <1>17 DEF len

(* All the values of a range are raised by the last one before it.         *)
LEMMA RaisedInRange ==
  ASSUME NEW l, WellFormedLevel(l), NEW p \in 1 .. Len(l.pointers) - 1,
         NEW i \in l.pointers[p] + 1 .. l.pointers[p + 1]
  PROVE  /\ Upper(l, i) = Raised(l, l.pointers[p])
         /\ Raised(l, i) = l.from[i] + Raised(l, l.pointers[p])
<1> DEFINE len == Len(l.from)
<1>1. /\ Len(l.pointers) \in Nat /\ len \in Nat /\ l.pointers \in Seq(Nat)
      /\ \A q \in 1 .. Len(l.pointers) : l.pointers[q] \in Nat /\ l.pointers[q] \in 0 .. len
      /\ \A q, s \in 1 .. Len(l.pointers) : q <= s => l.pointers[q] <= l.pointers[s]
  BY PointerFacts
<1>2. p \in Nat /\ p \in 1 .. Len(l.pointers) /\ p + 1 \in 1 .. Len(l.pointers)
  BY <1>1
<1>3. PICK a \in Nat, b \in Nat : a = l.pointers[p] /\ b = l.pointers[p + 1] /\ b <= len
  BY <1>1, <1>2
<1>4. \A k \in 1 .. len :
        /\ Upper(l, k) = IF Begins(l.pointers, k) THEN Raised(l, k - 1)
                          ELSE Upper(l, k - 1)
        /\ Raised(l, k) = l.from[k] + Upper(l, k)
  BY RaisingKnown
<1> HIDE DEF len
<1>5. i \in a + 1 .. b /\ a < b /\ i \in Nat
  BY <1>3
<1>6. Upper(l, a + 1) = Raised(l, a)
  <2>1. a + 1 \in 1 .. len /\ (a + 1) - 1 = a
    BY <1>1, <1>3, <1>5, SMTT(30)
  <2>2. Begins(l.pointers, a + 1)
    <3>1. p \in DOMAIN l.pointers
      BY <1>1, <1>2
    <3> QED
      BY <1>3, <2>1, <3>1 DEF Begins
  <2> QED
    BY <1>4, <2>1, <2>2
<1> DEFINE P == {k \in Nat : Upper(l, (a + 1) + k) = Raised(l, a)}
<1>7. 0 \in P
  <2>1. (a + 1) + 0 = a + 1
    OBVIOUS
  <2> QED
    BY <1>6, <2>1
<1>8. ASSUME NEW k \in 0 .. (b - (a + 1)) - 1, k \in P PROVE k + 1 \in P
  <2> DEFINE c == (a + 1) + (k + 1)
  <2>0. k \in Nat /\ (a + 1) + (k + 1) <= b
    BY <1>5
  <2>1. k \in Nat /\ c \in 1 .. len /\ c - 1 = (a + 1) + k /\ k + 1 \in Nat
        /\ a < c - 1 /\ c - 1 < b /\ c \in Nat
    <3>1. PICK m \in Nat : m = len /\ b <= m
      BY <1>1, <1>3
    <3>2. c \in 1 .. m
      BY <2>0, <3>1
    <3>3. c - 1 = (a + 1) + k /\ k + 1 \in Nat /\ a < c - 1 /\ c - 1 < b /\ c \in Nat
      BY <2>0
    <3> HIDE DEF c
    <3> QED
      BY <2>0, <3>1, <3>2, <3>3
  <2> HIDE DEF c
  <2>2. ~ Begins(l.pointers, c)
    <3> SUFFICES ASSUME NEW q \in DOMAIN l.pointers, l.pointers[q] = c - 1 PROVE FALSE
      BY DEF Begins
    <3>1. q \in 1 .. Len(l.pointers) /\ q \in Nat
      <4>1. DOMAIN l.pointers = 1 .. Len(l.pointers)
        BY <1>1
      <4> QED
        BY <4>1
    <3>2. CASE q <= p
      <4>1. l.pointers[q] <= a
        BY <1>1, <1>2, <1>3, <3>1, <3>2
      <4> QED
        BY <2>1, <4>1
    <3>3. CASE ~ (q <= p)
      <4>1. p + 1 <= q
        BY <1>2, <3>1, <3>3
      <4>2. b <= l.pointers[q]
        BY <1>1, <1>2, <1>3, <3>1, <4>1
      <4> QED
        BY <1>3, <2>1, <4>2
    <3> QED
      BY <3>2, <3>3
  <2>3. Upper(l, c) = Upper(l, c - 1)
    BY <1>4, <2>1, <2>2
  <2>4. Upper(l, (a + 1) + k) = Raised(l, a)
    BY <1>8
  <2>5. Upper(l, (a + 1) + (k + 1)) = Raised(l, a)
    BY <2>1, <2>3, <2>4 DEF c
  <2> QED
    BY <2>1, <2>5
<1>9. i - (a + 1) \in 0 .. b - (a + 1) /\ b - (a + 1) \in Nat /\ (a + 1) + (i - (a + 1)) = i
  BY <1>5
<1>10. i - (a + 1) \in P
  <2> HIDE DEF P
  <2> QED
    BY <1>7, <1>8, <1>9, InductionUpTo
<1>11. Upper(l, i) = Raised(l, a) /\ i \in 1 .. len
  <2>1. Upper(l, (a + 1) + (i - (a + 1))) = Raised(l, a)
    BY <1>10
  <2>2. i \in 1 .. len
    BY <1>1, <1>3, <1>5, SMTT(30)
  <2> QED
    BY <1>9, <2>1, <2>2
<1> QED
  BY <1>3, <1>4, <1>11

(* The raised values never go down.                                        *)
LEMMA RaisedGrows ==
  ASSUME NEW l, WellFormedLevel(l), NEW i \in 1 .. Len(l.from) - 1
  PROVE  Raised(l, i) <= Raised(l, i + 1)
<1>1. /\ Len(l.pointers) \in Nat /\ Len(l.from) \in Nat
      /\ \A q \in 1 .. Len(l.pointers) : l.pointers[q] \in Nat /\ l.pointers[q] \in 0 .. Len(l.from)
      /\ l.from \in Seq(Nat)
  BY PointerFacts
<1>2. \A k \in 0 .. Len(l.from) : Raised(l, k) \in Nat
  BY RaisingKnown
<1>3. i \in 0 .. Len(l.from) - 1 /\ i \in Nat /\ i + 1 \in 1 .. Len(l.from)
      /\ i \in 0 .. Len(l.from) /\ i \in 1 .. Len(l.from)
  BY <1>1
<1>4. PICK p \in 1 .. Len(l.pointers) - 1 : l.pointers[p] <= i /\ i < l.pointers[p + 1]
  BY <1>3, RangeFound
<1>5. p \in 1 .. Len(l.pointers) /\ p + 1 \in 1 .. Len(l.pointers)
  BY <1>1
<1>6. PICK a \in Nat, b \in Nat : a = l.pointers[p] /\ b = l.pointers[p + 1] /\ a <= i /\ i < b
  BY <1>1, <1>4, <1>5
<1>7. i + 1 \in l.pointers[p] + 1 .. l.pointers[p + 1]
  BY <1>3, <1>6
<1>8. Raised(l, i + 1) = l.from[i + 1] + Raised(l, a)
  BY <1>6, <1>7, RaisedInRange
<1>9. l.from[i + 1] \in Nat /\ l.from[i] \in Nat /\ Raised(l, i) \in Nat
      /\ Raised(l, a) \in Nat
  <2>1. a \in 0 .. Len(l.from)
    BY <1>3, <1>6
  <2>2. \A k \in 1 .. Len(l.from) : l.from[k] \in Nat
    BY <1>1, SMTT(30)
  <2> QED
    BY <1>2, <1>3, <2>1, <2>2
<1>10. CASE i = a
  BY <1>8, <1>9, <1>10
<1>11. CASE i # a
  <2>1. i \in l.pointers[p] + 1 .. l.pointers[p + 1] /\ i \in l.pointers[p] + 1 .. l.pointers[p + 1] - 1
    BY <1>3, <1>6, <1>11
  <2>2. Raised(l, i) = l.from[i] + Raised(l, a)
    BY <1>6, <2>1, RaisedInRange
  <2>3. l.from[i] <= l.from[i + 1]
    <3>1. \A k, j \in l.pointers[p] + 1 .. l.pointers[p + 1] : k < j => l.from[k] < l.from[j]
      BY DEF WellFormedLevel, WellFormedRanges
    <3>2. l.from[i] < l.from[i + 1]
      BY <1>3, <1>7, <2>1, <3>1
    <3> QED
      BY <1>9, <3>2
  <2> QED
    BY <1>8, <1>9, <2>2, <2>3
<1> QED
  BY <1>10, <1>11

(* The stored values: each is its node, raised by the last one before its  *)
(* range; they never go down, and in a range they go up.                   *)
LEMMA StoredKnown ==
  ASSUME NEW l, WellFormedLevel(l), NEW s, s = build("pef", l.from, l.pointers).values
  PROVE  /\ Len(l.from) \in Nat \ {0}
         /\ s = [i \in 1 .. Len(l.from) |-> Raised(l, i)]
         /\ \A i \in 1 .. Len(l.from) : s[i] \in Nat
         /\ \A i, j \in 1 .. Len(l.from) : i <= j => s[i] <= s[j]
         /\ \A p \in 1 .. Len(l.pointers) - 1 : \A i \in l.pointers[p] + 1 .. l.pointers[p + 1] :
              s[i] = l.from[i] + (IF l.pointers[p] = 0 THEN 0 ELSE s[l.pointers[p]])
         /\ \A p \in 1 .. Len(l.pointers) - 1 : \A i, j \in l.pointers[p] + 1 .. l.pointers[p + 1] :
              i < j => s[i] < s[j]
<1> DEFINE n == Len(l.from)
<1>1. n \in Nat \ {0} /\ l.from \in Seq(Nat) /\ \A i \in 1 .. n : l.from[i] \in Nat
  BY PointerFacts
<1>2. s = [i \in 1 .. n |-> Raised(l, i)] /\ \A i \in 0 .. n : Raised(l, i) \in Nat
  <2>1. s = raised(l.from, l.pointers)
    BY DEF build
  <2> QED
    BY <2>1, RaisingKnown
<1> HIDE DEF n
<1>3. \A i \in 1 .. n : s[i] = Raised(l, i) /\ s[i] \in Nat
  BY <1>1, <1>2
<1>4. ASSUME NEW i \in 1 .. n, NEW j \in 1 .. n, i <= j PROVE s[i] <= s[j]
  <2> DEFINE P == {k \in Nat : i + k <= j => s[i] <= s[i + k]}
  <2>0. i \in Nat /\ j \in Nat
    BY <1>1
  <2>1. 0 \in P
    BY <1>3, <2>0
  <2>2. ASSUME NEW k \in 0 .. (j - i) - 1, k \in P PROVE k + 1 \in P
    <3>1. i + k \in 1 .. n - 1 /\ i + (k + 1) = (i + k) + 1 /\ i + k \in 1 .. n /\ k \in Nat
          /\ (i + k) + 1 \in 1 .. n /\ i + k <= j
      BY <1>1, <2>0
    <3>2. Raised(l, i + k) <= Raised(l, (i + k) + 1)
      BY <3>1, RaisedGrows DEF n
    <3>3. s[i] <= s[i + k] /\ s[i + k] <= s[(i + k) + 1]
      BY <1>3, <2>2, <3>1, <3>2
    <3>4. s[i] \in Nat /\ s[i + k] \in Nat /\ s[(i + k) + 1] \in Nat
      BY <1>3, <3>1
    <3>5. s[i] <= s[(i + k) + 1]
      BY <3>3, <3>4
    <3> QED
      BY <3>1, <3>5
  <2>3. j - i \in 0 .. j - i /\ j - i \in Nat
    BY <1>4, <2>0
  <2>4. j - i \in P
    <3> HIDE DEF P
    <3> QED
      BY <2>1, <2>2, <2>3, InductionUpTo
  <2>5. i + (j - i) = j
    BY <2>0
  <2> QED
    BY <2>0, <2>4, <2>5
<1>5. ASSUME NEW p \in 1 .. Len(l.pointers) - 1, NEW i \in l.pointers[p] + 1 .. l.pointers[p + 1]
      PROVE  /\ i \in 1 .. n /\ l.pointers[p] \in 0 .. n
             /\ s[i] = l.from[i] + (IF l.pointers[p] = 0 THEN 0 ELSE s[l.pointers[p]])
  <2>1. l.pointers[p] \in 0 .. n /\ l.pointers[p + 1] \in 0 .. n
    <3>1. p \in 1 .. Len(l.pointers) /\ p + 1 \in 1 .. Len(l.pointers)
      BY PointerFacts
    <3> QED
      BY <3>1, PointerFacts DEF n
  <2>2. i \in 1 .. n
    BY <1>1, <2>1
  <2>3. Raised(l, i) = l.from[i] + Raised(l, l.pointers[p])
    BY RaisedInRange
  <2>4. CASE l.pointers[p] = 0
    <3>1. Raised(l, 0) = 0
      BY RaisingKnown
    <3> QED
      BY <1>3, <2>1, <2>2, <2>3, <2>4, <3>1
  <2>5. CASE l.pointers[p] # 0
    <3>1. l.pointers[p] \in 1 .. n
      BY <1>1, <2>1, <2>5
    <3> QED
      BY <1>3, <2>1, <2>2, <2>3, <2>5, <3>1
  <2> QED
    BY <2>4, <2>5
<1>6. ASSUME NEW p \in 1 .. Len(l.pointers) - 1, NEW i \in l.pointers[p] + 1 .. l.pointers[p + 1],
             NEW j \in l.pointers[p] + 1 .. l.pointers[p + 1], i < j
      PROVE  s[i] < s[j]
  <2>1. l.from[i] < l.from[j]
    BY <1>6 DEF WellFormedLevel, WellFormedRanges
  <2>2. i \in 1 .. n /\ j \in 1 .. n /\ l.pointers[p] \in 0 .. n
    BY <1>5
  <2>3. PICK u \in Nat : s[i] = l.from[i] + u /\ s[j] = l.from[j] + u
    <3> DEFINE up == IF l.pointers[p] = 0 THEN 0 ELSE s[l.pointers[p]]
    <3>1. up \in Nat
      <4>1. l.pointers[p] # 0 => l.pointers[p] \in 1 .. n
        BY <1>1, <2>2
      <4> QED
        BY <1>3, <4>1
    <3>2. s[i] = l.from[i] + up /\ s[j] = l.from[j] + up
      BY <1>5
    <3> HIDE DEF up
    <3> QED
      BY <3>1, <3>2
  <2>4. l.from[i] \in Nat /\ l.from[j] \in Nat
    BY <1>1, <2>2
  <2> QED
    BY <2>1, <2>3, <2>4
<1> QED
  BY <1>1, <1>2, <1>3, <1>4, <1>5, <1>6 DEF n

-----------------------------------------------------------------------------
(* The partitions of a level l with the stored values s: how many, where   *)
(* each ends, the bounds between them, their lists, and what a reader is   *)
(* to find.                                                                *)
Count(l) == (Len(l.from) + partition_size - 1) \div partition_size
End(l, p) == LeastOf(Len(l.from), (p + 1) * partition_size)
Bound(l, s, k) == IF k = 0 THEN s[1] ELSE s[End(l, k - 1)]
Base(l, s, p) == IF p = 0 THEN s[1] ELSE s[p * partition_size]
List(l, s, p) ==
  [k \in 1 .. End(l, p) - p * partition_size |-> s[p * partition_size + k] - Base(l, s, p)]

(* A single partition of several equal values is read with a bound that is *)
(* below its base.                                                         *)
Tight(l, s) == Count(l) = 1 /\ Len(l.from) > 1 /\ s[Len(l.from)] = s[1]
Part(l, s, p) ==
  [base |-> Bound(l, s, p),
   upper_bound |-> IF Tight(l, s) THEN s[1] - 1 ELSE Bound(l, s, p + 1),
   values |-> List(l, s, p)]

Known(l, s) == l \in Levels /\ s = build("pef", l.from, l.pointers).values

LEMMA PartitionSize == partition_size \in Nat \ {0}
  BY PefAssumption

(* Every partition but the last is full, and every position is in one.     *)
LEMMA Cut ==
  ASSUME NEW l, Len(l.from) \in Nat \ {0}
  PROVE  /\ Count(l) \in Nat \ {0} /\ Len(l.from) <= partition_size * Count(l)
         /\ \A p \in 0 .. Count(l) - 1 :
              /\ p \in Nat /\ p * partition_size \in Nat /\ End(l, p) \in Nat
              /\ p * partition_size < End(l, p) /\ End(l, p) <= Len(l.from)
              /\ End(l, p) <= p * partition_size + partition_size
              /\ p + 1 < Count(l) => End(l, p) = (p + 1) * partition_size
              /\ p + 1 = Count(l) => End(l, p) = Len(l.from)
         /\ \A p, q \in 0 .. Count(l) - 1 : p < q => End(l, p) <= q * partition_size
         /\ \A x \in 0 .. Len(l.from) :
              /\ x \div partition_size \in 0 .. Count(l)
              /\ (x \div partition_size) * partition_size \in Nat
              /\ (x \div partition_size) * partition_size <= x
              /\ x < (x \div partition_size) * partition_size + partition_size
         /\ \A x \in 0 .. Len(l.from) - 1 :
              x \div partition_size \in 0 .. Count(l) - 1 /\ x < End(l, x \div partition_size)
<1>1. PICK P \in Nat \ {0} : P = partition_size
  BY PartitionSize
<1>2. PICK N \in Nat \ {0} : N = Len(l.from)
  OBVIOUS
<1>3. PICK K \in Nat : /\ K = Count(l)
                       /\ N <= P * K /\ P * K < N + P
                       /\ \A k \in Nat : k < K => P * k < N
                       /\ \A x \in Nat : x < N => x \div P < K
  <2>1. Count(l) = ceil_div(N, P)
    BY <1>1, <1>2 DEF Count, ceil_div
  <2>2. N \in Nat /\ P \in Nat \ {0}
    OBVIOUS
  <2>3. /\ ceil_div(N, P) \in Nat
        /\ N <= P * ceil_div(N, P) /\ P * ceil_div(N, P) < N + P
        /\ \A k \in Nat : k < ceil_div(N, P) => P * k < N
        /\ \A x \in Nat : x < N => x \div P < ceil_div(N, P)
    BY <2>2, CeilDiv
  <2> QED
    BY <2>1, <2>3
<1>4. /\ N <= P * K /\ P * K < N + P
      /\ \A k \in Nat : k < K => P * k < N
      /\ \A x \in Nat : x < N => x \div P < K
  BY <1>3
<1>5. K # 0
  BY <1>4
<1>6. \A p : End(l, p) = IF N < (p + 1) * P THEN N ELSE (p + 1) * P
  BY <1>1, <1>2 DEF End, LeastOf
<1>7. ASSUME NEW p \in 0 .. K - 1
      PROVE  /\ p \in Nat /\ p * P \in Nat /\ End(l, p) \in Nat
             /\ p * P < End(l, p) /\ End(l, p) <= N /\ End(l, p) <= p * P + P
             /\ p + 1 < K => End(l, p) = (p + 1) * P
             /\ p + 1 = K => End(l, p) = N
  <2>1. p \in Nat /\ p < K /\ p + 1 \in Nat
    BY <1>5
  <2>2. P * p < N /\ (p + 1 < K => P * (p + 1) < N)
    BY <1>4, <2>1
  <2>3. PICK a \in Nat : a = P * p /\ a = p * P
    BY <2>1
  <2>4. (p + 1) * P = a + P /\ P * (p + 1) = a + P
    BY <2>1, <2>3
  <2>5. p + 1 = K => N <= a + P
    BY <1>4, <2>4
  <2>6. End(l, p) = IF N < a + P THEN N ELSE a + P
    BY <1>6, <2>4
  <2> QED
    BY <2>1, <2>2, <2>3, <2>4, <2>5, <2>6
<1>8. ASSUME NEW p \in 0 .. K - 1, NEW q \in 0 .. K - 1, p < q PROVE End(l, p) <= q * P
  <2>1. p \in Nat /\ q \in Nat /\ p + 1 <= q /\ p + 1 \in Nat
    BY <1>8
  <2>2. P * (p + 1) <= P * q
    BY <2>1, MultiplesOrdered
  <2>3. PICK a \in Nat : a = P * p /\ a = p * P
    BY <2>1
  <2>4. PICK b \in Nat : b = P * q /\ b = q * P
    BY <2>1
  <2>5. P * (p + 1) = a + P
    BY <2>1, <2>3
  <2>6. End(l, p) <= a + P /\ End(l, p) \in Nat
    BY <1>7, <2>3
  <2> QED
    BY <2>2, <2>3, <2>4, <2>5, <2>6
<1>9. ASSUME NEW x \in 0 .. N
      PROVE  /\ x \div P \in 0 .. K /\ (x \div P) * P \in Nat
             /\ (x \div P) * P <= x /\ x < (x \div P) * P + P
             /\ x < N => x \div P \in 0 .. K - 1 /\ x < End(l, x \div P)
  <2>1. PICK d \in Nat, r \in 0 .. P - 1 : d = x \div P /\ x = P * d + r
    <3>1. x \in Nat /\ P \in Nat \ {0}
      OBVIOUS
    <3>2. x \div P \in Nat /\ x % P \in 0 .. P - 1 /\ x = P * (x \div P) + (x % P)
      BY <3>1, Division
    <3> QED
      BY <3>2
  <2>2. PICK a \in Nat : a = P * d /\ a = d * P
    BY <2>1
  <2>3. a <= x /\ x < a + P
    BY <2>1, <2>2
  <2>4. d <= K
    <3>1. ~ (K + 1 <= d)
      <4> SUFFICES ASSUME K + 1 <= d PROVE FALSE
        OBVIOUS
      <4>1. P * (K + 1) <= P * d /\ P * (K + 1) = P * K + P /\ P * K \in Nat
        BY MultiplesOrdered
      <4> QED
        BY <1>4, <2>2, <2>3, <4>1
    <3> QED
      BY <3>1
  <2>5. ASSUME x < N PROVE d \in 0 .. K - 1 /\ x < End(l, d)
    <3>1. d < K
      BY <1>4, <2>1, <2>5
    <3>2. d \in 0 .. K - 1
      BY <3>1
    <3>3. d + 1 < K => (d + 1) * P = a + P
      BY <2>2
    <3>4. (d + 1 < K => End(l, d) = (d + 1) * P) /\ (d + 1 = K => End(l, d) = N)
      BY <1>7, <3>2
    <3> QED
      BY <2>3, <2>5, <3>1, <3>2, <3>3, <3>4
  <2> QED
    BY <2>1, <2>2, <2>3, <2>4, <2>5
<1> QED
  <2>1. \A x \in 0 .. Len(l.from) - 1 : x \in 0 .. N /\ x < N
    BY <1>2
  <2> HIDE DEF Count, End
  <2> QED
    BY <1>1, <1>2, <1>3, <1>4, <1>5, <1>7, <1>8, <1>9, <2>1

(* What is assumed of a level, and what is known of its stored values.     *)
LEMMA KnownFacts ==
  ASSUME NEW l, NEW s, Known(l, s)
  PROVE  /\ WellFormedLevel(l) /\ BitsSuffice(l)
         /\ Len(l.from) \in Nat \ {0} /\ s \in [1 .. Len(l.from) -> Nat]
         /\ s = raised(l.from, l.pointers)
         /\ \A i \in 1 .. Len(l.from) : s[i] \in Nat
         /\ \A i, j \in 1 .. Len(l.from) : i <= j => s[i] <= s[j]
         /\ \A p \in 1 .. Len(l.pointers) - 1 : \A i \in l.pointers[p] + 1 .. l.pointers[p + 1] :
              s[i] = l.from[i] + (IF l.pointers[p] = 0 THEN 0 ELSE s[l.pointers[p]])
         /\ \A p \in 1 .. Len(l.pointers) - 1 : \A i, j \in l.pointers[p] + 1 .. l.pointers[p + 1] :
              i < j => s[i] < s[j]
<1>1. WellFormedLevel(l) /\ BitsSuffice(l) /\ s = build("pef", l.from, l.pointers).values
  BY PefAssumption DEF Known
<1>0. WellFormedLevel(l) /\ s = build("pef", l.from, l.pointers).values
  BY <1>1
<1>2. s = raised(l.from, l.pointers)
  BY <1>1 DEF build
<1>3. Len(l.from) \in Nat \ {0}
  BY <1>0, StoredKnown
<1>4. s = [i \in 1 .. Len(l.from) |-> Raised(l, i)]
  BY <1>0, StoredKnown
<1>5. \A i \in 1 .. Len(l.from) : s[i] \in Nat
  BY <1>0, StoredKnown
<1>6. \A i, j \in 1 .. Len(l.from) : i <= j => s[i] <= s[j]
  BY <1>0, StoredKnown
<1>7. \A p \in 1 .. Len(l.pointers) - 1 : \A i \in l.pointers[p] + 1 .. l.pointers[p + 1] :
        s[i] = l.from[i] + (IF l.pointers[p] = 0 THEN 0 ELSE s[l.pointers[p]])
  BY <1>0, StoredKnown
<1>8. \A p \in 1 .. Len(l.pointers) - 1 : \A i, j \in l.pointers[p] + 1 .. l.pointers[p + 1] :
        i < j => s[i] < s[j]
  BY <1>0, StoredKnown
<1> QED
  BY <1>1, <1>2, <1>3, <1>4, <1>5, <1>6, <1>7, <1>8

(* The bounds never go down, and the values of a partition are between     *)
(* its own.                                                                *)
LEMMA BoundsKnown ==
  ASSUME NEW l, NEW s, Known(l, s)
  PROVE  /\ Bound(l, s, 0) = s[1] /\ Bound(l, s, Count(l)) = s[Len(l.from)]
         /\ \A k \in 0 .. Count(l) : Bound(l, s, k) \in Nat
         /\ \A p \in 0 .. Count(l) - 1 : Bound(l, s, p + 1) = s[End(l, p)]
         /\ \A p \in 0 .. Count(l) - 1 : p # 0 => Bound(l, s, p) = s[p * partition_size]
         /\ \A j, k \in 0 .. Count(l) : j <= k => Bound(l, s, j) <= Bound(l, s, k)
         /\ \A p \in 0 .. Count(l) - 1 : \A x \in p * partition_size .. End(l, p) - 1 :
              /\ x \in 0 .. Len(l.from) - 1 /\ x + 1 \in 1 .. Len(l.from) /\ s[x + 1] \in Nat
              /\ Bound(l, s, p) <= s[x + 1] /\ s[x + 1] <= Bound(l, s, p + 1)
<1> DEFINE K == Count(l)
           N == Len(l.from)
<1>1. /\ N \in Nat \ {0} /\ \A i \in 1 .. N : s[i] \in Nat
      /\ \A i, j \in 1 .. N : i <= j => s[i] <= s[j]
  BY KnownFacts
<1>2. /\ K \in Nat \ {0}
      /\ \A p \in 0 .. K - 1 :
              /\ p \in Nat /\ p * partition_size \in Nat /\ End(l, p) \in Nat
              /\ p * partition_size < End(l, p) /\ End(l, p) <= N
              /\ p + 1 < K => End(l, p) = (p + 1) * partition_size
              /\ p + 1 = K => End(l, p) = N
      /\ \A p, q \in 0 .. K - 1 : p < q => End(l, p) <= q * partition_size
  BY <1>1, Cut
<1> HIDE DEF K, N
<1>3. \A p \in 0 .. K - 1 : End(l, p) \in 1 .. N
  BY <1>1, <1>2
<1>4. /\ Bound(l, s, 0) = s[1]
      /\ \A p \in 0 .. K - 1 : p \in Nat /\ Bound(l, s, p + 1) = s[End(l, p)]
  <2>1. ASSUME NEW p \in 0 .. K - 1 PROVE p \in Nat /\ Bound(l, s, p + 1) = s[End(l, p)]
    <3>1. p \in Nat /\ p + 1 # 0 /\ (p + 1) - 1 = p
      BY <1>2
    <3> QED
      BY <3>1 DEF Bound
  <2> QED
    BY <2>1 DEF Bound
<1>5. 1 \in 1 .. N /\ s[1] \in Nat
  BY <1>1
<1>6. ASSUME NEW k \in 0 .. K PROVE k = 0 \/ \E p \in 0 .. K - 1 : k = p + 1
  <2>1. k \in Nat /\ (k # 0 => k - 1 \in 0 .. K - 1 /\ k = (k - 1) + 1)
    BY <1>2
  <2> QED
    BY <2>1
<1>7. \A k \in 0 .. K : Bound(l, s, k) \in Nat
  BY <1>1, <1>3, <1>4, <1>5, <1>6
<1>8. Bound(l, s, K) = s[N]
  <2>1. K - 1 \in 0 .. K - 1 /\ (K - 1) + 1 = K
    BY <1>2
  <2> QED
    BY <1>2, <1>4, <2>1
<1>9. ASSUME NEW p \in 0 .. K - 1, p # 0 PROVE Bound(l, s, p) = s[p * partition_size]
  <2>1. p - 1 \in 0 .. K - 1 /\ (p - 1) + 1 = p /\ (p - 1) + 1 < K
    BY <1>2, <1>9
  <2> QED
    BY <1>2, <1>4, <2>1
<1>10. ASSUME NEW j \in 0 .. K, NEW k \in 0 .. K, j <= k PROVE Bound(l, s, j) <= Bound(l, s, k)
  <2>1. CASE j = 0
    <3>1. CASE k = 0
      BY <1>4, <1>5, <2>1, <3>1
    <3>2. CASE k # 0
      <4>1. PICK q \in 0 .. K - 1 : k = q + 1
        BY <1>6, <3>2
      <4>2. 1 <= End(l, q) /\ End(l, q) \in 1 .. N
        BY <1>1, <1>3, <4>1
      <4> QED
        BY <1>1, <1>4, <1>5, <2>1, <4>1, <4>2
    <3> QED
      BY <3>1, <3>2
  <2>2. CASE j # 0
    <3>1. PICK p \in 0 .. K - 1 : j = p + 1
      BY <1>6, <2>2
    <3>2. k # 0
      BY <1>2, <1>10, <2>2
    <3>3. PICK q \in 0 .. K - 1 : k = q + 1
      BY <1>6, <3>2
    <3>4. p = q \/ p < q
      BY <1>2, <1>10, <3>1, <3>3
    <3>5. End(l, p) <= End(l, q)
      <4>1. CASE p = q
        BY <1>2, <4>1
      <4>2. CASE p < q
        <5>1. End(l, p) <= q * partition_size /\ q * partition_size < End(l, q)
          BY <1>2, <4>2
        <5> QED
          BY <1>2, <5>1
      <4> QED
        BY <3>4, <4>1, <4>2
    <3>6. s[End(l, p)] <= s[End(l, q)]
      BY <1>1, <1>3, <3>5
    <3> QED
      BY <1>4, <3>1, <3>3, <3>6
  <2> QED
    BY <2>1, <2>2
<1>11. ASSUME NEW p \in 0 .. K - 1, NEW x \in p * partition_size .. End(l, p) - 1
       PROVE  /\ x \in 0 .. N - 1 /\ x + 1 \in 1 .. N /\ s[x + 1] \in Nat
              /\ Bound(l, s, p) <= s[x + 1] /\ s[x + 1] <= Bound(l, s, p + 1)
  <2>1. /\ p * partition_size \in Nat /\ End(l, p) \in Nat /\ p * partition_size < End(l, p)
        /\ End(l, p) <= N
    BY <1>2
  <2>2. x \in 0 .. N - 1 /\ x + 1 \in 1 .. N /\ x + 1 <= End(l, p) /\ p * partition_size <= x + 1
    BY <1>1, <2>1
  <2>3. s[x + 1] <= s[End(l, p)] /\ s[x + 1] \in Nat
    BY <1>1, <1>3, <2>2
  <2>4. Bound(l, s, p) <= s[x + 1]
    <3>1. CASE p = 0
      <4>1. 1 <= x + 1
        BY <1>1, <2>2
      <4> QED
        BY <1>1, <1>4, <1>5, <2>2, <3>1, <4>1
    <3>2. CASE p # 0
      <4>1. p - 1 \in 0 .. K - 1 /\ (p - 1) + 1 = p /\ (p - 1) + 1 < K
        BY <1>2, <3>2
      <4>2. Bound(l, s, p) = s[p * partition_size] /\ p * partition_size \in 1 .. N
        BY <1>2, <1>3, <1>4, <4>1
      <4> QED
        BY <1>1, <2>2, <4>2
    <3> QED
      BY <3>1, <3>2
  <2> QED
    BY <1>4, <2>2, <2>3, <2>4
<1> QED
  BY <1>4, <1>7, <1>8, <1>9, <1>10, <1>11 DEF K, N

(* The list of a partition, of at least one value and of no more than its  *)
(* size.                                                                   *)
LEMMA ListKnown ==
  ASSUME NEW l, NEW s, Known(l, s), NEW p \in 0 .. Count(l) - 1
  PROVE  /\ List(l, s, p) \in Seq(Nat)
         /\ Len(List(l, s, p)) = End(l, p) - p * partition_size
         /\ Len(List(l, s, p)) \in 1 .. partition_size
         /\ \A k \in 1 .. Len(List(l, s, p)) :
              List(l, s, p)[k] = s[p * partition_size + k] - Bound(l, s, p)
         /\ Last(List(l, s, p)) = Bound(l, s, p + 1) - Bound(l, s, p)
         /\ Last(List(l, s, p)) \in Nat
<1> DEFINE a == p * partition_size
           e == End(l, p)
           n == e - a
           b == Bound(l, s, p)
<1>1. /\ Len(l.from) \in Nat \ {0}
  BY KnownFacts
<1>2. a \in Nat /\ e \in Nat /\ a < e /\ e <= a + partition_size /\ p \in Nat
  BY <1>1, Cut
<1>3. partition_size \in Nat
  BY PartitionSize
<1>4. /\ \A x \in a .. e - 1 : s[x + 1] \in Nat /\ b <= s[x + 1]
      /\ Bound(l, s, p + 1) = s[e]
  BY BoundsKnown
<1>5. b \in Nat
  <2>1. p \in 0 .. Count(l) /\ \A k \in 0 .. Count(l) : Bound(l, s, k) \in Nat
    BY <1>1, BoundsKnown, Cut
  <2> QED
    BY <2>1
<1> HIDE DEF a, e, b
<1>6. \A k \in 1 .. n : s[a + k] \in Nat /\ b <= s[a + k] /\ s[a + k] - b \in Nat
  <2> SUFFICES ASSUME NEW k \in 1 .. n PROVE s[a + k] \in Nat /\ b <= s[a + k]
    BY <1>5
  <2>1. a + (k - 1) \in a .. e - 1 /\ (a + (k - 1)) + 1 = a + k
    BY <1>2
  <2> QED
    BY <1>4, <2>1
<1>7. List(l, s, p) = [k \in 1 .. n |-> s[a + k] - b]
  <2>1. p # 0 => Bound(l, s, p) = s[p * partition_size]
    BY BoundsKnown
  <2>2. Base(l, s, p) = b
    BY <2>1 DEF Base, Bound, b
  <2> QED
    BY <2>2 DEF List, a, e
<1>8. n \in Nat /\ n \in 1 .. partition_size
  BY <1>2, <1>3
<1> HIDE DEF n
<1>9. /\ List(l, s, p) \in Seq(Nat) /\ Len(List(l, s, p)) = n
      /\ \A k \in 1 .. n : List(l, s, p)[k] = s[a + k] - b
  BY <1>6, <1>7, <1>8
<1>10. Last(List(l, s, p)) = s[e] - b
  <2>1. n \in 1 .. n /\ a + n = e
    BY <1>2, <1>8 DEF n
  <2> QED
    BY <1>9, <2>1 DEF Last
<1>11. s[e] - b \in Nat
  <2>1. n \in 1 .. n /\ a + n = e
    BY <1>2, <1>8 DEF n
  <2> QED
    BY <1>6, <2>1
<1> QED
  BY <1>4, <1>8, <1>9, <1>10, <1>11 DEF a, e, b, n

-----------------------------------------------------------------------------
(* Where partition p begins, past the header, and what write() makes of it.*)
Where(l, s, p) == IF p = 0 THEN 0 ELSE End(l, p - 1) + (Bound(l, s, p) - s[1]) + 2 * p

EndpointTurn(l, s, e, p) == IF p = 0 THEN 0 ELSE e[p - 1] + bits_taken(List(l, s, p - 1))

(* Each begins after the bits of the one before it.                        *)
LEMMA WhereKnown ==
  ASSUME NEW l, NEW s, Known(l, s)
  PROVE  /\ \A p \in 0 .. Count(l) : Where(l, s, p) \in Nat
         /\ \A p \in 0 .. Count(l) - 1 :
              /\ Where(l, s, p + 1) = Where(l, s, p) + bits_taken(List(l, s, p))
              /\ Where(l, s, p) < Where(l, s, p + 1)
         /\ Where(l, s, Count(l)) <= 3 * Len(l.from) + s[Len(l.from)]
<1> DEFINE K == Count(l)
           N == Len(l.from)
           W(p) == Where(l, s, p)
           B(p) == Bound(l, s, p)
           E(p) == End(l, p)
<1>1. /\ N \in Nat \ {0} /\ s[N] \in Nat
  BY KnownFacts
<1>2. /\ K \in Nat \ {0}
      /\ \A p \in 0 .. K - 1 :
              /\ p \in Nat /\ p * partition_size \in Nat /\ E(p) \in Nat
              /\ p * partition_size < E(p) /\ E(p) <= N
              /\ p + 1 < K => E(p) = (p + 1) * partition_size
              /\ p + 1 = K => E(p) = N
  BY <1>1, Cut
<1>3. /\ B(0) = s[1] /\ B(K) = s[N] /\ \A k \in 0 .. K : B(k) \in Nat
      /\ \A j, k \in 0 .. K : j <= k => B(j) <= B(k)
  BY BoundsKnown
<1>4. \A p \in 0 .. K - 1 : bits_taken(List(l, s, p)) = (E(p) - p * partition_size) + (B(p + 1) - B(p)) + 2
  BY ListKnown DEF bits_taken
<1>5. \A p : W(p) = IF p = 0 THEN 0 ELSE E(p - 1) + (B(p) - B(0)) + 2 * p
  BY <1>3 DEF Where
<1> HIDE DEF K, N, W, B, E
<1>6. \A p \in 0 .. K - 1 : B(0) <= B(p) /\ B(p) <= B(p + 1) /\ p + 1 \in 0 .. K /\ p \in 0 .. K
        /\ B(0) <= B(p + 1) /\ B(p) \in Nat /\ B(p + 1) \in Nat /\ B(0) \in Nat
  <2> TAKE p \in 0 .. K - 1
  <2>1. 0 \in 0 .. K /\ p \in 0 .. K /\ p + 1 \in 0 .. K /\ 0 <= p /\ p <= p + 1 /\ 0 <= p + 1
    BY <1>2
  <2> QED
    BY <1>3, <2>1
<1>7. ASSUME NEW p \in 0 .. K - 1 PROVE W(p + 1) = E(p) + (B(p + 1) - B(0)) + 2 * p + 2
  <2>1. p \in Nat /\ p + 1 # 0 /\ (p + 1) - 1 = p
    BY <1>2
  <2> QED
    BY <1>2, <1>5, <1>6, <2>1
<1>8. ASSUME NEW p \in 0 .. K - 1 PROVE W(p) = p * partition_size + (B(p) - B(0)) + 2 * p
  <2>0. p \in Nat
    BY <1>2
  <2>1. CASE p = 0
    <3>1. p * partition_size = 0
      BY <2>1, PartitionSize
    <3> QED
      BY <1>5, <1>6, <2>1, <3>1
  <2>2. CASE p # 0
    <3>1. p - 1 \in 0 .. K - 1 /\ (p - 1) + 1 = p /\ (p - 1) + 1 < K
      BY <1>2, <2>2
    <3> QED
      BY <1>2, <1>5, <2>2, <3>1
  <2> QED
    BY <2>1, <2>2
<1>9. ASSUME NEW p \in 0 .. K - 1
      PROVE  /\ W(p) \in Nat /\ W(p + 1) \in Nat
             /\ W(p + 1) = W(p) + bits_taken(List(l, s, p)) /\ W(p) < W(p + 1)
  <2>1. PICK a \in Nat : a = p * partition_size
    BY <1>2
  <2>2. /\ W(p) = a + (B(p) - B(0)) + 2 * p /\ W(p + 1) = E(p) + (B(p + 1) - B(0)) + 2 * p + 2
        /\ bits_taken(List(l, s, p)) = (E(p) - a) + (B(p + 1) - B(p)) + 2
    BY <1>4, <1>7, <1>8, <2>1
  <2>3. a < E(p) /\ p \in Nat /\ E(p) \in Nat
    BY <1>2, <2>1
  <2> QED
    BY <1>6, <2>2, <2>3
<1>10. ASSUME NEW p \in 0 .. K PROVE W(p) \in Nat
  <2>1. p = 0 \/ (p - 1 \in 0 .. K - 1 /\ (p - 1) + 1 = p)
    BY <1>2
  <2>2. CASE p = 0
    BY <1>5, <2>2
  <2> QED
    BY <1>9, <2>1, <2>2
<1>11. W(K) <= 3 * N + s[N]
  <2>1. PICK p \in Nat : p = K - 1 /\ p \in 0 .. K - 1 /\ p + 1 = K
    BY <1>2
  <2>2. W(K) = N + (s[N] - B(0)) + 2 * p + 2 /\ B(0) \in Nat
    BY <1>2, <1>3, <1>6, <1>7, <2>1
  <2>3. p < N
    <3>1. p <= p * partition_size
      <4>1. partition_size >= 1 /\ partition_size \in Nat
        BY PartitionSize
      <4>2. PICK d \in Nat : partition_size = 1 + d
        <5>1. partition_size - 1 \in Nat /\ partition_size = 1 + (partition_size - 1)
          BY <4>1
        <5> QED
          BY <5>1
      <4>3. p * partition_size = p + p * d /\ p * d \in Nat
        BY <2>1, <4>2
      <4> QED
        BY <2>1, <4>3
    <3> QED
      BY <1>2, <2>1, <3>1
  <2> QED
    BY <1>1, <2>1, <2>2, <2>3
<1> QED
  BY <1>9, <1>10, <1>11 DEF K, N, W, B, E

(* No two begin at the same place.                                         *)
LEMMA WhereOrdered ==
  ASSUME NEW l, NEW s, Known(l, s), NEW p \in 0 .. Count(l), NEW q \in 0 .. Count(l)
  PROVE  p < q => Where(l, s, p) < Where(l, s, q)
<1> SUFFICES ASSUME p < q PROVE Where(l, s, p) < Where(l, s, q)
  OBVIOUS
<1> DEFINE K == Count(l)
           W(k) == Where(l, s, k)
           P == {k \in Nat : p + 1 + k <= q => W(p) < W(p + 1 + k)}
<1>1. K \in Nat
  BY KnownFacts, Cut
<1>2. /\ \A k \in 0 .. K : W(k) \in Nat
      /\ \A k \in 0 .. K - 1 : W(k) < W(k + 1)
  BY WhereKnown
<1> HIDE DEF K, W
<1>3. p \in 0 .. K /\ q \in 0 .. K /\ p \in Nat /\ q \in Nat
  BY <1>1 DEF K
<1>4. 0 \in P
  <2>1. p \in 0 .. K - 1 /\ p + 1 + 0 = p + 1
    BY <1>1, <1>3
  <2> QED
    BY <1>2, <2>1
<1>5. ASSUME NEW k \in 0 .. (q - (p + 1)) - 1, k \in P PROVE k + 1 \in P
  <2>1. /\ k \in Nat /\ p + 1 + k \in 0 .. K - 1 /\ p + 1 + (k + 1) = (p + 1 + k) + 1
        /\ p + 1 + k <= q /\ p \in 0 .. K /\ p + 1 + k \in 0 .. K /\ (p + 1 + k) + 1 \in 0 .. K
    BY <1>1, <1>3
  <2>2. W(p + 1 + k) < W((p + 1 + k) + 1) /\ W(p) < W(p + 1 + k)
    BY <1>2, <1>5, <2>1
  <2>3. W(p) \in Nat /\ W(p + 1 + k) \in Nat /\ W((p + 1 + k) + 1) \in Nat
    BY <1>2, <2>1
  <2>4. W(p) < W((p + 1 + k) + 1)
    BY <2>2, <2>3
  <2> QED
    BY <2>1, <2>4
<1>6. q - (p + 1) \in Nat /\ q - (p + 1) \in 0 .. q - (p + 1) /\ p + 1 + (q - (p + 1)) = q
  BY <1>3
<1>7. q - (p + 1) \in P
  <2> HIDE DEF P
  <2> QED
    BY <1>4, <1>5, <1>6, InductionUpTo
<1> QED
  BY <1>6, <1>7 DEF W

(* The endpoints of write().                                               *)
LEMMA EndpointsKnown ==
  ASSUME NEW l, NEW s, Known(l, s)
  PROVE  (CHOOSE e : e = [p \in 0 .. Count(l) |-> EndpointTurn(l, s, e, p)])
            = [p \in 0 .. Count(l) |-> Where(l, s, p)]
<1> DEFINE K == Count(l)
           W(k) == Where(l, s, k)
           F == CHOOSE e : e = [p \in 0 .. K |-> EndpointTurn(l, s, e, p)]
           g == [p \in 0 .. K |-> W(p)]
<1>1. K \in Nat
  BY KnownFacts, Cut
<1>2. \A k \in 0 .. K - 1 : W(k + 1) = W(k) + bits_taken(List(l, s, k))
  BY WhereKnown
<1>3. W(0) = 0
  BY DEF Where
<1> HIDE DEF K, W
<1>4. g = [p \in 0 .. K |-> EndpointTurn(l, s, g, p)]
  <2>1. ASSUME NEW p \in 0 .. K PROVE W(p) = EndpointTurn(l, s, g, p)
    <3>1. CASE p = 0
      BY <1>3, <3>1 DEF EndpointTurn
    <3>2. CASE p # 0
      <4>1. p - 1 \in 0 .. K - 1 /\ (p - 1) + 1 = p /\ p - 1 \in 0 .. K
        BY <1>1, <3>2
      <4>2. W(p) = W(p - 1) + bits_taken(List(l, s, p - 1))
        BY <1>2, <4>1
      <4>3. g[p - 1] = W(p - 1)
        BY <4>1
      <4> QED
        BY <3>2, <4>2, <4>3 DEF EndpointTurn
    <3> QED
      BY <3>1, <3>2
  <2> QED
    BY <2>1
<1>5. F = [p \in 0 .. K |-> EndpointTurn(l, s, F, p)]
  <2> HIDE DEF g
  <2> QED
    BY <1>4
<1> HIDE DEF F
<1> DEFINE P == {k \in Nat : F[k] = W(k)}
<1>6. 0 \in P
  <2>1. 0 \in 0 .. K
    BY <1>1
  <2>2. F[0] = EndpointTurn(l, s, F, 0)
    BY <1>5, <2>1
  <2> QED
    BY <1>3, <2>2 DEF EndpointTurn
<1>7. ASSUME NEW k \in 0 .. K - 1, k \in P PROVE k + 1 \in P
  <2>1. k + 1 \in 0 .. K /\ k + 1 # 0 /\ (k + 1) - 1 = k /\ k + 1 \in Nat
    BY <1>1
  <2>2. F[k + 1] = EndpointTurn(l, s, F, k + 1)
    BY <1>5, <2>1
  <2>3. F[k + 1] = F[k] + bits_taken(List(l, s, k))
    BY <2>1, <2>2 DEF EndpointTurn
  <2> QED
    BY <1>2, <1>7, <2>1, <2>3
<1>8. \A k \in 0 .. K : k \in P
  <2> HIDE DEF P
  <2> QED
    BY <1>1, <1>6, <1>7, InductionUpTo
<1>9. F = [p \in 0 .. K |-> W(p)]
  BY <1>5, <1>8
<1> QED
  BY <1>9 DEF F, K, W

(* How many bits a read at a byte is sure to give.                         *)
Sure == word_width - byte_width + 1

(* It is less than a word, since a byte has more than one bit.             *)
LEMMA SureKnown == Sure \in 1 .. word_width - 1
<1>1. /\ word_width \in Nat \ {0} /\ byte_width \in Nat \ {0} /\ word_width % byte_width = 0
      /\ byte_width > 1
  BY WordsAssumption, PefAssumption
<1>2. byte_width <= word_width
  <2>1. word_width < byte_width => word_width % byte_width = word_width
    BY <1>1
  <2> QED
    BY <1>1, <2>1
<1> QED
  BY <1>1, <1>2 DEF Sure

(* The width of the numbers up to one that has few bits.                   *)
LEMMA WidthWithin ==
  ASSUME NEW x \in Nat, NEW len \in 0 .. word_width, x < power[len]
  PROVE  /\ ceil_log2(x + 1) \in 0 .. len
         /\ \A v \in 0 .. x : /\ v \in Nat /\ v < power[ceil_log2(x + 1)]
                              /\ v < power[word_width]
                              /\ bits_of(v) \subseteq Mask(ceil_log2(x + 1))
                              /\ number(bits_of(v)) = v
<1>0. word_width \in Nat /\ len \in Nat /\ len <= word_width
  BY WordsAssumption
<1>1. power[len] <= power[word_width] /\ power[len] \in Nat /\ power[word_width] \in Nat
  BY <1>0, PowersOrdered, Powers
<1>2. x < power[word_width]
  BY <1>1
<1>3. ceil_log2(x + 1) \in 0 .. len
  <2>1. CASE x = 0
    BY <1>0, <2>1 DEF ceil_log2
  <2>2. CASE x # 0
    <3>1. msb(x) \in 0 .. len - 1
      BY <1>0, <2>2, MsbWithin
    <3>2. ceil_log2(x + 1) = msb(x) + 1
      <4>1. x + 1 > 1 /\ (x + 1) - 1 = x
        BY <2>2
      <4> QED
        BY <4>1 DEF ceil_log2
    <3> QED
      BY <1>0, <3>1, <3>2
  <2> QED
    BY <2>1, <2>2
<1>4. \A v \in 0 .. x : v < power[ceil_log2(x + 1)]
  BY <1>2, WidthKnown
<1>5. ASSUME NEW v \in 0 .. x
      PROVE  /\ v \in Nat /\ v < power[word_width]
             /\ bits_of(v) \subseteq Mask(ceil_log2(x + 1)) /\ number(bits_of(v)) = v
  <2>1. v \in Nat /\ v < power[word_width]
    BY <1>1
  <2>2. ceil_log2(x + 1) \in 0 .. word_width /\ v < power[ceil_log2(x + 1)]
    BY <1>0, <1>3, <1>4
  <2> QED
    BY <2>1, <2>2, BitsWithin, NumberOfBits
<1> QED
  BY <1>3, <1>4, <1>5

(* The widths of the bounds and of the places of the partitions.           *)
BoundWidth(l, s) == ceil_log2(s[Len(l.from)] + 1)
PlaceWidth(l, s) == ceil_log2(Where(l, s, Count(l)) + 1)

(* A number that is written in so many bits.                               *)
Written(v, width) ==
  /\ v \in Nat /\ v < power[word_width]
  /\ bits_of(v) \subseteq Mask(width) /\ number(bits_of(v)) = v

(* The bounds and the places are written whole, and can be read at a byte. *)
LEMMA WidthsKnown ==
  ASSUME NEW l, NEW s, Known(l, s)
  PROVE  /\ BoundWidth(l, s) \in 0 .. Sure /\ PlaceWidth(l, s) \in 1 .. Sure
         /\ s[Len(l.from)] + 1 < power[word_width]
         /\ PlaceWidth(l, s) + 1 < power[word_width]
         /\ \A k \in 0 .. Count(l) : Written(Bound(l, s, k), BoundWidth(l, s))
         /\ \A p \in 0 .. Count(l) : Written(Where(l, s, p), PlaceWidth(l, s))
<1> DEFINE K == Count(l)
           N == Len(l.from)
<1>1. /\ N \in Nat \ {0} /\ s[N] \in Nat
      /\ 3 * N + s[N] < power[Sure]
  BY KnownFacts DEF BitsSuffice, Sure
<1>2. K \in Nat \ {0}
  BY <1>1, Cut
<1>3. /\ \A p \in 0 .. K : Where(l, s, p) \in Nat
      /\ Where(l, s, K) <= 3 * N + s[N]
  BY WhereKnown
<1>4. /\ Bound(l, s, K) = s[N] /\ \A k \in 0 .. K : Bound(l, s, k) \in Nat
      /\ \A j, k \in 0 .. K : j <= k => Bound(l, s, j) <= Bound(l, s, k)
  BY BoundsKnown
<1>5. \A p \in 0 .. K : p < K => Where(l, s, p) < Where(l, s, K)
  <2> TAKE p \in 0 .. K
  <2>1. K \in 0 .. K
    BY <1>2
  <2> QED
    BY <2>1, WhereOrdered
<1>6. 0 < Where(l, s, K)
  <2>1. 0 \in 0 .. K /\ 0 < K
    BY <1>2
  <2> QED
    BY <1>5, <2>1 DEF Where
<1> HIDE DEF K, N
<1>7. /\ Sure \in 0 .. word_width /\ Sure \in Nat /\ word_width \in Nat /\ Sure <= word_width - 1
      /\ power[Sure] \in Nat /\ power[word_width] \in Nat /\ power[Sure] <= power[word_width]
  <2>1. Sure \in 1 .. word_width - 1 /\ word_width \in Nat
    BY SureKnown, WordsAssumption
  <2>2. Sure \in Nat /\ Sure <= word_width
    BY <2>1
  <2> QED
    BY <2>1, <2>2, Powers, PowersOrdered
<1>8. /\ ceil_log2(s[N] + 1) \in 0 .. Sure
      /\ \A v \in 0 .. s[N] : Written(v, ceil_log2(s[N] + 1))
  <2>1. s[N] < power[Sure]
    BY <1>1, <1>7
  <2> QED
    BY <1>1, <1>7, <2>1, WidthWithin DEF Written
<1>9. /\ ceil_log2(Where(l, s, K) + 1) \in 0 .. Sure
      /\ \A v \in 0 .. Where(l, s, K) :
           Written(v, ceil_log2(Where(l, s, K) + 1)) /\ v < power[ceil_log2(Where(l, s, K) + 1)]
  <2>1. Where(l, s, K) \in Nat /\ Where(l, s, K) < power[Sure]
    <3>1. K \in 0 .. K
      BY <1>2
    <3> QED
      BY <1>1, <1>3, <1>7, <3>1
  <2> QED
    BY <1>7, <2>1, WidthWithin DEF Written
<1>10. ceil_log2(Where(l, s, K) + 1) # 0
  <2>1. Where(l, s, K) \in 0 .. Where(l, s, K) /\ Where(l, s, K) \in Nat
    <3>1. K \in 0 .. K
      BY <1>2
    <3> QED
      BY <1>3, <3>1
  <2>2. power[0] = 1
    BY Powers
  <2> QED
    BY <1>6, <1>9, <2>1, <2>2
<1>11. \A k \in 0 .. K : Bound(l, s, k) \in 0 .. s[N]
  <2> TAKE k \in 0 .. K
  <2>1. K \in 0 .. K /\ k <= K
    BY <1>2
  <2> QED
    BY <1>1, <1>4, <2>1
<1>12. \A p \in 0 .. K : Where(l, s, p) \in 0 .. Where(l, s, K)
  <2> TAKE p \in 0 .. K
  <2>1. K \in 0 .. K /\ (p < K \/ p = K)
    BY <1>2
  <2> QED
    BY <1>3, <1>5, <2>1
<1>13. ceil_log2(Where(l, s, K) + 1) + 1 < power[word_width]
  <2>1. word_width < power[word_width]
    BY <1>7, PowerAbove
  <2> QED
    BY <1>7, <1>9, <2>1
<1>14. s[N] + 1 < power[word_width]
  BY <1>1, <1>7
<1> QED
  BY <1>7, <1>8, <1>9, <1>10, <1>11, <1>12, <1>13, <1>14 DEF BoundWidth, PlaceWidth, K, N

-----------------------------------------------------------------------------
(* The upper bounds that are written are read.                             *)
BoundsOf(l, s) == <<s[1]>> \o [p \in 1 .. Count(l) |-> s[End(l, p - 1)]]

(* The bounds are read back.                                               *)
LEMMA BoundsRead ==
  ASSUME NEW l, NEW s, Known(l, s), NEW cv,
         cv = fill(resized(Count(l) + 1, BoundWidth(l, s)), BoundsOf(l, s))
  PROVE  \A k \in 0 .. Count(l) : access_bits(cv, k) = Bound(l, s, k)
<1> DEFINE K == Count(l)
           w == BoundWidth(l, s)
           start == resized(K + 1, w)
           values == BoundsOf(l, s)
<1>1. K \in Nat \ {0}
  BY KnownFacts, Cut
<1>2. /\ w \in 0 .. Sure
      /\ \A k \in 0 .. K : Written(Bound(l, s, k), w)
  BY WidthsKnown
<1>3. Sure \in 1 .. word_width - 1 /\ word_width \in Nat
  BY SureKnown, WordsAssumption
<1> HIDE DEF K, w
<1>4. w \in 0 .. word_width /\ w \in Nat /\ Sure \in Nat
  BY <1>2, <1>3
<1>5. Vector(start) /\ start.size = K + 1 /\ start.mask = Mask(w) /\ start.cur = cursor_at(0)
  <2>1. K + 1 \in Nat
    BY <1>1
  <2> HIDE DEF start
  <2> QED
    BY <1>4, <2>1, VectorResized DEF start
<1> HIDE DEF start
<1>6. /\ values \in Seq(Nat) /\ Len(values) = K + 1
      /\ \A k \in 0 .. K : values[k + 1] = Bound(l, s, k)
  <2> DEFINE a == <<s[1]>>
             b == [p \in 1 .. K |-> s[End(l, p - 1)]]
  <2>1. \A k \in 0 .. K : Bound(l, s, k) \in Nat
    BY <1>2 DEF Written
  <2>2. ASSUME NEW p \in 1 .. K PROVE s[End(l, p - 1)] = Bound(l, s, p) /\ Bound(l, s, p) \in Nat
    <3>1. p \in 0 .. K /\ p # 0
      BY <1>1
    <3> QED
      BY <2>1, <3>1 DEF Bound
  <2>3. s[1] \in Nat /\ s[1] = Bound(l, s, 0)
    <3>1. 0 \in 0 .. K
      BY <1>1
    <3> QED
      BY <2>1, <3>1 DEF Bound
  <2>4. a \in Seq(Nat) /\ Len(a) = 1 /\ a[1] = Bound(l, s, 0)
    BY <2>3
  <2>5. b \in Seq(Nat) /\ Len(b) = K /\ \A p \in 1 .. K : b[p] = Bound(l, s, p)
    BY <1>1, <2>2
  <2> HIDE DEF a, b
  <2>6. /\ a \o b \in Seq(Nat) /\ Len(a \o b) = 1 + K
        /\ \A k \in 1 .. 1 + K : (a \o b)[k] = IF k <= 1 THEN a[k] ELSE b[k - 1]
    <3>1. a \in Seq(Nat) /\ b \in Seq(Nat)
      BY <2>4, <2>5
    <3>2. /\ a \o b \in Seq(Nat) /\ Len(a \o b) = Len(a) + Len(b)
          /\ \A k \in 1 .. Len(a) + Len(b) : (a \o b)[k] = IF k <= Len(a) THEN a[k] ELSE b[k - Len(a)]
      BY <3>1, WordsJoined
    <3>3. Len(a) = 1 /\ Len(b) = K
      BY <2>4, <2>5
    <3> QED
      BY <3>2, <3>3
  <2>7. ASSUME NEW k \in 0 .. K PROVE (a \o b)[k + 1] = Bound(l, s, k)
    <3>1. k \in Nat /\ k + 1 \in 1 .. 1 + K /\ (k + 1) - 1 = k /\ (k + 1 <= 1 <=> k = 0)
          /\ (k # 0 => k \in 1 .. K)
      BY <1>1
    <3>2. CASE k = 0
      BY <2>4, <2>6, <3>1, <3>2
    <3>3. CASE k # 0
      BY <2>5, <2>6, <3>1, <3>3
    <3> QED
      BY <3>2, <3>3
  <2>8. values = a \o b
    BY DEF BoundsOf, a, b, K
  <2>9. Len(a \o b) = K + 1
    BY <1>1, <2>6
  <2> QED
    BY <2>6, <2>7, <2>8, <2>9
<1> HIDE DEF values
<1>7. \A k \in 1 .. start.size : VectorFits(start, values[k])
  <2> TAKE k \in 1 .. start.size
  <2>1. k - 1 \in 0 .. K /\ (k - 1) + 1 = k
    BY <1>1, <1>5
  <2>2. Written(values[k], w)
    BY <1>2, <1>6, <2>1
  <2> QED
    BY <1>5, <2>2 DEF Written, VectorFits
<1>8. cv = fill(start, values)
  BY DEF start, values, K, w
<1>9. /\ Vector(cv) /\ cv.size = K + 1 /\ cv.mask = Mask(w)
      /\ \A i \in 0 .. (K + 1) - 1 : VectorHolds(cv, i, values[i + 1])
  <2>1. Len(values) = start.size
    BY <1>5, <1>6
  <2> QED
    BY <1>5, <1>6, <1>7, <1>8, <2>1, FillStores
<1>10. cv.width <= Sure
  <2>1. cv.width \in 1 .. word_width /\ (Mask(w) = 0 .. cv.width - 1 \/ cv.width = 1)
    BY <1>9 DEF Vector
  <2>2. CASE cv.width = 1
    BY <1>3, <2>2
  <2>3. CASE Mask(w) = 0 .. cv.width - 1
    <3>1. cv.width - 1 \in 0 .. cv.width - 1
      BY <1>3, <2>1
    <3>2. cv.width - 1 \in 0 .. w - 1
      BY <2>3, <3>1 DEF Mask
    <3> QED
      BY <1>2, <1>3, <1>4, <2>1, <3>2
  <2> QED
    BY <2>1, <2>2, <2>3
<1>11. ASSUME NEW k \in 0 .. K PROVE access_bits(cv, k) = Bound(l, s, k)
  <2>1. k \in 0 .. cv.size - 1 /\ k \in 0 .. (K + 1) - 1
    BY <1>1, <1>9
  <2>2. VectorHolds(cv, k, Bound(l, s, k))
    BY <1>6, <1>9, <2>1
  <2>3. VectorFits(cv, Bound(l, s, k))
    BY <1>2, <1>9 DEF Written, VectorFits
  <2> QED
    BY <1>9, <1>10, <2>1, <2>2, <2>3, VectorRead DEF Sure
<1> QED
  BY <1>11 DEF K

(* The header of a single partition, and how it is read.                   *)
SingleHeader(l, s) ==
  LET with_base == append_bits(no_bits, bits_of(s[1]), BoundWidth(l, s))
  IN  IF Len(l.from) = 1 THEN with_base ELSE write_delta(with_base, s[Len(l.from)] - s[1])

LEMMA NoBitsPacked == Packed(no_bits) /\ no_bits.size = 0
  BY WordsAssumption DEF Packed, BitVec, no_bits, Word

(* The base is at its beginning, and the delta code comes next.            *)
LEMMA SingleHeaderWritten ==
  ASSUME NEW l, NEW s, Known(l, s), NEW h, h = SingleHeader(l, s)
  PROVE  LET back == s[Len(l.from)] - s[1]
         IN  /\ Packed(h) /\ h.size \in Nat /\ BoundWidth(l, s) <= h.size
             /\ Written(s[1], BoundWidth(l, s)) /\ Spelt(h, 0, BoundWidth(l, s), bits_of(s[1]))
             /\ back \in Nat /\ back + 1 < power[word_width]
             /\ Len(l.from) # 1 => DeltaAt(h, BoundWidth(l, s), back, h.size)
             /\ Len(l.from) = 1 => h.size = BoundWidth(l, s)
<1> DEFINE N == Len(l.from)
           w == BoundWidth(l, s)
           base0 == s[1]
           back == s[N] - s[1]
           with_base == append_bits(no_bits, bits_of(base0), w)
<1>1. /\ N \in Nat \ {0} /\ s[N] \in Nat /\ s[1] \in Nat /\ s[1] <= s[N]
  <2>1. N \in Nat \ {0} /\ \A i \in 1 .. N : s[i] \in Nat
    BY KnownFacts
  <2>2. \A i, j \in 1 .. N : i <= j => s[i] <= s[j]
    BY KnownFacts
  <2>3. 1 \in 1 .. N /\ N \in 1 .. N /\ 1 <= N
    BY <2>1
  <2> QED
    BY <2>1, <2>2, <2>3
<1>2. /\ w \in 0 .. Sure /\ s[N] + 1 < power[word_width]
      /\ \A k \in 0 .. Count(l) : Written(Bound(l, s, k), w)
  BY WidthsKnown
<1>3. Written(base0, w)
  <2>1. 0 \in 0 .. Count(l)
    BY <1>1, Cut
  <2>2. Bound(l, s, 0) = s[1]
    BY DEF Bound
  <2> QED
    BY <1>2, <2>1, <2>2
<1>4. Sure \in 1 .. word_width - 1 /\ word_width \in Nat
  BY SureKnown, WordsAssumption
<1>5. h = IF N = 1 THEN with_base ELSE write_delta(with_base, back)
  BY DEF SingleHeader
<1>0. w = BoundWidth(l, s) /\ N = Len(l.from) /\ base0 = s[1] /\ back = s[N] - s[1]
  OBVIOUS
<1> HIDE DEF N, w, base0, back
<1>6. w \in 0 .. word_width /\ w \in 0 .. word_width - 1 /\ w \in Nat
  BY <1>2, <1>4
<1>7. /\ Packed(with_base) /\ with_base.size = 0 + w /\ with_base.size \in Nat
      /\ Spelt(with_base, 0, w, bits_of(base0))
  <2>1. bits_of(base0) \in SUBSET (0 .. w - 1)
    BY <1>3 DEF Written, Mask
  <2> QED
    BY <1>6, <2>1, NoBitsPacked, AppendedSpelt
<1> HIDE DEF with_base
<1>8. back \in Nat /\ back + 1 < power[word_width]
  <2>1. power[word_width] \in Nat
    BY <1>4, Powers
  <2> QED
    BY <1>0, <1>1, <1>2, <2>1
<1>9. /\ Packed(h) /\ h.size \in Nat /\ Continues(h, with_base)
      /\ N # 1 => DeltaAt(h, w, back, h.size)
      /\ N = 1 => h.size = w
  <2>1. CASE N = 1
    <3>1. h = with_base
      BY <1>5, <2>1
    <3> QED
      BY <1>6, <1>7, <2>1, <3>1 DEF Continues
  <2>2. CASE N # 1
    <3>1. h = write_delta(with_base, back)
      BY <1>5, <2>2
    <3>2. with_base.size = w
      BY <1>6, <1>7
    <3> QED
      BY <1>7, <1>8, <2>2, <3>1, <3>2, DeltaWritten
  <2> QED
    BY <2>1, <2>2
<1>10. w <= h.size /\ Spelt(h, 0, w, bits_of(base0))
  <2>1. 0 + w <= with_base.size
    BY <1>6, <1>7
  <2> QED
    BY <1>6, <1>7, <1>9, <2>1, SpeltKept DEF Continues
<1> QED
  BY <1>0, <1>3, <1>8, <1>9, <1>10

(* Both are read from what goes on from the header.                        *)
LEMMA SingleHeaderRead ==
  ASSUME NEW l, NEW s, Known(l, s), NEW h, h = SingleHeader(l, s), NEW bv, BitVec(bv), Continues(bv, h)
  PROVE  LET first == iterator_get_bits(bv, bits_iterator(0), BoundWidth(l, s))
             delta == IF Len(l.from) > 1 THEN read_delta(bv, first.it) ELSE first
         IN  /\ first.val = s[1] /\ delta.it.pos = h.size
             /\ Len(l.from) > 1 => delta.val = s[Len(l.from)] - s[1]
<1> DEFINE N == Len(l.from)
           w == BoundWidth(l, s)
           base0 == s[1]
           back == s[N] - s[1]
           first == iterator_get_bits(bv, bits_iterator(0), w)
           delta == IF N > 1 THEN read_delta(bv, first.it) ELSE first
<1>1. N \in Nat \ {0}
  BY KnownFacts
<1>2. w \in 0 .. Sure
  BY WidthsKnown
<1>4. Sure \in 1 .. word_width - 1 /\ word_width \in Nat
  BY SureKnown, WordsAssumption
<1>9. /\ h.size \in Nat /\ w <= h.size
      /\ Written(base0, w) /\ Spelt(h, 0, w, bits_of(base0))
      /\ back \in Nat /\ back + 1 < power[word_width]
      /\ N # 1 => DeltaAt(h, w, back, h.size)
      /\ N = 1 => h.size = w
  BY SingleHeaderWritten
<1>0. w = BoundWidth(l, s) /\ N = Len(l.from) /\ base0 = s[1] /\ back = s[N] - s[1]
  OBVIOUS
<1> HIDE DEF N, w, base0, back
<1>6. w \in 0 .. word_width /\ w \in 0 .. word_width - 1 /\ w \in Nat
  BY <1>2, <1>4
<1>10. bv.size \in Nat
  BY DEF BitVec
<1>12. Spelt(bv, 0, w, bits_of(base0)) /\ w <= bv.size
  <2>1. 0 + w <= h.size
    BY <1>6, <1>9
  <2> QED
    BY <1>6, <1>9, <1>10, <2>1, SpeltKept DEF Continues
<1>13. first.val = base0 /\ Buffered(bv, first.it) /\ first.it.pos = w
  <2>1. Buffered(bv, bits_iterator(0)) /\ bits_iterator(0).pos = 0
    BY StartBuffered
  <2>2. bits_of(base0) \in SUBSET (0 .. w - 1) /\ number(bits_of(base0)) = base0
    BY <1>9 DEF Written, Mask
  <2>3. bits_iterator(0).pos + w <= bv.size /\ Spelt(bv, bits_iterator(0).pos, w, bits_of(base0))
        /\ bits_iterator(0).pos + w = w
    BY <1>6, <1>12, <2>1
  <2> QED
    BY <1>6, <2>1, <2>2, <2>3, BitsGotten
<1> HIDE DEF first
<1>14. delta.it.pos = h.size /\ (N > 1 => delta.val = back)
  <2>1. CASE N = 1
    <3>1. delta = first
      BY <2>1
    <3> QED
      BY <1>9, <1>13, <2>1, <3>1
  <2>2. CASE N # 1
    <3>1. N > 1
      <4>1. N \in Nat \ {0}
        BY <1>1
      <4> QED
        BY <2>2, <4>1
    <3>2. delta = read_delta(bv, first.it)
      BY <3>1
    <3>3. DeltaAt(bv, w, back, h.size)
      BY <1>6, <1>9, <1>10, <2>2, DeltaKept
    <3>4. DeltaAt(bv, first.it.pos, back, h.size) /\ Buffered(bv, first.it)
      BY <1>13, <3>3
    <3>5. read_delta(bv, first.it).val = back /\ read_delta(bv, first.it).it.pos = h.size
      BY <1>9, <3>4, DeltaRead
    <3> QED
      BY <3>2, <3>5
  <2> HIDE DEF delta
  <2> QED
    BY <2>1, <2>2
<1> QED
  BY <1>0, <1>9, <1>13, <1>14 DEF first

(* The header of several partitions, of which each but the first begins at *)
(* an endpoint.                                                            *)
HeaderTurn(e, width, f, p) ==
  IF p = 0 THEN write_gamma(no_bits, width)
  ELSE append_bits(f[p - 1], bits_of(e[p]), width)

(* The code of the width ends at b, and the first k endpoints follow.      *)
HeaderTo(l, s, x, b, k) ==
  /\ Packed(x) /\ b \in Nat /\ GammaAt(x, 0, PlaceWidth(l, s), b)
  /\ x.size = b + k * PlaceWidth(l, s)
  /\ \A j \in 0 .. k - 1 :
       Spelt(x, b + j * PlaceWidth(l, s), PlaceWidth(l, s), bits_of(Where(l, s, j + 1)))

(* It begins with the width, and every endpoint is appended.               *)
LEMMA HeaderStarted ==
  ASSUME NEW l, NEW s, Known(l, s), NEW x, x = write_gamma(no_bits, PlaceWidth(l, s))
  PROVE  HeaderTo(l, s, x, x.size, 0)
<1>1. PlaceWidth(l, s) \in 1 .. Sure /\ PlaceWidth(l, s) + 1 < power[word_width]
  BY WidthsKnown
<1>2. PlaceWidth(l, s) \in Nat
  BY <1>1, SureKnown
<1>3. Packed(x) /\ x.size \in Nat /\ GammaAt(x, 0, PlaceWidth(l, s), x.size)
  BY <1>1, <1>2, NoBitsPacked, GammaWritten
<1>4. x.size = x.size + 0 * PlaceWidth(l, s)
  BY <1>2, <1>3
<1> QED
  BY <1>3, <1>4 DEF HeaderTo

LEMMA EndpointAppended ==
  ASSUME NEW l, NEW s, Known(l, s), NEW x, NEW b, NEW k \in 0 .. Count(l) - 1, HeaderTo(l, s, x, b, k),
         NEW new, new = append_bits(x, bits_of(Where(l, s, k + 1)), PlaceWidth(l, s))
  PROVE  HeaderTo(l, s, new, b, k + 1)
<1> DEFINE w == PlaceWidth(l, s)
<1>1. w \in 1 .. Sure /\ \A p \in 0 .. Count(l) : Written(Where(l, s, p), w)
  BY WidthsKnown
<1>2. w \in 0 .. word_width /\ w \in Nat
  BY <1>1, SureKnown, WordsAssumption
<1>3. k \in Nat /\ k + 1 \in 0 .. Count(l)
  BY KnownFacts, Cut
<1>4. bits_of(Where(l, s, k + 1)) \in SUBSET (0 .. w - 1)
  BY <1>1, <1>3 DEF Written, Mask
<1>5. /\ Packed(x) /\ b \in Nat /\ GammaAt(x, 0, w, b) /\ x.size = b + k * w
      /\ \A j \in 0 .. k - 1 : Spelt(x, b + j * w, w, bits_of(Where(l, s, j + 1)))
  BY DEF HeaderTo
<1>0. w = PlaceWidth(l, s)
  OBVIOUS
<1> HIDE DEF w
<1>6. /\ Packed(new) /\ new.size = x.size + w /\ x.size \in Nat /\ new.size \in Nat
      /\ Continues(new, x) /\ Spelt(new, x.size, w, bits_of(Where(l, s, k + 1)))
  BY <1>0, <1>2, <1>4, <1>5, AppendedSpelt
<1>7. new.size = b + (k + 1) * w
  <2>1. PICK a \in Nat : a = k * w
    BY <1>2, <1>3
  <2>2. (k + 1) * w = a + w
    BY <1>2, <1>3, <2>1
  <2> QED
    BY <1>2, <1>5, <1>6, <2>1, <2>2
<1>8. GammaAt(new, 0, w, b)
  BY <1>2, <1>5, <1>6, GammaKept
<1>9. ASSUME NEW j \in 0 .. (k + 1) - 1 PROVE Spelt(new, b + j * w, w, bits_of(Where(l, s, j + 1)))
  <2>0. j \in Nat /\ j <= k
    BY <1>3
  <2>1. CASE j = k
    BY <1>5, <1>6, <2>1
  <2>2. CASE j # k
    <3>1. j \in 0 .. k - 1 /\ j < k
      BY <1>3, <2>0, <2>2
    <3>2. j * w \in Nat /\ k * w \in Nat /\ j * w + w <= k * w
      BY <1>2, <1>3, <2>0, <3>1, RowPlaces
    <3>3. b + j * w \in Nat /\ (b + j * w) + w <= x.size
      BY <1>2, <1>5, <3>2
    <3> QED
      BY <1>2, <1>5, <1>6, <3>1, <3>3, SpeltKept
  <2> QED
    BY <2>1, <2>2
<1> QED
  BY <1>0, <1>5, <1>6, <1>7, <1>8, <1>9 DEF HeaderTo

Endpoints(l, s) == [p \in 0 .. Count(l) |-> Where(l, s, p)]
ManyHeader(l, s) ==
  (CHOOSE f : f = [p \in 0 .. Count(l) - 1 |-> HeaderTurn(Endpoints(l, s), PlaceWidth(l, s), f, p)])
    [Count(l) - 1]

(* All of them are written.                                                *)
LEMMA HeaderWritten ==
  ASSUME NEW l, NEW s, Known(l, s), NEW h, h = ManyHeader(l, s)
  PROVE  \E b \in Nat : HeaderTo(l, s, h, b, Count(l) - 1)
<1> DEFINE m == Count(l) - 1
           e == Endpoints(l, s)
           w == PlaceWidth(l, s)
           x0 == write_gamma(no_bits, w)
           b == x0.size
           D == {x \in [size : Nat, words : Seq(Word)] : Packed(x)}
           more(k, x) == append_bits(x, bits_of(Where(l, s, k + 1)), w)
           step == [y \in Nat \X D |-> IF more(y[1], y[2]) \in D THEN more(y[1], y[2]) ELSE y[2]]
           After(x, k) == HeaderTo(l, s, x, b, k)
           turn(f, k) == HeaderTurn(e, w, f, k)
           F == CHOOSE f : f = [k \in 0 .. m |-> turn(f, k)]
<1>0. m \in Nat /\ Count(l) \in Nat /\ \A k \in 0 .. m - 1 : k \in 0 .. Count(l) - 1 /\ k \in Nat
  BY KnownFacts, Cut
<1>1. After(x0, 0)
  BY HeaderStarted
<1>2. \A k \in 0 .. m - 1 : \A x : After(x, k) => After(more(k, x), k + 1)
  BY <1>0, EndpointAppended
<1>3. \A x, k : After(x, k) => x \in D
  BY DEF HeaderTo, Packed
<1>4. b \in Nat
  BY <1>1 DEF HeaderTo
<1>5. h = F[m]
  BY DEF ManyHeader
<1>6. \A k \in 1 .. m : e[k] = Where(l, s, k)
  BY <1>0 DEF Endpoints
<1> HIDE DEF D, e, m, w, x0, b, After, more
<1>7. /\ step \in [Nat \X D -> D]
      /\ \A k \in Nat, x \in D : step[<<k, x>>] = IF more(k, x) \in D THEN more(k, x) ELSE x
  OBVIOUS
<1> HIDE DEF step
<1>8. PICK f \in [Nat -> D] : f[0] = x0 /\ \A k \in Nat : f[k + 1] = step[<<k, f[k]>>]
  <2>1. Steps(D, x0, step)
    BY <1>1, <1>3, <1>7 DEF Steps
  <2>2. HasRecursion(D, x0, step)
    BY <2>1, Recursion
  <2> QED
    BY <2>2 DEF HasRecursion
<1> DEFINE P == {k \in Nat : After(f[k], k)}
<1>9. 0 \in P
  BY <1>1, <1>8
<1>10. ASSUME NEW k \in 0 .. m - 1, k \in P PROVE k + 1 \in P /\ f[k + 1] = more(k, f[k])
  <2>1. k \in Nat /\ After(f[k], k) /\ k + 1 \in Nat
    BY <1>10
  <2>2. After(more(k, f[k]), k + 1)
    BY <1>2, <2>1
  <2>3. f[k + 1] = more(k, f[k])
    BY <1>3, <1>7, <1>8, <2>1, <2>2
  <2> QED
    BY <2>1, <2>2, <2>3
<1>11. \A k \in 0 .. m : k \in P
  <2> HIDE DEF P
  <2> QED
    BY <1>0, <1>9, <1>10, InductionUpTo
<1>12. \A k \in 0 .. m - 1 : f[k + 1] = more(k, f[k])
  <2> TAKE k \in 0 .. m - 1
  <2>1. k \in 0 .. m
    BY <1>0
  <2> QED
    BY <1>10, <1>11, <2>1
<1> DEFINE g == [k \in 0 .. m |-> f[k]]
<1>13. g = [k \in 0 .. m |-> turn(g, k)]
  <2>1. ASSUME NEW k \in 0 .. m PROVE f[k] = turn(g, k)
    <3>1. CASE k = 0
      BY <1>8, <3>1 DEF HeaderTurn, x0
    <3>2. CASE k # 0
      <4>1. k - 1 \in 0 .. m - 1 /\ (k - 1) + 1 = k /\ k - 1 \in 0 .. m /\ k \in 1 .. m
        BY <1>0, <3>2
      <4>2. f[k] = more(k - 1, f[k - 1])
        BY <1>12, <4>1
      <4>3. more(k - 1, f[k - 1]) = append_bits(f[k - 1], bits_of(e[k]), w)
        BY <1>6, <4>1 DEF more
      <4> QED
        BY <3>2, <4>1, <4>2, <4>3 DEF HeaderTurn
    <3> QED
      BY <3>1, <3>2
  <2> QED
    BY <2>1
<1>14. F = [k \in 0 .. m |-> turn(F, k)]
  <2> HIDE DEF g, turn
  <2> QED
    BY <1>13
<1> HIDE DEF F
<1> DEFINE Q == {k \in Nat : F[k] = f[k]}
<1>15. m \in Q
  <2>1. 0 \in Q
    <3>1. 0 \in 0 .. m
      BY <1>0
    <3> QED
      BY <1>8, <1>14, <3>1 DEF HeaderTurn, x0
  <2>2. ASSUME NEW k \in 0 .. m - 1, k \in Q PROVE k + 1 \in Q
    <3>1. k + 1 \in 0 .. m /\ k + 1 # 0 /\ (k + 1) - 1 = k /\ k + 1 \in Nat /\ k + 1 \in 1 .. m
      BY <1>0
    <3>2. F[k + 1] = append_bits(F[k], bits_of(e[k + 1]), w)
      BY <1>14, <3>1 DEF HeaderTurn
    <3>3. F[k + 1] = more(k, F[k])
      BY <1>6, <3>1, <3>2 DEF more
    <3> QED
      BY <1>12, <2>2, <3>1, <3>3
  <2> HIDE DEF Q
  <2>3. m \in 0 .. m
    BY <1>0
  <2> QED
    BY <1>0, <2>1, <2>2, <2>3, InductionUpTo
<1>16. After(h, m)
  <2>1. m \in 0 .. m
    BY <1>0
  <2>2. After(f[m], m)
    BY <1>11, <2>1
  <2> QED
    BY <1>5, <1>15, <2>2
<1> QED
  BY <1>4, <1>16 DEF After, m

(* Bits are read where they lie.                                           *)
LEMMA SpeltRead ==
  ASSUME NEW bv, BitVec(bv), NEW pos \in Nat, NEW len \in 1 .. word_width, pos + len <= bv.size,
         NEW bits \in SUBSET (0 .. len - 1), Spelt(bv, pos, len, bits)
  PROVE  get_bits(bv, pos, len) = bits
<1>1. /\ word_width \in Nat \ {0} /\ bv.words \in Seq(Word) /\ Len(bv.words) \in Nat /\ bv.size \in Nat
      /\ bv.size <= word_width * Len(bv.words)
  BY WordsAssumption DEF BitVec
<1>2. pos + len <= word_width * Len(bv.words)
  <2>1. PICK top \in Nat : top = word_width * Len(bv.words)
    BY <1>1
  <2> QED
    BY <1>1, <2>1
<1>3. Mask(len) = 0 .. len - 1 /\ Mask(len) \in SUBSET (0 .. len - 1)
  BY DEF Mask
<1>4. read_bits(bv.words, pos, len, Mask(len)) = {x \in Mask(len) : BitAt(bv.words, pos + x)}
  <2>1. PICK words \in Seq(Word) : words = bv.words
    BY <1>1
  <2>2. PICK mask \in SUBSET (0 .. len - 1) : mask = Mask(len) /\ mask = 0 .. len - 1
    BY <1>3
  <2>3. pos + len <= word_width * Len(words)
    BY <1>2, <2>1
  <2>4. read_bits(words, pos, len, mask) = {x \in mask : BitAt(words, pos + x)}
    BY <2>2, <2>3, BitsRead
  <2> QED
    BY <2>1, <2>2, <2>4
<1>5. get_bits(bv, pos, len) = read_bits(bv.words, pos, len, Mask(len))
  BY <1>1 DEF get_bits
<1>6. {x \in 0 .. len - 1 : BitAt(bv.words, pos + x)} = bits
  BY DEF Spelt
<1> QED
  BY <1>3, <1>4, <1>5, <1>6

(* The width and the endpoints are read from what goes on from the header. *)
LEMMA HeaderRead ==
  ASSUME NEW l, NEW s, Known(l, s), NEW h, NEW b, HeaderTo(l, s, h, b, Count(l) - 1),
         NEW bv, BitVec(bv), Continues(bv, h)
  PROVE  /\ read_gamma(bv, bits_iterator(0)).val = PlaceWidth(l, s)
         /\ read_gamma(bv, bits_iterator(0)).it.pos = b
         /\ h.size = b + PlaceWidth(l, s) * (Count(l) - 1)
         /\ \A p \in 1 .. Count(l) - 1 :
              number(get_bits(bv, b + (p - 1) * PlaceWidth(l, s), PlaceWidth(l, s))) = Where(l, s, p)
<1> DEFINE w == PlaceWidth(l, s)
           m == Count(l) - 1
<1>1. /\ w \in 1 .. Sure /\ w + 1 < power[word_width]
      /\ \A p \in 0 .. Count(l) : Written(Where(l, s, p), w)
  BY WidthsKnown
<1>2. w \in 1 .. word_width /\ w \in Nat /\ word_width \in Nat \ {0}
  BY <1>1, SureKnown, WordsAssumption
<1>3. Count(l) \in Nat /\ m \in Nat
  BY KnownFacts, Cut
<1>4. /\ Packed(h) /\ b \in Nat /\ GammaAt(h, 0, w, b) /\ h.size = b + m * w
      /\ \A j \in 0 .. m - 1 : Spelt(h, b + j * w, w, bits_of(Where(l, s, j + 1)))
  BY DEF HeaderTo
<1>5. h.size \in Nat /\ bv.size \in Nat /\ h.size <= bv.size
      /\ bv.words \in Seq(Word) /\ bv.size <= word_width * Len(bv.words)
  BY <1>4 DEF Packed, BitVec, Continues
<1>0. w = PlaceWidth(l, s) /\ m = Count(l) - 1
  OBVIOUS
<1> HIDE DEF w, m
<1>6. read_gamma(bv, bits_iterator(0)).val = w /\ read_gamma(bv, bits_iterator(0)).it.pos = b
  <2>1. GammaAt(bv, 0, w, b)
    BY <1>2, <1>4, <1>5, GammaKept
  <2>2. Buffered(bv, bits_iterator(0)) /\ bits_iterator(0).pos = 0
    BY StartBuffered
  <2>3. GammaAt(bv, bits_iterator(0).pos, w, b)
    BY <2>1, <2>2
  <2>4. w \in Nat /\ w + 1 < power[word_width]
    BY <1>1, <1>2
  <2> DEFINE it == bits_iterator(0)
  <2>5. Buffered(bv, it) /\ GammaAt(bv, it.pos, w, b)
    BY <2>2, <2>3
  <2> HIDE DEF it
  <2>6. read_gamma(bv, it).val = w /\ read_gamma(bv, it).it.pos = b
    BY <2>4, <2>5, GammaRead
  <2> QED
    BY <2>6 DEF it
<1>7. ASSUME NEW p \in 1 .. m PROVE number(get_bits(bv, b + (p - 1) * w, w)) = Where(l, s, p)
  <2>1. PICK j \in Nat : j = p - 1 /\ j \in 0 .. m - 1 /\ j + 1 = p /\ j < m /\ p \in 0 .. Count(l)
    <3>1. p - 1 \in Nat /\ p - 1 \in 0 .. m - 1 /\ (p - 1) + 1 = p /\ p - 1 < m /\ p \in 0 .. Count(l)
      BY <1>0, <1>3
    <3> QED
      BY <3>1
  <2>2. PICK a \in Nat : a = j * w /\ a + w <= m * w /\ m * w \in Nat
    <3>1. j * w \in Nat /\ m * w \in Nat /\ j * w + w <= m * w
      BY <1>2, <1>3, <2>1, RowPlaces
    <3> QED
      BY <3>1
  <2>3. Spelt(h, b + a, w, bits_of(Where(l, s, p)))
    BY <1>4, <2>1, <2>2
  <2>4. b + a \in Nat /\ (b + a) + w <= h.size
    BY <1>2, <1>4, <2>2
  <2>5. Spelt(bv, b + a, w, bits_of(Where(l, s, p)))
    BY <1>2, <1>5, <2>3, <2>4, SpeltKept
  <2>6. bits_of(Where(l, s, p)) \in SUBSET (0 .. w - 1) /\ number(bits_of(Where(l, s, p))) = Where(l, s, p)
    BY <1>1, <2>1 DEF Written, Mask
  <2>7. (b + a) + w <= bv.size
    BY <1>2, <1>5, <2>4
  <2>8. get_bits(bv, b + a, w) = bits_of(Where(l, s, p))
    BY <1>2, <2>4, <2>5, <2>6, <2>7, SpeltRead
  <2> QED
    BY <2>1, <2>2, <2>6, <2>8
<1>8. h.size = b + w * m
  BY <1>2, <1>3, <1>4
<1> QED
  BY <1>0, <1>6, <1>7, <1>8

(* The lists that are kept, by where they begin.                           *)
Lists(l, s, h, e) ==
  [offset \in {h.size + e[p] : p \in 0 .. Count(l) - 1} |->
     List(l, s, CHOOSE p \in 0 .. Count(l) - 1 : h.size + e[p] = offset)]

(* Each is found where it begins.                                          *)
LEMMA ListFound ==
  ASSUME NEW l, NEW s, Known(l, s), NEW e, e = [p \in 0 .. Count(l) |-> Where(l, s, p)],
         NEW h, h.size \in Nat, NEW p \in 0 .. Count(l) - 1
  PROVE  /\ h.size + Where(l, s, p) \in DOMAIN Lists(l, s, h, e)
         /\ Lists(l, s, h, e)[h.size + Where(l, s, p)] = List(l, s, p)
<1> DEFINE x == h.size + Where(l, s, p)
           q == CHOOSE q \in 0 .. Count(l) - 1 : h.size + e[q] = x
<1>1. /\ \A k \in 0 .. Count(l) - 1 : k \in 0 .. Count(l) /\ k \in Nat /\ e[k] = Where(l, s, k)
      /\ \A k \in 0 .. Count(l) : Where(l, s, k) \in Nat
  <2>1. Count(l) \in Nat
    BY KnownFacts, Cut
  <2> QED
    BY <2>1, WhereKnown
<1>2. h.size + e[p] = x
  BY <1>1
<1>3. q \in 0 .. Count(l) - 1 /\ h.size + e[q] = x
  BY <1>2
<1> HIDE DEF q
<1>4. q = p
  <2>1. Where(l, s, q) = Where(l, s, p) /\ Where(l, s, q) \in Nat
    <3>1. e[q] = Where(l, s, q) /\ Where(l, s, q) \in Nat
      BY <1>1, <1>3
    <3>2. Where(l, s, p) \in Nat
      BY <1>1
    <3> QED
      BY <1>3, <3>1, <3>2
  <2>2. p \in 0 .. Count(l) /\ q \in 0 .. Count(l)
    BY <1>1, <1>3
  <2>3. /\ q < p => Where(l, s, q) < Where(l, s, p)
        /\ p < q => Where(l, s, p) < Where(l, s, q)
    BY <2>2, WhereOrdered
  <2>4. ~ (q < p) /\ ~ (p < q)
    BY <2>1, <2>3
  <2> QED
    BY <1>1, <1>3, <2>4
<1>5. x \in DOMAIN Lists(l, s, h, e) /\ Lists(l, s, h, e)[x] = List(l, s, q)
  BY <1>2 DEF Lists, q
<1> QED
  BY <1>4, <1>5

-----------------------------------------------------------------------------
(* A reader finds the partitions, and the bounds between them.             *)
Readable(l, s, seq, found) ==
  /\ Known(l, s)
  /\ found = [p \in 0 .. Count(l) - 1 |-> Part(l, s, p)]
  /\ Count(l) > 1 => \A k \in 0 .. Count(l) : access_bits(seq.upper_bounds, k) = Bound(l, s, k)

Header(l, s) == IF Count(l) = 1 THEN single_header ELSE header(Endpoints(l, s))
AllBits(all) ==
  [size |-> all,
   words |-> [k \in 1 .. words_for(all) |-> Bits \cap Mask(all - (k - 1) * word_width)]]

(* What write() makes, in terms of those.                                  *)
LEMMA WriteKnown ==
  ASSUME Known(level, stored)
  PROVE  /\ write.data = append(Header(level, stored), AllBits(Where(level, stored, Count(level))))
         /\ Count(level) > 1 =>
              write.upper_bounds = fill(resized(Count(level) + 1, BoundWidth(level, stored)),
                                        BoundsOf(level, stored))
         /\ write.partitions = Lists(level, stored, Header(level, stored), Endpoints(level, stored))
<1> DEFINE e == CHOOSE e : e = [p \in 0 .. m_partitions |->
                               IF p = 0 THEN 0 ELSE e[p - 1] + bits_taken(cur_partition(p - 1))]
           E == Endpoints(level, stored)
           H == Header(level, stored)
<1>1. m_partitions = Count(level) /\ m_universe = stored[Len(level.from)] /\ \A p : EndOf(p) = End(level, p)
  BY DEF m_partitions, m_universe, m_size, Count, EndOf, End
<1>2. \A p : cur_partition(p) = List(level, stored, p)
  BY DEF cur_partition, List, EndOf, End, m_size, base, Base
<1>3. e = E
  BY EndpointsKnown DEF EndpointTurn, Endpoints, List, Base, End, Count, m_partitions,
     cur_partition, base, EndOf, m_size
<1>4. Count(level) \in Nat \ {0}
  BY KnownFacts, Cut
<1>5. E[Count(level)] = Where(level, stored, Count(level))
  BY <1>4 DEF Endpoints
<1> DEFINE first == IF m_partitions = 1 THEN single_header ELSE header(e)
<1>6. first = H
  <2> HIDE DEF e
  <2> QED
    BY <1>1, <1>3 DEF Header
<1>7. write.data = append(first, AllBits(e[m_partitions]))
  BY DEF write, AllBits
<1>8. m_partitions > 1 =>
        write.upper_bounds = fill(resized(m_partitions + 1, ceil_log2(m_universe + 1)),
                                  <<stored[1]>> \o [p \in 1 .. m_partitions |-> stored[EndOf(p - 1)]])
  <2>1. m_partitions > 1 => m_partitions # 1
    BY <1>1, <1>4
  <2> QED
    BY <2>1 DEF write
<1>9. write.partitions =
        [offset \in {first.size + e[p] : p \in 0 .. m_partitions - 1} |->
           cur_partition(CHOOSE p \in 0 .. m_partitions - 1 : first.size + e[p] = offset)]
  BY DEF write
<1> HIDE DEF e, E, first, H
<1>10. write.partitions = Lists(level, stored, H, E)
  BY <1>1, <1>2, <1>3, <1>6, <1>9 DEF Lists
<1>11. <<stored[1]>> \o [p \in 1 .. m_partitions |-> stored[EndOf(p - 1)]] = BoundsOf(level, stored)
  BY <1>1 DEF BoundsOf
<1>12. ceil_log2(m_universe + 1) = BoundWidth(level, stored)
  BY <1>1 DEF BoundWidth
<1> QED
  BY <1>1, <1>3, <1>5, <1>6, <1>7, <1>8, <1>10, <1>11, <1>12 DEF E, H

LEMMA AllBitsKnown ==
  ASSUME NEW all \in Nat
  PROVE  AllBits(all).size \in Nat /\ AllBits(all).words \in Seq(Word)
<1>1. words_for(all) \in Nat
  BY WordsAssumption, CeilDiv DEF words_for
<1>2. \A x : Bits \cap x \in Word
  BY DEF Word
<1>3. [k \in 1 .. words_for(all) |-> Bits \cap Mask(all - (k - 1) * word_width)] \in Seq(Word)
  <2> HIDE DEF Bits
  <2>1. \A k \in 1 .. words_for(all) : Bits \cap Mask(all - (k - 1) * word_width) \in Word
    BY <1>2
  <2> QED
    BY <1>1, <2>1
<1> QED
  BY <1>3 DEF AllBits

(* The header of both kinds has only what it needs.                        *)
LEMMA HeaderKnown ==
  ASSUME Known(level, stored)
  PROVE  /\ Packed(Header(level, stored))
         /\ Count(level) = 1 => Header(level, stored) = SingleHeader(level, stored)
         /\ Count(level) > 1 => \E b \in Nat : HeaderTo(level, stored, Header(level, stored), b, Count(level) - 1)
<1> DEFINE K == Count(level)
           H == Header(level, stored)
           E == Endpoints(level, stored)
<1>1. K \in Nat \ {0} /\ m_partitions = K /\ m_universe = stored[Len(level.from)]
  BY KnownFacts, Cut DEF m_partitions, m_universe, m_size, Count
<1>2. K = 1 => H = SingleHeader(level, stored)
  <2> SUFFICES ASSUME K = 1 PROVE single_header = SingleHeader(level, stored)
    BY DEF Header
  <2>1. base(0) = stored[1] /\ m_size = Len(level.from)
    BY DEF base, m_size
  <2>2. Last(cur_partition(0)) = stored[Len(level.from)] - stored[1]
    <3>1. 0 \in 0 .. K - 1 /\ 0 + 1 = 1 /\ cur_partition(0) = List(level, stored, 0)
      BY <1>1 DEF cur_partition, List, EndOf, End, m_size, base, Base
    <3>2. Last(List(level, stored, 0)) = Bound(level, stored, 0 + 1) - Bound(level, stored, 0)
      BY <3>1, ListKnown
    <3>3. Bound(level, stored, 1) = stored[Len(level.from)] /\ Bound(level, stored, 0) = stored[1]
      BY BoundsKnown
    <3> QED
      BY <3>1, <3>2, <3>3
  <2>3. stored[1] \in Nat /\ stored[Len(level.from)] \in Nat
    <3>1. Len(level.from) \in Nat \ {0} /\ \A i \in 1 .. Len(level.from) : stored[i] \in Nat
      BY KnownFacts
    <3> QED
      BY <3>1
  <2>4. stored[1] + (stored[Len(level.from)] - stored[1]) + 1 # stored[Len(level.from)]
    BY <2>3
  <2> QED
    BY <1>1, <2>1, <2>2, <2>4 DEF single_header, SingleHeader, BoundWidth
<1>3. K > 1 => H = ManyHeader(level, stored)
  <2> SUFFICES ASSUME K > 1 PROVE header(E) = ManyHeader(level, stored)
    BY <1>1 DEF Header
  <2>1. ceil_log2(E[m_partitions] + 1) = PlaceWidth(level, stored)
    BY <1>1 DEF Endpoints, PlaceWidth
  <2>2. m_partitions = Count(level)
    BY <1>1
  <2> HIDE DEF E
  <2>3. header(E) = (CHOOSE f : f = [p \in 0 .. m_partitions - 1 |->
                        HeaderTurn(E, ceil_log2(E[m_partitions] + 1), f, p)])[m_partitions - 1]
    BY DEF header, HeaderTurn
  <2> QED
    BY <2>1, <2>2, <2>3 DEF ManyHeader, E
<1>4. K > 1 => \E b \in Nat : HeaderTo(level, stored, H, b, K - 1)
  <2> SUFFICES ASSUME K > 1 PROVE \E b \in Nat : HeaderTo(level, stored, H, b, K - 1)
    OBVIOUS
  <2>1. H = ManyHeader(level, stored)
    BY <1>3
  <2> HIDE DEF H
  <2> QED
    BY <2>1, HeaderWritten
<1>5. K = 1 => Packed(H)
  <2> SUFFICES ASSUME K = 1 PROVE Packed(SingleHeader(level, stored))
    BY <1>2
  <2> QED
    BY SingleHeaderWritten
<1> QED
  BY <1>1, <1>2, <1>4, <1>5 DEF HeaderTo

(* What write() makes is read back.                                        *)
LEMMA DataKnown ==
  ASSUME Known(level, stored), sequence = write
  PROVE  LET h == Header(level, stored)
         IN  /\ BitVec(sequence.data) /\ Continues(sequence.data, h) /\ h.size \in Nat
             /\ \A p \in 0 .. Count(level) - 1 :
                  list_at(h.size + Where(level, stored, p), End(level, p) - p * partition_size)
                    = List(level, stored, p)
<1> DEFINE h == Header(level, stored)
           all == Where(level, stored, Count(level))
<1>1. Packed(h)
  BY HeaderKnown
<1>2. h.size \in Nat
  BY <1>1 DEF Packed, BitVec
<1>3. all \in Nat
  <2>1. Count(level) \in 0 .. Count(level)
    BY KnownFacts, Cut
  <2> QED
    BY <2>1, WhereKnown
<1>4. sequence.data = append(h, AllBits(all))
  BY WriteKnown
<1>5. AllBits(all).size \in Nat /\ AllBits(all).words \in Seq(Word)
  BY <1>3, AllBitsKnown
<1> HIDE DEF h, all
<1>6. BitVec(sequence.data) /\ Continues(sequence.data, h)
  BY <1>1, <1>4, <1>5, VectorAppended
<1>7. ASSUME NEW p \in 0 .. Count(level) - 1
      PROVE  list_at(h.size + Where(level, stored, p), End(level, p) - p * partition_size)
               = List(level, stored, p)
  <2>1. sequence.partitions = Lists(level, stored, h, Endpoints(level, stored))
    BY WriteKnown DEF h
  <2>2. /\ h.size + Where(level, stored, p) \in DOMAIN sequence.partitions
        /\ sequence.partitions[h.size + Where(level, stored, p)] = List(level, stored, p)
    <3> DEFINE e == Endpoints(level, stored)
    <3>1. e = [k \in 0 .. Count(level) |-> Where(level, stored, k)]
      BY DEF Endpoints
    <3> HIDE DEF e
    <3>2. /\ h.size + Where(level, stored, p) \in DOMAIN Lists(level, stored, h, e)
          /\ Lists(level, stored, h, e)[h.size + Where(level, stored, p)] = List(level, stored, p)
      BY <1>2, <3>1, ListFound
    <3> QED
      BY <2>1, <3>2 DEF e
  <2>3. Len(List(level, stored, p)) = End(level, p) - p * partition_size
    BY ListKnown
  <2> QED
    BY <2>2, <2>3 DEF list_at
<1> QED
  BY <1>2, <1>6, <1>7 DEF h

(* A single partition.                                                     *)
LEMMA SingleRead ==
  ASSUME Known(level, stored), sequence = write, Count(level) = 1
  PROVE  read_single = Part(level, stored, 0)
<1> DEFINE N == Len(level.from)
           h == SingleHeader(level, stored)
           bv == sequence.data
           w == BoundWidth(level, stored)
           first == iterator_get_bits(bv, bits_iterator(0), w)
           delta == IF N > 1 THEN read_delta(bv, first.it) ELSE first
           s1 == stored[1]
           sN == stored[N]
<1>1. /\ BitVec(bv) /\ Continues(bv, h) /\ h.size \in Nat
      /\ list_at(h.size + Where(level, stored, 0), End(level, 0) - 0 * partition_size)
           = List(level, stored, 0)
  <2>1. Header(level, stored) = h
    BY HeaderKnown
  <2>2. 0 \in 0 .. Count(level) - 1
    OBVIOUS
  <2> HIDE DEF h
  <2> QED
    BY <2>1, <2>2, DataKnown
<1>2. /\ N \in Nat \ {0} /\ sN \in Nat /\ s1 \in Nat
  <2>1. N \in Nat \ {0} /\ \A i \in 1 .. N : stored[i] \in Nat
    BY KnownFacts
  <2> QED
    BY <2>1
<1>3. /\ first.val = s1 /\ delta.it.pos = h.size /\ (N > 1 => delta.val = sN - s1)
  <2> HIDE DEF h, bv
  <2>1. h = SingleHeader(level, stored)
    BY DEF h
  <2> QED
    BY <1>1, <2>1, SingleHeaderRead
<1>4. /\ Bound(level, stored, 0) = s1 /\ Bound(level, stored, 0 + 1) = sN
  BY BoundsKnown
<1>5. list_at(delta.it.pos, N) = List(level, stored, 0)
  <2>1. Where(level, stored, 0) = 0 /\ h.size + 0 = h.size
    BY <1>1 DEF Where
  <2>2. End(level, 0) = N /\ 0 * partition_size = 0 /\ N - 0 = N
    <3>1. 0 \in 0 .. Count(level) - 1 /\ 0 + 1 = Count(level)
      OBVIOUS
    <3>2. End(level, 0) = N
      BY <1>2, <3>1, Cut
    <3> QED
      BY <1>2, <3>2, PartitionSize
  <2> HIDE DEF delta, h, N
  <2> QED
    BY <1>1, <1>3, <2>1, <2>2
<1> DEFINE ub == IF N = 1 THEN 0 ELSE IF delta.val # 0 THEN delta.val ELSE sN - first.val - 1
<1>6. read_single = [base |-> first.val, upper_bound |-> first.val + ub,
                     values |-> list_at(delta.it.pos, N)]
  BY DEF read_single, BoundWidth, m_universe, m_size
<1>7. first.val + ub = IF N > 1 /\ sN = s1 THEN s1 - 1 ELSE sN
  <2>1. CASE N = 1
    <3>1. sN = s1
      BY <2>1
    <3> QED
      BY <1>2, <1>3, <2>1, <3>1
  <2>2. CASE N > 1
    <3>1. first.val = s1 /\ delta.val = sN - s1 /\ N # 1
      <4>1. N # 1
        <5>1. N \in Nat
          BY <1>2
        <5> HIDE DEF N
        <5> QED
          BY <2>2, <5>1
      <4> HIDE DEF N, first, delta, s1, sN
      <4> QED
        BY <1>3, <2>2, <4>1
    <3> HIDE DEF first, delta, s1, sN
    <3> QED
      BY <1>2, <2>2, <3>1
  <2>3. N = 1 \/ N > 1
    <3>1. N \in Nat \ {0}
      BY <1>2
    <3> HIDE DEF N
    <3> QED
      BY <3>1
  <2> QED
    BY <2>1, <2>2, <2>3
<1>8. Tight(level, stored) <=> N > 1 /\ sN = s1
  BY DEF Tight
<1> HIDE DEF first, delta, ub, N, s1, sN
<1>9. Part(level, stored, 0) = [base |-> s1, upper_bound |-> IF Tight(level, stored) THEN s1 - 1 ELSE sN,
                                values |-> List(level, stored, 0)]
  BY <1>4 DEF Part, s1
<1> QED
  BY <1>3, <1>5, <1>6, <1>7, <1>8, <1>9

(* One of several.                                                         *)
LEMMA PartitionRead ==
  ASSUME Known(level, stored), sequence = write, Count(level) > 1, NEW p \in 0 .. Count(level) - 1,
         \A k \in 0 .. Count(level) : access_bits(sequence.upper_bounds, k) = Bound(level, stored, k)
  PROVE  read_partition(p) = Part(level, stored, p)
<1> DEFINE K == Count(level)
           h == Header(level, stored)
           bv == sequence.data
           w == PlaceWidth(level, stored)
           code == read_gamma(bv, bits_iterator(0))
           place == IF p = 0 THEN 0 ELSE number(get_bits(bv, code.it.pos + (p - 1) * code.val, code.val))
<1>1. K \in Nat /\ p \in Nat /\ m_partitions = K
  BY KnownFacts, Cut DEF m_partitions, m_size, Count
<1>2. /\ BitVec(bv) /\ Continues(bv, h) /\ h.size \in Nat
      /\ list_at(h.size + Where(level, stored, p), End(level, p) - p * partition_size)
           = List(level, stored, p)
  BY DataKnown
<1>3. PICK b \in Nat : HeaderTo(level, stored, h, b, K - 1)
  BY HeaderKnown
<1>4. /\ code.val = w /\ code.it.pos = b /\ h.size = b + w * (K - 1)
      /\ \A k \in 1 .. K - 1 : number(get_bits(bv, b + (k - 1) * w, w)) = Where(level, stored, k)
  <2> HIDE DEF h, bv
  <2> QED
    BY <1>2, <1>3, HeaderRead
<1>5. place = Where(level, stored, p)
  <2>1. CASE p = 0
    BY <2>1 DEF Where
  <2>2. CASE p # 0
    <3>1. p \in 1 .. K - 1
      BY <1>1, <2>2
    <3> HIDE DEF code, w
    <3> QED
      BY <1>4, <2>2, <3>1
  <2> QED
    BY <2>1, <2>2
<1>6. read_partition(p) =
        [base |-> UpperBound(p), upper_bound |-> UpperBound(p + 1),
         values |-> list_at((code.it.pos + code.val * (m_partitions - 1)) + place,
                            EndOf(p) - p * partition_size)]
  BY DEF read_partition
<1>7. UpperBound(p) = Bound(level, stored, p) /\ UpperBound(p + 1) = Bound(level, stored, p + 1)
  <2>1. p \in 0 .. K /\ p + 1 \in 0 .. K
    BY <1>1
  <2> QED
    BY <2>1 DEF UpperBound
<1>8. EndOf(p) = End(level, p)
  BY DEF EndOf, End, m_size
<1>9. ~ Tight(level, stored)
  BY <1>1 DEF Tight
<1> HIDE DEF code, place, h, w
<1>10. (code.it.pos + code.val * (m_partitions - 1)) + place = h.size + Where(level, stored, p)
  BY <1>1, <1>4, <1>5
<1> QED
  BY <1>2, <1>6, <1>7, <1>8, <1>9, <1>10 DEF Part

(* And so it is at the beginning.                                          *)
LEMMA InitReadable == Init => Readable(level, stored, sequence, parts)
<1> SUFFICES ASSUME Init PROVE Readable(level, stored, sequence, parts)
  OBVIOUS
<1>1. Known(level, stored) /\ sequence = write
  BY DEF Init, Known
<1>2. parts = [p \in 0 .. m_partitions - 1 |->
               IF m_partitions = 1 THEN read_single ELSE read_partition(p)]
  BY DEF Init
<1>3. Count(level) \in Nat \ {0} /\ m_partitions = Count(level)
  BY <1>1, KnownFacts, Cut DEF m_partitions, m_size, Count
<1>4. Count(level) > 1 => \A k \in 0 .. Count(level) :
          access_bits(sequence.upper_bounds, k) = Bound(level, stored, k)
  <2> SUFFICES ASSUME Count(level) > 1
               PROVE  \A k \in 0 .. Count(level) : access_bits(sequence.upper_bounds, k) = Bound(level, stored, k)
    OBVIOUS
  <2>1. sequence.upper_bounds = fill(resized(Count(level) + 1, BoundWidth(level, stored)),
                                     BoundsOf(level, stored))
    BY <1>1, WriteKnown
  <2> QED
    BY <1>1, <2>1, BoundsRead
<1>5. ASSUME NEW p \in 0 .. Count(level) - 1
      PROVE  (IF m_partitions = 1 THEN read_single ELSE read_partition(p)) = Part(level, stored, p)
  <2>1. CASE Count(level) = 1
    <3>1. p = 0 /\ read_single = Part(level, stored, 0)
      BY <1>1, <2>1, SingleRead
    <3> QED
      BY <1>3, <2>1, <3>1
  <2>2. CASE Count(level) # 1
    <3>1. Count(level) > 1
      BY <1>3, <2>2
    <3>2. read_partition(p) = Part(level, stored, p)
      BY <1>1, <1>4, <3>1, PartitionRead
    <3> QED
      BY <1>3, <2>2, <3>2
  <2> QED
    BY <2>1, <2>2
<1> QED
  BY <1>1, <1>2, <1>3, <1>4, <1>5 DEF Readable

-----------------------------------------------------------------------------
(* An iterator of given parts, and updates of some of them.                *)
Parts(position, q, begin, end, b, top, prev, last, enum) ==
  [position |-> position, partition |-> q, begin |-> begin, end |-> end, base |-> b,
   upper_bound |-> top, prev_range_upper_bound |-> prev, last |-> last, enum |-> enum]

Placed(x, q, begin, end, top, b) ==
  [x EXCEPT !.partition = q, !.begin = begin, !.end = end, !.upper_bound = top, !.base = b]

(* switch_partition sets five of the parts.                                *)
LEMMA PartsUpdated ==
  ASSUME NEW position, NEW q, NEW f, NEW t, NEW o, NEW u, NEW prev, NEW last, NEW enum
  PROVE  \A q2, f2, t2, u2, o2 :
           Placed(Parts(position, q, f, t, o, u, prev, last, enum), q2, f2, t2, u2, o2)
             = Parts(position, q2, f2, t2, o2, u2, prev, last, enum)
<1> DEFINE U1(x, v) == [x EXCEPT !.partition = v]
           U2(x, v) == [x EXCEPT !.begin = v]
           U3(x, v) == [x EXCEPT !.end = v]
           U4(x, v) == [x EXCEPT !.upper_bound = v]
           U5(x, v) == [x EXCEPT !.base = v]
           Sets(p1, q1, f1, t1, o1, u1, e1) ==
             \A v :
               /\ U1(Parts(p1, q1, f1, t1, o1, u1, prev, last, e1), v) = Parts(p1, v, f1, t1, o1, u1, prev, last, e1)
               /\ U2(Parts(p1, q1, f1, t1, o1, u1, prev, last, e1), v) = Parts(p1, q1, v, t1, o1, u1, prev, last, e1)
               /\ U3(Parts(p1, q1, f1, t1, o1, u1, prev, last, e1), v) = Parts(p1, q1, f1, v, o1, u1, prev, last, e1)
               /\ U4(Parts(p1, q1, f1, t1, o1, u1, prev, last, e1), v) = Parts(p1, q1, f1, t1, o1, v, prev, last, e1)
               /\ U5(Parts(p1, q1, f1, t1, o1, u1, prev, last, e1), v) = Parts(p1, q1, f1, t1, v, u1, prev, last, e1)
<1>1. \A p1, q1, f1, t1, o1, u1, e1 : Sets(p1, q1, f1, t1, o1, u1, e1)
  BY DEF Parts
<1>2. \A x, q2, f2, t2, u2, o2 : Placed(x, q2, f2, t2, u2, o2) = U5(U4(U3(U2(U1(x, q2), f2), t2), u2), o2)
  BY DEF Placed
<1> HIDE DEF U1, U2, U3, U4, U5
<1> QED
  BY <1>1, <1>2

(* An iterator on partition q, of given other parts.                       *)
Top(l, s, q) == IF Tight(l, s) THEN s[1] - 1 ELSE Bound(l, s, q + 1)
Above(l, s, q) == Top(l, s, q) - Bound(l, s, q) + 1

IteratorOn(l, s, q, position, enum, prev, last) ==
  Parts(position, q, q * partition_size, End(l, q), Bound(l, s, q), Top(l, s, q), prev, last, enum)

(* Its enumerator at a place of the list, or at none.                      *)
EnumAt(l, s, q, k) == Elements!moved(List(l, s, q), Above(l, s, q), k)
EnumNowhere(l, s, q) == Elements!unpositioned(List(l, s, q), Above(l, s, q))

(* The list at hand.                                                       *)
LEMMA ListAtHand ==
  ASSUME Readable(level, stored, sequence, parts), NEW q \in 0 .. Count(level) - 1,
         NEW position, NEW enum, NEW prev, NEW last,
         NEW x, x = IteratorOn(level, stored, q, position, enum, prev, last)
  PROVE  Values(x) = List(level, stored, q) /\ Universe(x) = Above(level, stored, q)
<1>1. parts[q] = Part(level, stored, q)
  BY DEF Readable
<1>2. parts[q].values = List(level, stored, q)
  BY <1>1 DEF Part
<1> QED
  BY <1>2 DEF Values, Universe, Above, IteratorOn, Parts

(* What the changes of an iterator lead to.                                *)
LEMMA EnumReplaced ==
  ASSUME NEW l, NEW s, NEW q, NEW position, NEW enum, NEW prev, NEW last, NEW new
  PROVE  [IteratorOn(l, s, q, position, enum, prev, last) EXCEPT !.enum = new]
           = IteratorOn(l, s, q, position, new, prev, last)
  BY DEF IteratorOn, Parts

LEMMA PositionReplaced ==
  ASSUME NEW l, NEW s, NEW q, NEW position, NEW enum, NEW prev, NEW last, NEW new
  PROVE  [IteratorOn(l, s, q, position, enum, prev, last) EXCEPT !.position = new]
           = IteratorOn(l, s, q, new, enum, prev, last)
  BY DEF IteratorOn, Parts

LEMMA IteratorRead ==
  ASSUME NEW l, NEW s, NEW q, NEW position, NEW enum, NEW prev, NEW last
  PROVE  /\ iterator_read(IteratorOn(l, s, q, position, enum, prev, last))
              = IteratorOn(l, s, q, position, enum, prev, Bound(l, s, q) + enum.value)
         /\ iterator_switch_range(IteratorOn(l, s, q, position, enum, prev, last))
              = IteratorOn(l, s, q, position, enum, last, last)
  BY DEF IteratorOn, Parts, iterator_read, iterator_switch_range

(* enum_move changes the place in the list, switch_partition the partition.*)
LEMMA EnumMoved ==
  ASSUME Readable(level, stored, sequence, parts), NEW q \in 0 .. Count(level) - 1,
         NEW position, NEW enum, NEW prev, NEW last, NEW k
  PROVE  enum_move(IteratorOn(level, stored, q, position, enum, prev, last), k)
           = IteratorOn(level, stored, q, position, EnumAt(level, stored, q, k), prev, last)
<1> DEFINE x == IteratorOn(level, stored, q, position, enum, prev, last)
<1>1. Values(x) = List(level, stored, q) /\ Universe(x) = Above(level, stored, q)
  BY ListAtHand
<1> HIDE DEF x
<1>2. enum_move(x, k) = [x EXCEPT !.enum = EnumAt(level, stored, q, k)]
  BY <1>1 DEF enum_move, EnumAt
<1> QED
  BY <1>2, EnumReplaced DEF x

LEMMA AnySwitched ==
  ASSUME Readable(level, stored, sequence, parts), NEW p \in 0 .. Count(level) - 1,
         NEW q, NEW position, NEW enum, NEW prev, NEW last, NEW begin, NEW end, NEW b, NEW top
  PROVE  switch_partition(Parts(position, q, begin, end, b, top, prev, last, enum), p)
           = IteratorOn(level, stored, p, position, EnumNowhere(level, stored, p), prev, last)
<1> DEFINE x == Parts(position, q, begin, end, b, top, prev, last, enum)
           z == IteratorOn(level, stored, p, position, enum, prev, last)
           y == [x EXCEPT
                   !.partition = p,
                   !.begin = p * partition_size,
                   !.end = EndOf(p),
                   !.upper_bound = parts[p].upper_bound,
                   !.base = parts[p].base]
<1>1. switch_partition(x, p) = [y EXCEPT !.enum = Elements!unpositioned(Values(y), Universe(y))]
  BY DEF switch_partition
<1>2. parts[p] = Part(level, stored, p)
  BY DEF Readable
<1>3. EndOf(p) = End(level, p) /\ parts[p].upper_bound = Top(level, stored, p)
      /\ parts[p].base = Bound(level, stored, p)
  BY <1>2 DEF EndOf, End, m_size, Part, Top
<1>4. y = z
  <2>1. y = Placed(x, p, p * partition_size, End(level, p), Top(level, stored, p), Bound(level, stored, p))
    BY <1>3 DEF Placed
  <2> QED
    BY <2>1, PartsUpdated DEF IteratorOn
<1>5. Values(z) = List(level, stored, p) /\ Universe(z) = Above(level, stored, p)
  BY ListAtHand
<1> HIDE DEF x, y, z
<1>6. switch_partition(x, p) = [z EXCEPT !.enum = EnumNowhere(level, stored, p)]
  BY <1>1, <1>4, <1>5 DEF EnumNowhere
<1> QED
  BY <1>6, EnumReplaced DEF x, z

LEMMA PartitionSwitched ==
  ASSUME Readable(level, stored, sequence, parts), NEW p \in 0 .. Count(level) - 1,
         NEW q \in 0 .. Count(level) - 1, NEW position, NEW enum, NEW prev, NEW last
  PROVE  switch_partition(IteratorOn(level, stored, q, position, enum, prev, last), p)
           = IteratorOn(level, stored, p, position, EnumNowhere(level, stored, p), prev, last)
  BY AnySwitched DEF IteratorOn

-----------------------------------------------------------------------------
(* An iterator that is somewhere, and one that has been moved to a         *)
(* position.                                                               *)
Settled(l, s, x) ==
  /\ x.partition \in 0 .. Count(l) - 1 /\ x.position \in 0 .. Len(l.from)
  /\ x.enum.position \in 0 .. partition_size /\ x.enum.value \in Int
  /\ x = IteratorOn(l, s, x.partition, x.position, x.enum, x.prev_range_upper_bound, x.last)

MovedTo(l, s, x, pos) ==
  /\ x.partition \in 0 .. Count(l) - 1 /\ x.partition * partition_size <= pos
  /\ pos < End(l, x.partition) \/ (pos = Len(l.from) /\ x.partition = Count(l) - 1)
  /\ x = IteratorOn(l, s, x.partition, pos,
                    EnumAt(l, s, x.partition, pos - x.partition * partition_size),
                    x.prev_range_upper_bound, x.last)

(* The value a range's nodes are raised by.                                *)
Raise(s, r) == IF r.begin = 0 THEN 0 ELSE s[r.begin]

RangesOf(l) == {RangeAt(l.pointers, p) : p \in 0 .. Len(l.pointers) - 2}

(* A search: what it looks for, and where the shared iterator is: at the   *)
(* range's beginning, or in no place of the partition of the bound, or of  *)
(* the one after the range's last.                                         *)
Search(r, id, lower_bound, partition_end, lo, hi) ==
  [op |-> "find", range |-> r, id |-> id, lower_bound |-> lower_bound,
   partition_end |-> partition_end, lo |-> lo, hi |-> hi]

LooksFor(l, s, c) ==
  /\ c = Search(c.range, c.id, c.lower_bound, c.partition_end, c.lo, c.hi)
  /\ c.op = "find" /\ c.range \in RangesOf(l) /\ c.id \in Nat
  /\ Length(c.range) > linear_scan_threshold
  /\ c.lower_bound = c.id + Raise(s, c.range)
  /\ c.partition_end = c.range.end \div partition_size

Narrowed(l, s, c, x) ==
  LET q == x.partition
  IN  /\ Count(l) > 1
      /\ x.enum = EnumNowhere(l, s, q)
      /\ Bound(l, s, q) < c.lower_bound /\ s[c.range.begin + 1] < c.lower_bound
      /\ c.lower_bound <= Bound(l, s, q + 1) \/ q = c.partition_end + 1

Searches(l, s, c, x) == MovedTo(l, s, x, c.range.begin) \/ Narrowed(l, s, c, x)

Bisects(l, s, c) ==
  /\ Count(l) > 1 /\ c.lo \in Nat \ {0} /\ c.hi \in Nat
  /\ c.lo <= c.hi /\ c.hi <= c.partition_end + 1
  /\ Bound(l, s, c.lo - 1) < c.lower_bound /\ s[c.range.begin + 1] < c.lower_bound
  /\ c.hi = c.partition_end + 1 \/ Bound(l, s, c.hi) >= c.lower_bound

(* A client's iterator.                                                    *)
Walks(l, s, w) ==
  LET x == w.iterator
      r == RangeAt(l.pointers, w.range)
  IN  /\ w.range \in 0 .. Len(l.pointers) - 2 /\ x.position \in Positions(r)
      /\ MovedTo(l, s, x, x.position)
      /\ x.prev_range_upper_bound = Raise(s, r)
      /\ x.last = s[x.position + 1]
      /\ w.node = l.from[x.position + 1]

SearchInv ==
  /\ Readable(level, stored, sequence, parts)
  /\ pc \in {"idle", "searching", "bisecting", "answered", "walking", "undefined"}
  /\ Settled(level, stored, m_it) /\ result \in Int
  /\ pc = "searching" => LooksFor(level, stored, call) /\ Searches(level, stored, call, m_it)
  /\ pc = "bisecting" => LooksFor(level, stored, call) /\ Bisects(level, stored, call)
  /\ pc = "walking" /\ Count(level) > 1 => Walks(level, stored, walker)
  /\ AccessGivesNode /\ FindsExactly

-----------------------------------------------------------------------------
(* The parts of an iterator.                                               *)
LEMMA IteratorParts ==
  ASSUME NEW l, NEW s, NEW q, NEW position, NEW enum, NEW prev, NEW last
  PROVE  LET x == IteratorOn(l, s, q, position, enum, prev, last)
         IN  /\ x.partition = q /\ x.position = position /\ x.enum = enum
             /\ x.prev_range_upper_bound = prev /\ x.last = last
             /\ x.begin = q * partition_size /\ x.end = End(l, q)
             /\ x.base = Bound(l, s, q) /\ x.upper_bound = Top(l, s, q)
  BY DEF IteratorOn, Parts

(* The values of an enumerator.                                            *)
LEMMA EnumKnown ==
  ASSUME NEW l, NEW s, Known(l, s), NEW q \in 0 .. Count(l) - 1,
         NEW pos \in 0 .. Len(l.from), q * partition_size <= pos, pos <= End(l, q)
  PROVE  LET e == EnumAt(l, s, q, pos - q * partition_size)
         IN  /\ e.position = pos - q * partition_size /\ e.position \in 0 .. partition_size
             /\ e.value \in Int
             /\ pos < End(l, q) => Bound(l, s, q) + e.value = s[pos + 1]
<1>0. /\ Len(l.from) \in Nat \ {0} /\ s \in [1 .. Len(l.from) -> Nat]
      /\ Count(l) \in Nat \ {0} /\ partition_size \in Nat \ {0}
      /\ q \in Nat /\ q * partition_size \in Nat /\ End(l, q) \in Nat
      /\ End(l, q) <= q * partition_size + partition_size /\ End(l, q) <= Len(l.from)
  BY KnownFacts, Cut, PartitionSize
<1>1. PICK b \in Nat : b = q * partition_size
  BY <1>0
<1>2. PICK k \in Nat : k = pos - b
  BY <1>0, <1>1
<1>3. /\ List(l, s, q) \in Seq(Nat) /\ Len(List(l, s, q)) = End(l, q) - b
      /\ \A j \in 1 .. Len(List(l, s, q)) : List(l, s, q)[j] = s[b + j] - Bound(l, s, q)
  BY <1>1, ListKnown
<1>4. Bound(l, s, q) \in Nat /\ Bound(l, s, q + 1) \in Nat
  BY <1>0, BoundsKnown
<1>5. Top(l, s, q) \in Int /\ Above(l, s, q) \in Int
  <2>1. s[1] \in Nat
    BY <1>0
  <2> QED
    BY <1>4, <2>1 DEF Top, Above
<1>6. EnumAt(l, s, q, k) = [position |-> k,
                            value |-> IF k < Len(List(l, s, q)) THEN List(l, s, q)[k + 1]
                                      ELSE Above(l, s, q)]
  BY DEF EnumAt, Elements!moved, Elements!enumerator
<1>7. k < Len(List(l, s, q)) <=> pos < End(l, q)
  BY <1>0, <1>1, <1>2, <1>3
<1>8. pos < End(l, q) => List(l, s, q)[k + 1] = s[pos + 1] - Bound(l, s, q)
  BY <1>0, <1>1, <1>2, <1>3, <1>7
<1>9. pos < End(l, q) => s[pos + 1] \in Nat
  BY <1>0
<1>10. k \in 0 .. partition_size
  BY <1>0, <1>1, <1>2
<1> DEFINE e == EnumAt(l, s, q, k)
<1>11. e.position = k /\ e.value = IF pos < End(l, q) THEN s[pos + 1] - Bound(l, s, q) ELSE Above(l, s, q)
  BY <1>6, <1>7, <1>8
<1> HIDE DEF e
<1>12. e.value \in Int /\ (pos < End(l, q) => Bound(l, s, q) + e.value = s[pos + 1])
  BY <1>4, <1>5, <1>9, <1>11
<1> QED
  BY <1>1, <1>2, <1>10, <1>11, <1>12 DEF e

(* An iterator that has been moved gives the value of its position.        *)
LEMMA MovedKnown ==
  ASSUME NEW l, NEW s, Known(l, s), NEW pos \in 0 .. Len(l.from), NEW x, MovedTo(l, s, x, pos)
  PROVE  /\ Settled(l, s, x) /\ x.position = pos
         /\ x.enum.position = pos - x.partition * partition_size
         /\ pos < Len(l.from) => x.base + x.enum.value = s[pos + 1]
<1>1. PICK q \in 0 .. Count(l) - 1 : q = x.partition
  BY DEF MovedTo
<1>2. /\ Len(l.from) \in Nat \ {0} /\ Count(l) \in Nat \ {0}
      /\ q * partition_size \in Nat /\ End(l, q) \in Nat
      /\ q + 1 = Count(l) => End(l, q) = Len(l.from)
  BY KnownFacts, Cut
<1>3. /\ q * partition_size <= pos /\ pos <= End(l, q)
      /\ pos < Len(l.from) => pos < End(l, q)
  BY <1>1, <1>2 DEF MovedTo
<1>4. x = IteratorOn(l, s, q, pos, EnumAt(l, s, q, pos - q * partition_size),
                     x.prev_range_upper_bound, x.last)
  BY <1>1 DEF MovedTo
<1>5. /\ x.position = pos /\ x.enum = EnumAt(l, s, q, pos - q * partition_size)
      /\ x.base = Bound(l, s, q)
  BY <1>4, IteratorParts
<1>6. /\ x.enum.position = pos - q * partition_size /\ x.enum.position \in 0 .. partition_size
      /\ x.enum.value \in Int
      /\ pos < Len(l.from) => Bound(l, s, q) + x.enum.value = s[pos + 1]
  BY <1>3, <1>5, EnumKnown
<1>7. Settled(l, s, x)
  BY <1>1, <1>4, <1>5, <1>6 DEF Settled
<1> QED
  BY <1>1, <1>5, <1>6, <1>7

(* Where slow_move takes a position.                                       *)
Target(l, pos) == IF pos = Len(l.from) THEN Count(l) - 1 ELSE pos \div partition_size

(* It is the partition of the position, or the last one at the end.        *)
LEMMA TargetKnown ==
  ASSUME NEW l, Len(l.from) \in Nat \ {0}, NEW pos \in 0 .. Len(l.from)
  PROVE  /\ Target(l, pos) \in 0 .. Count(l) - 1
         /\ Target(l, pos) * partition_size <= pos
         /\ pos < End(l, Target(l, pos)) \/ (pos = Len(l.from) /\ Target(l, pos) = Count(l) - 1)
<1>0. /\ Count(l) \in Nat \ {0}
      /\ \A p \in 0 .. Count(l) - 1 :
           p * partition_size \in Nat /\ End(l, p) \in Nat
           /\ p * partition_size < End(l, p) /\ End(l, p) <= Len(l.from)
  BY Cut
<1>1. CASE pos = Len(l.from)
  <2>1. Target(l, pos) = Count(l) - 1
    BY <1>1 DEF Target
  <2>2. Count(l) - 1 \in 0 .. Count(l) - 1
    BY <1>0
  <2>3. PICK b \in Nat : b = (Count(l) - 1) * partition_size /\ b < End(l, Count(l) - 1)
    BY <1>0, <2>2
  <2>4. End(l, Count(l) - 1) \in Nat /\ End(l, Count(l) - 1) <= Len(l.from)
    BY <1>0, <2>2
  <2> QED
    BY <1>1, <2>1, <2>2, <2>3, <2>4
<1>2. CASE pos # Len(l.from)
  <2>1. pos \in 0 .. Len(l.from) - 1 /\ Target(l, pos) = pos \div partition_size
    BY <1>2 DEF Target
  <2> QED
    BY <2>1, Cut
<1> QED
  BY <1>1, <1>2

(* slow_move.                                                              *)
LEMMA SlowMoved ==
  ASSUME Readable(level, stored, sequence, parts),
         NEW q \in 0 .. Count(level) - 1, NEW pos \in 0 .. Len(level.from), NEW enum, NEW prev, NEW last,
         NEW x, x = IteratorOn(level, stored, q, pos, enum, prev, last)
  PROVE  LET t == Target(level, pos)
         IN  slow_move(x) = IteratorOn(level, stored, t, pos,
                                       EnumAt(level, stored, t, pos - t * partition_size), prev, last)
<1> DEFINE t == Target(level, pos)
           On(p, e) == IteratorOn(level, stored, p, pos, e, prev, last)
           y == IF m_partitions > 1 THEN switch_partition(x, t) ELSE x
<1>0. Len(level.from) \in Nat \ {0} /\ Count(level) \in Nat \ {0}
  BY KnownFacts, Cut DEF Readable
<1>1. /\ m_size = Len(level.from) /\ m_partitions = Count(level)
      /\ x.position = pos
  BY IteratorParts DEF m_size, m_partitions, Count
<1>2. t \in 0 .. Count(level) - 1
  BY <1>0, TargetKnown
<1>3. slow_move(x) = enum_move(y, pos - y.begin)
  BY <1>1 DEF slow_move, Target
<1>4. \E e : y = On(t, e)
  <2>1. CASE Count(level) > 1
    <3>1. y = switch_partition(x, t)
      BY <1>1, <2>1
    <3>2. switch_partition(x, t) = On(t, EnumNowhere(level, stored, t))
      BY <1>2, PartitionSwitched
    <3> QED
      BY <3>1, <3>2
  <2>2. CASE Count(level) = 1
    <3>1. y = x /\ t = 0 /\ q = 0
      BY <1>0, <1>1, <1>2, <2>2
    <3> QED
      BY <3>1
  <2> QED
    BY <1>0, <2>1, <2>2
<1> HIDE DEF y, t
<1>5. PICK e : y = On(t, e)
  BY <1>4
<1>6. y.begin = t * partition_size
  BY <1>5, IteratorParts
<1>7. \A k : enum_move(y, k) = On(t, EnumAt(level, stored, t, k))
  BY <1>2, <1>5, EnumMoved
<1>8. slow_move(x) = On(t, EnumAt(level, stored, t, pos - t * partition_size))
  BY <1>3, <1>6, <1>7
<1> QED
  BY <1>8 DEF t

(* Such an iterator has been moved.                                        *)
LEMMA TargetMoved ==
  ASSUME NEW l, NEW s, NEW q \in 0 .. Count(l) - 1, NEW pos, q * partition_size <= pos,
         pos < End(l, q) \/ (pos = Len(l.from) /\ q = Count(l) - 1), NEW prev, NEW last,
         NEW x, x = IteratorOn(l, s, q, pos, EnumAt(l, s, q, pos - q * partition_size), prev, last)
  PROVE  MovedTo(l, s, x, pos) /\ x.prev_range_upper_bound = prev /\ x.last = last
  BY IteratorParts DEF MovedTo

(* move, from anywhere to any position.                                    *)
LEMMA Moves ==
  ASSUME Readable(level, stored, sequence, parts), NEW x, Settled(level, stored, x),
         NEW pos \in 0 .. Len(level.from)
  PROVE  /\ MovedTo(level, stored, move(x, pos), pos)
         /\ move(x, pos).prev_range_upper_bound = x.prev_range_upper_bound
         /\ move(x, pos).last = x.last
<1> DEFINE prev == x.prev_range_upper_bound
           last == x.last
           On(p, k, e) == IteratorOn(level, stored, p, k, e, prev, last)
           y == [x EXCEPT !.position = pos]
<1>0. Len(level.from) \in Nat \ {0} /\ Known(level, stored)
  BY KnownFacts DEF Readable
<1>1. PICK q \in 0 .. Count(level) - 1 : x = On(q, x.position, x.enum)
  BY DEF Settled
<1>2. y = On(q, pos, x.enum)
  BY <1>1, PositionReplaced
<1>3. x.begin = q * partition_size /\ x.end = End(level, q)
  BY <1>1, IteratorParts
<1>4. CASE pos >= x.begin /\ pos < x.end
  <2>1. move(x, pos) = enum_move(y, pos - x.begin)
    BY <1>4 DEF move
  <2> HIDE DEF y
  <2>2. move(x, pos) = On(q, pos, EnumAt(level, stored, q, pos - q * partition_size))
    BY <1>2, <1>3, <2>1, EnumMoved
  <2>3. q * partition_size <= pos /\ pos < End(level, q)
    <3>1. q * partition_size \in Nat
      BY <1>0, Cut
    <3>2. PICK b \in Nat : b = q * partition_size
      BY <3>1
    <3> QED
      BY <1>3, <1>4, <3>2
  <2> QED
    BY <2>2, <2>3, TargetMoved
<1>5. CASE ~ (pos >= x.begin /\ pos < x.end)
  <2>1. move(x, pos) = slow_move(y)
    BY <1>5 DEF move
  <2> DEFINE t == Target(level, pos)
  <2> HIDE DEF y
  <2>2. move(x, pos) = On(t, pos, EnumAt(level, stored, t, pos - t * partition_size))
    BY <1>2, <2>1, SlowMoved
  <2>3. /\ t \in 0 .. Count(level) - 1 /\ t * partition_size <= pos
        /\ pos < End(level, t) \/ (pos = Len(level.from) /\ t = Count(level) - 1)
    BY <1>0, TargetKnown
  <2> QED
    BY <2>2, <2>3, TargetMoved
<1> QED
  BY <1>4, <1>5

(* The value where it has been moved.                                      *)
LEMMA MovedValue ==
  ASSUME Readable(level, stored, sequence, parts),
         NEW pos \in 0 .. Len(level.from), NEW x, MovedTo(level, stored, x, pos)
  PROVE  moved_value(x) = IF pos = Len(level.from) THEN stored[pos] ELSE stored[pos + 1]
<1>1. Known(level, stored) /\ Len(level.from) \in Nat \ {0}
  BY KnownFacts DEF Readable
<1>2. /\ x.position = pos
      /\ pos < Len(level.from) => x.base + x.enum.value = stored[pos + 1]
  BY <1>1, MovedKnown
<1> QED
  BY <1>1, <1>2 DEF moved_value, m_size, m_universe

(* switch_partition, from anywhere to any partition.                       *)
LEMMA Switches ==
  ASSUME Readable(level, stored, sequence, parts), NEW x, Settled(level, stored, x),
         NEW p \in 0 .. Count(level) - 1
  PROVE  LET y == switch_partition(x, p)
         IN  Settled(level, stored, y) /\ y.partition = p /\ y.enum = EnumNowhere(level, stored, p)
<1> DEFINE y == switch_partition(x, p)
<1>0. Known(level, stored)
  BY DEF Readable
<1>1. x = IteratorOn(level, stored, x.partition, x.position, x.enum, x.prev_range_upper_bound, x.last)
      /\ x.partition \in 0 .. Count(level) - 1 /\ x.position \in 0 .. Len(level.from)
  BY DEF Settled
<1>2. y = IteratorOn(level, stored, p, x.position, EnumNowhere(level, stored, p),
                     x.prev_range_upper_bound, x.last)
  BY <1>1, PartitionSwitched
<1>3. /\ y.partition = p /\ y.position = x.position /\ y.enum = EnumNowhere(level, stored, p)
      /\ y.prev_range_upper_bound = x.prev_range_upper_bound /\ y.last = x.last
  BY <1>2, IteratorParts
<1>4. /\ EnumNowhere(level, stored, p).position = Len(List(level, stored, p))
      /\ EnumNowhere(level, stored, p).value = Above(level, stored, p)
  BY DEF EnumNowhere, Elements!unpositioned, Elements!enumerator
<1>5. Len(List(level, stored, p)) \in 0 .. partition_size
  <2>1. Len(List(level, stored, p)) \in 1 .. partition_size
    BY <1>0, ListKnown
  <2> QED
    BY <2>1
<1>6. Above(level, stored, p) \in Int
  <2>1. /\ Count(level) \in Nat /\ stored[1] \in Nat
    BY <1>0, KnownFacts, Cut
  <2>2. Bound(level, stored, p) \in Nat /\ Bound(level, stored, p + 1) \in Nat
    BY <1>0, <2>1, BoundsKnown
  <2> QED
    BY <2>1, <2>2 DEF Above, Top
<1> QED
  BY <1>1, <1>2, <1>3, <1>4, <1>5, <1>6 DEF Settled

-----------------------------------------------------------------------------
(* A range: its nodes, raised, increase.                                   *)
LEMMA RangeKnown ==
  ASSUME NEW l, NEW s, Known(l, s), NEW r \in RangesOf(l)
  PROVE  /\ r.begin \in Nat /\ r.end \in Nat /\ r.begin < r.end /\ r.end <= Len(l.from)
         /\ Raise(s, r) \in Nat
         /\ \A pos \in Positions(r) :
              /\ pos \in 0 .. Len(l.from) - 1 /\ pos + 1 \in 1 .. Len(l.from)
              /\ l.from[pos + 1] \in Nat /\ s[pos + 1] \in Nat
              /\ s[pos + 1] = l.from[pos + 1] + Raise(s, r)
         /\ \A a, b \in Positions(r) : a < b => s[a + 1] < s[b + 1]
<1>0. WellFormedLevel(l) /\ Len(l.from) \in Nat \ {0} /\ \A i \in 1 .. Len(l.from) : s[i] \in Nat
  BY KnownFacts
<1>1. PICK c \in 0 .. Len(l.pointers) - 2 : r = RangeAt(l.pointers, c)
  BY DEF RangesOf
<1>2. /\ Len(l.pointers) \in Nat \ {0, 1} /\ l.from \in Seq(Nat)
      /\ \A p \in 1 .. Len(l.pointers) : l.pointers[p] \in Nat /\ l.pointers[p] \in 0 .. Len(l.from)
      /\ \A p, q \in 1 .. Len(l.pointers) : p < q => l.pointers[p] < l.pointers[q]
  BY <1>0, PointerFacts
<1>3. PICK p \in 1 .. Len(l.pointers) - 1 : p = c + 1
  BY <1>2
<1>4. p \in 1 .. Len(l.pointers) /\ p + 1 \in 1 .. Len(l.pointers) /\ p < p + 1
  BY <1>2
<1>5. r.begin = l.pointers[p] /\ r.end = l.pointers[p + 1]
  BY <1>1, <1>3 DEF RangeAt
<1>6. r.begin \in Nat /\ r.end \in Nat /\ r.begin < r.end /\ r.end <= Len(l.from)
  BY <1>2, <1>4, <1>5
<1>7. \A i \in r.begin + 1 .. r.end : s[i] = l.from[i] + Raise(s, r)
  <2>1. \A i \in l.pointers[p] + 1 .. l.pointers[p + 1] :
          s[i] = l.from[i] + (IF l.pointers[p] = 0 THEN 0 ELSE s[l.pointers[p]])
    BY KnownFacts
  <2> QED
    BY <1>5, <2>1 DEF Raise
<1>8. \A i, j \in r.begin + 1 .. r.end : i < j => s[i] < s[j]
  <2>1. \A i, j \in l.pointers[p] + 1 .. l.pointers[p + 1] : i < j => s[i] < s[j]
    BY KnownFacts
  <2> QED
    BY <1>5, <2>1
<1>9. Raise(s, r) \in Nat
  <2>1. r.begin # 0 => r.begin \in 1 .. Len(l.from)
    BY <1>0, <1>6
  <2> QED
    BY <1>0, <2>1 DEF Raise
<1>10. ASSUME NEW pos \in Positions(r)
       PROVE  /\ pos \in 0 .. Len(l.from) - 1 /\ pos + 1 \in 1 .. Len(l.from)
              /\ pos + 1 \in r.begin + 1 .. r.end
              /\ l.from[pos + 1] \in Nat /\ s[pos + 1] \in Nat
  <2>1. pos \in 0 .. Len(l.from) - 1 /\ pos + 1 \in 1 .. Len(l.from) /\ pos + 1 \in r.begin + 1 .. r.end
    BY <1>0, <1>6 DEF Positions
  <2> QED
    BY <1>0, <1>2, <2>1
<1>11. ASSUME NEW pos \in Positions(r) PROVE s[pos + 1] = l.from[pos + 1] + Raise(s, r)
  BY <1>7, <1>10
<1>12. ASSUME NEW a \in Positions(r), NEW b \in Positions(r), a < b PROVE s[a + 1] < s[b + 1]
  <2>1. a + 1 \in r.begin + 1 .. r.end /\ b + 1 \in r.begin + 1 .. r.end /\ a \in Int /\ b \in Int
    BY <1>10
  <2>2. a + 1 < b + 1
    BY <1>12, <2>1
  <2> QED
    BY <1>8, <2>1, <2>2
<1> QED
  BY <1>6, <1>9, <1>10, <1>11, <1>12

(* The bound of the range before, from anywhere.                           *)
LEMMA BoundMoved ==
  ASSUME Readable(level, stored, sequence, parts), NEW x, Settled(level, stored, x),
         NEW r \in RangesOf(level)
  PROVE  Settled(level, stored, to_bound(x, r)) /\ bound(x, r) = Raise(stored, r)
<1>0. /\ Known(level, stored) /\ r.begin \in Nat /\ r.end \in Nat
      /\ r.begin < r.end /\ r.end <= Len(level.from) /\ Len(level.from) \in Nat
  BY RangeKnown, KnownFacts DEF Readable
<1>1. CASE r.begin = 0
  BY <1>1 DEF to_bound, bound, Raise
<1>2. CASE r.begin # 0
  <2>1. PICK pos \in 0 .. Len(level.from) : pos = r.begin - 1
    BY <1>0, <1>2
  <2>2. to_bound(x, r) = move(x, pos)
    BY <1>2, <2>1 DEF to_bound
  <2>3. MovedTo(level, stored, move(x, pos), pos)
    BY Moves
  <2>4. Settled(level, stored, move(x, pos))
    BY <1>0, <2>3, MovedKnown
  <2>5. moved_value(move(x, pos)) = stored[pos + 1]
    <3>1. pos # Len(level.from)
      BY <1>0, <2>1
    <3> QED
      BY <2>3, <3>1, MovedValue
  <2>6. pos + 1 = r.begin
    BY <1>0, <2>1
  <2> QED
    BY <1>2, <2>2, <2>4, <2>5, <2>6 DEF bound, Raise
<1> QED
  BY <1>1, <1>2

(* access gives the node, whichever of its operands comes first.           *)
LEMMA AccessKeeps ==
  ASSUME SearchInv, NEW r \in Ranges, NEW pos \in Positions(r), Access(r, pos)
  PROVE  SearchInv'
<1>0. /\ Readable(level, stored, sequence, parts) /\ Known(level, stored)
      /\ Settled(level, stored, m_it) /\ r \in RangesOf(level)
  BY DEF SearchInv, Readable, Ranges, RangesOf
<1>1. /\ pos \in 0 .. Len(level.from) /\ pos # Len(level.from)
      /\ level.from[pos + 1] \in Nat /\ Raise(stored, r) \in Nat
      /\ stored[pos + 1] = level.from[pos + 1] + Raise(stored, r)
  <2>1. /\ pos \in 0 .. Len(level.from) - 1
        /\ level.from[pos + 1] \in Nat /\ Raise(stored, r) \in Nat
        /\ stored[pos + 1] = level.from[pos + 1] + Raise(stored, r)
    BY <1>0, RangeKnown
  <2>2. Len(level.from) \in Nat
    BY <1>0, KnownFacts
  <2> QED
    BY <2>1, <2>2
<1>2. /\ level' = level /\ stored' = stored /\ sequence' = sequence /\ parts' = parts
      /\ pc' = "answered" /\ call' = [op |-> "access", range |-> r, pos |-> pos]
  BY DEF Access, Answer, built
<1>3. Settled(level, stored, m_it') /\ result' = level.from[pos + 1]
  <2>1. ASSUME NEW x, Settled(level, stored, x)
        PROVE  /\ Settled(level, stored, move(x, pos)) /\ moved_value(move(x, pos)) = stored[pos + 1]
               /\ Settled(level, stored, to_bound(x, r)) /\ bound(x, r) = Raise(stored, r)
    <3>1. MovedTo(level, stored, move(x, pos), pos)
      BY <1>0, <1>1, <2>1, Moves
    <3> QED
      BY <1>0, <1>1, <2>1, <3>1, MovedKnown, MovedValue, BoundMoved
  <2>2. stored[pos + 1] - Raise(stored, r) = level.from[pos + 1]
    BY <1>1
  <2>3. CASE m_it' = to_bound(move(m_it, pos), r)
             /\ result' = moved_value(move(m_it, pos)) - bound(move(m_it, pos), r)
    BY <1>0, <2>1, <2>2, <2>3
  <2>4. CASE m_it' = move(to_bound(m_it, r), pos)
             /\ result' = moved_value(m_it') - bound(m_it, r)
    BY <1>0, <2>1, <2>2, <2>4
  <2> QED
    BY <2>3, <2>4 DEF Access, Answer
<1>4. AccessGivesNode'
  BY <1>2, <1>3 DEF AccessGivesNode
<1>5. FindsExactly'
  BY <1>2 DEF FindsExactly
<1>6. result' \in Int
  BY <1>1, <1>3
<1> QED
  BY <1>0, <1>2, <1>3, <1>4, <1>5, <1>6 DEF SearchInv

(* The iterator that has been moved to a position, of given other parts.   *)
Standing(l, s, pos, prev, last) ==
  IteratorOn(l, s, Target(l, pos), pos, EnumAt(l, s, Target(l, pos), pos - Target(l, pos) * partition_size),
             prev, last)

(* It has been moved, and there is no other partition it could be on.      *)
LEMMA MovedAt ==
  ASSUME NEW l, Len(l.from) \in Nat \ {0}, NEW s, NEW pos \in 0 .. Len(l.from),
         NEW prev, NEW last, NEW x, x = Standing(l, s, pos, prev, last)
  PROVE  MovedTo(l, s, x, pos) /\ x.prev_range_upper_bound = prev /\ x.last = last
  BY TargetKnown, TargetMoved DEF Standing

LEMMA TargetOnly ==
  ASSUME NEW l, Len(l.from) \in Nat \ {0}, NEW pos \in 0 .. Len(l.from),
         NEW q \in 0 .. Count(l) - 1, q * partition_size <= pos,
         pos < End(l, q) \/ (pos = Len(l.from) /\ q = Count(l) - 1)
  PROVE  q = Target(l, pos)
<1> DEFINE t == Target(l, pos)
<1>0. /\ Count(l) \in Nat \ {0} /\ partition_size \in Nat \ {0}
      /\ \A p \in 0 .. Count(l) - 1 :
           p \in Nat /\ p * partition_size \in Nat /\ End(l, p) \in Nat /\ End(l, p) <= Len(l.from)
      /\ \A a, b \in 0 .. Count(l) - 1 : a < b => End(l, a) <= b * partition_size
  BY Cut, PartitionSize
<1>1. CASE pos = Len(l.from)
  <2>1. End(l, q) <= pos /\ End(l, q) \in Nat
    BY <1>0, <1>1
  <2> QED
    BY <1>1, <2>1 DEF Target
<1>2. CASE pos # Len(l.from)
  <2>1. /\ t \in 0 .. Count(l) - 1 /\ t * partition_size <= pos /\ pos < End(l, t)
        /\ q * partition_size <= pos /\ pos < End(l, q)
    BY <1>2, TargetKnown
  <2> HIDE DEF t
  <2>2. ~ (q < t)
    <3>1. PICK b \in Nat : b = t * partition_size
      BY <1>0, <2>1
    <3>2. PICK e \in Nat : e = End(l, q)
      BY <1>0
    <3> QED
      BY <1>0, <2>1, <3>1, <3>2
  <2>3. ~ (t < q)
    <3>1. PICK b \in Nat : b = q * partition_size
      BY <1>0, <2>1
    <3>2. PICK e \in Nat : e = End(l, t)
      BY <1>0, <2>1
    <3> QED
      BY <1>0, <2>1, <3>1, <3>2
  <2>4. q \in Nat /\ t \in Nat
    BY <1>0, <2>1
  <2>5. q = t
    BY <2>2, <2>3, <2>4
  <2> QED
    BY <2>5 DEF t
<1> QED
  BY <1>1, <1>2

(* next(), of one that is not at the last position.                        *)
LEMMA NextAt ==
  ASSUME Readable(level, stored, sequence, parts), NEW pos \in 0 .. Len(level.from) - 1,
         NEW prev, NEW last
  PROVE  iterator_next(Standing(level, stored, pos, prev, last)) = Standing(level, stored, pos + 1, prev, last)
<1> DEFINE N == Len(level.from)
           K == Count(level)
           q == Target(level, pos)
           x == Standing(level, stored, pos, prev, last)
           y == [x EXCEPT !.position = @ + 1]
           On(p, e) == IteratorOn(level, stored, p, pos + 1, e, prev, last)
<1>0. /\ N \in Nat \ {0} /\ K \in Nat \ {0} /\ Known(level, stored) /\ partition_size \in Nat \ {0}
      /\ \A p \in 0 .. K - 1 :
           /\ p \in Nat /\ p * partition_size \in Nat /\ End(level, p) \in Nat
           /\ p * partition_size < End(level, p) /\ End(level, p) <= N
           /\ p + 1 < K => End(level, p) = (p + 1) * partition_size
           /\ p + 1 = K => End(level, p) = N
  BY KnownFacts, Cut, PartitionSize DEF Readable
<1>1. pos \in 0 .. N /\ pos + 1 \in 0 .. N /\ pos \in Nat /\ pos # N
  BY <1>0
<1>2. q \in 0 .. K - 1 /\ q * partition_size <= pos /\ pos < End(level, q)
  BY <1>0, <1>1, TargetKnown
<1>3. x = IteratorOn(level, stored, q, pos, EnumAt(level, stored, q, pos - q * partition_size), prev, last)
  BY DEF Standing
<1> HIDE DEF x, q
<1>4. /\ x.position = pos /\ x.partition = q /\ x.end = End(level, q)
      /\ x.enum = EnumAt(level, stored, q, pos - q * partition_size)
  BY <1>3, IteratorParts
<1>5. y = On(q, x.enum)
  <2>1. y = [x EXCEPT !.position = pos + 1]
    BY <1>4
  <2> QED
    BY <1>3, <1>4, <2>1, PositionReplaced
<1>6. x.enum.position = pos - q * partition_size
  <2>1. pos <= End(level, q)
    BY <1>0, <1>2
  <2> QED
    BY <1>0, <1>1, <1>2, <1>4, <2>1, EnumKnown
<1>7. y.position = pos + 1
  <2> HIDE DEF y
  <2> QED
    BY <1>5, IteratorParts
<1>8. iterator_next(x) = IF pos + 1 < x.end \/ pos + 1 = m_size
                         THEN enum_move(y, x.enum.position + 1)
                         ELSE enum_move(switch_partition(y, x.partition + 1), 0)
  BY <1>7 DEF iterator_next
<1> HIDE DEF y
<1>9. PICK b \in Nat : b = q * partition_size
  BY <1>0, <1>2
<1>10. CASE pos + 1 < End(level, q) \/ pos + 1 = N
  <2>1. iterator_next(x) = enum_move(y, x.enum.position + 1)
    BY <1>4, <1>8, <1>10 DEF m_size
  <2>2. iterator_next(x) = On(q, EnumAt(level, stored, q, x.enum.position + 1))
    BY <1>2, <1>5, <2>1, EnumMoved
  <2>3. x.enum.position + 1 = (pos + 1) - q * partition_size
    BY <1>1, <1>6, <1>9
  <2>4. q = Target(level, pos + 1)
    <3>1. q * partition_size <= pos + 1
      BY <1>1, <1>2, <1>9
    <3>2. pos + 1 < End(level, q) \/ (pos + 1 = N /\ q = K - 1)
      <4>1. CASE pos + 1 < End(level, q)
        BY <4>1
      <4>2. CASE pos + 1 = N
        <5>1. CASE q + 1 < K
          <6>1. q + 1 \in 0 .. K - 1
            BY <1>0, <1>2, <5>1
          <6>2. PICK d \in Nat : d = (q + 1) * partition_size
            BY <1>0, <6>1
          <6>3. End(level, q) = d /\ d < End(level, q + 1) /\ End(level, q + 1) <= N
                /\ End(level, q + 1) \in Nat
            BY <1>0, <1>2, <5>1, <6>1, <6>2
          <6> QED
            BY <1>0, <1>1, <1>2, <4>2, <6>3
        <5>2. CASE ~ (q + 1 < K)
          BY <1>0, <1>2, <4>2, <5>2
        <5> QED
          BY <5>1, <5>2
      <4> QED
        BY <1>10, <4>1, <4>2
    <3> QED
      BY <1>0, <1>1, <1>2, <3>1, <3>2, TargetOnly
  <2> QED
    BY <2>2, <2>3, <2>4 DEF Standing, x
<1>11. CASE ~ (pos + 1 < End(level, q) \/ pos + 1 = N)
  <2>1. iterator_next(x) = enum_move(switch_partition(y, q + 1), 0)
    BY <1>4, <1>8, <1>11 DEF m_size
  <2>2. /\ q + 1 \in 0 .. K - 1 /\ End(level, q) = pos + 1
        /\ (q + 1) * partition_size = pos + 1
    <3>1. End(level, q) = pos + 1
      BY <1>0, <1>1, <1>2, <1>11
    <3>2. q + 1 # K
      BY <1>0, <1>2, <1>11, <3>1
    <3>3. q + 1 < K /\ q + 1 \in 0 .. K - 1
      BY <1>0, <1>2, <3>2
    <3> QED
      BY <1>0, <1>2, <3>1, <3>3
  <2>3. switch_partition(y, q + 1) = On(q + 1, EnumNowhere(level, stored, q + 1))
    BY <1>2, <1>5, <2>2, PartitionSwitched
  <2>4. iterator_next(x) = On(q + 1, EnumAt(level, stored, q + 1, 0))
    BY <2>1, <2>2, <2>3, EnumMoved
  <2>5. q + 1 = Target(level, pos + 1)
    <3>1. (q + 1) * partition_size <= pos + 1
      BY <1>1, <2>2
    <3>2. pos + 1 < End(level, q + 1)
      BY <1>0, <2>2
    <3> QED
      BY <1>0, <1>1, <2>2, <3>1, <3>2, TargetOnly
  <2>6. (pos + 1) - (q + 1) * partition_size = 0
    BY <1>1, <2>2
  <2> QED
    BY <2>4, <2>5, <2>6 DEF Standing, x
<1> QED
  BY <1>10, <1>11 DEF x

(* What an iterator that stands at a position gives.                       *)
LEMMA StandingValue ==
  ASSUME NEW l, NEW s, Known(l, s), NEW pos \in 0 .. Len(l.from) - 1, NEW prev \in Nat, NEW last
  PROVE  LET x == Standing(l, s, pos, prev, last)
         IN  /\ iterator_value(x) = s[pos + 1] - prev
             /\ iterator_read(x) = Standing(l, s, pos, prev, s[pos + 1])
             /\ iterator_switch_range(x) = Standing(l, s, pos, last, last)
             /\ x.position = pos
<1> DEFINE x == Standing(l, s, pos, prev, last)
           q == Target(l, pos)
           e == EnumAt(l, s, q, pos - q * partition_size)
<1>0. Len(l.from) \in Nat \ {0} /\ pos \in 0 .. Len(l.from) /\ pos < Len(l.from)
  BY KnownFacts
<1>1. x = IteratorOn(l, s, q, pos, e, prev, last)
  BY DEF Standing
<1>2. MovedTo(l, s, x, pos) /\ x.prev_range_upper_bound = prev
  BY <1>0, MovedAt
<1> HIDE DEF x
<1>3. x.position = pos /\ x.base + x.enum.value = s[pos + 1]
  BY <1>0, <1>2, MovedKnown
<1>4. x.base = Bound(l, s, q) /\ x.enum = e
  BY <1>1, IteratorParts
<1>5. iterator_value(x) = s[pos + 1] - prev
  <2>1. x.enum.value \in Int
    BY <1>0, <1>2, MovedKnown DEF Settled
  <2>2. Bound(l, s, q) \in Nat
    <3>1. q \in 0 .. Count(l) - 1 /\ Count(l) \in Nat
      BY <1>0, TargetKnown, Cut
    <3> QED
      BY <3>1, BoundsKnown
  <2>3. x.base \in Nat
    BY <1>4, <2>2
  <2> QED
    BY <1>2, <1>3, <2>1, <2>3 DEF iterator_value
<1>6. Bound(l, s, q) + e.value = s[pos + 1]
  BY <1>3, <1>4
<1> HIDE DEF e, q
<1>7. iterator_read(x) = IteratorOn(l, s, q, pos, e, prev, s[pos + 1])
  BY <1>1, <1>6, IteratorRead
<1>8. iterator_switch_range(x) = IteratorOn(l, s, q, pos, e, last, last)
  BY <1>1, IteratorRead
<1> QED
  BY <1>3, <1>5, <1>7, <1>8 DEF x, e, q, Standing

(* The constructor, over several partitions.                               *)
LEMMA IteratorMade ==
  ASSUME Readable(level, stored, sequence, parts), Count(level) > 1,
         NEW pos \in 0 .. Len(level.from), NEW prev
  PROVE  iterator(pos, prev) = Standing(level, stored, pos, prev, 0)
<1> DEFINE x == [position |-> pos, partition |-> 0, begin |-> 0, end |-> m_size,
                 base |-> parts[0].base, upper_bound |-> parts[0].upper_bound,
                 prev_range_upper_bound |-> prev, last |-> 0,
                 enum |-> Elements!enumerator(0, 0)]
           t == Target(level, pos)
<1>0. Len(level.from) \in Nat \ {0} /\ Known(level, stored)
  BY KnownFacts DEF Readable
<1>1. m_partitions = Count(level) /\ m_size = Len(level.from)
  BY DEF m_partitions, m_size, Count
<1>2. iterator(pos, prev) = slow_move(x)
  BY <1>1 DEF iterator
<1>3. x = Parts(pos, 0, 0, m_size, parts[0].base, parts[0].upper_bound, prev, 0, Elements!enumerator(0, 0))
  BY DEF Parts
<1>4. t \in 0 .. Count(level) - 1
  BY <1>0, TargetKnown
<1> DEFINE y == switch_partition(x, t)
<1>5. y = IteratorOn(level, stored, t, pos, EnumNowhere(level, stored, t), prev, 0)
  <2> HIDE DEF x
  <2> QED
    BY <1>3, <1>4, AnySwitched
<1>6. slow_move(x) = enum_move(y, pos - y.begin)
  BY <1>1 DEF slow_move, Target
<1> HIDE DEF y, x, t
<1>7. y.begin = t * partition_size
  BY <1>5, IteratorParts
<1>8. enum_move(y, pos - y.begin)
        = IteratorOn(level, stored, t, pos, EnumAt(level, stored, t, pos - y.begin), prev, 0)
  BY <1>4, <1>5, EnumMoved
<1> QED
  BY <1>2, <1>6, <1>7, <1>8 DEF Standing, t

(* Over a single one the enumerator is nowhere.                            *)
LEMMA IteratorSingle ==
  ASSUME Readable(level, stored, sequence, parts), Count(level) = 1,
         NEW pos, NEW prev
  PROVE  iterator(pos, prev) = IteratorOn(level, stored, 0, pos, EnumNowhere(level, stored, 0), prev, 0)
<1> DEFINE x == [position |-> pos, partition |-> 0, begin |-> 0, end |-> m_size,
                 base |-> parts[0].base, upper_bound |-> parts[0].upper_bound,
                 prev_range_upper_bound |-> prev, last |-> 0,
                 enum |-> Elements!enumerator(0, 0)]
           z == IteratorOn(level, stored, 0, pos, Elements!enumerator(0, 0), prev, 0)
<1>0. Len(level.from) \in Nat \ {0} /\ Known(level, stored) /\ partition_size \in Nat \ {0}
  BY KnownFacts, PartitionSize DEF Readable
<1>1. m_partitions = 1 /\ m_size = Len(level.from)
  BY DEF m_partitions, m_size, Count
<1>2. iterator(pos, prev) = [x EXCEPT !.enum = Elements!unpositioned(Values(x), Universe(x))]
  BY <1>1 DEF iterator
<1>3. 0 \in 0 .. Count(level) - 1
  OBVIOUS
<1>4. /\ 0 * partition_size = 0 /\ End(level, 0) = m_size
      /\ parts[0].base = Bound(level, stored, 0) /\ parts[0].upper_bound = Top(level, stored, 0)
  <2>1. parts[0] = Part(level, stored, 0)
    BY <1>3 DEF Readable
  <2>2. 0 + 1 = Count(level) => End(level, 0) = Len(level.from)
    BY <1>0, <1>3, Cut
  <2>3. 0 * partition_size = 0
    BY <1>0
  <2> QED
    BY <1>1, <2>1, <2>2, <2>3 DEF Part, Top
<1>5. x = z
  BY <1>4 DEF IteratorOn, Parts
<1>6. Values(z) = List(level, stored, 0) /\ Universe(z) = Above(level, stored, 0)
  BY <1>3, ListAtHand
<1>7. [z EXCEPT !.enum = EnumNowhere(level, stored, 0)]
        = IteratorOn(level, stored, 0, pos, EnumNowhere(level, stored, 0), prev, 0)
  BY EnumReplaced
<1> HIDE DEF x, z
<1> QED
  BY <1>2, <1>5, <1>6, <1>7 DEF EnumNowhere

(* What find promises, in terms of the raised values.                      *)
LEMMA FindKnown ==
  ASSUME NEW l, NEW s, Known(l, s), NEW r \in RangesOf(l), NEW id \in Nat
  PROVE  /\ \A pos \in Positions(r) : l.from[pos + 1] = id <=> s[pos + 1] = id + Raise(s, r)
         /\ \A pos \in Positions(r) : l.from[pos + 1] = id => find(l.from, r, id) = pos
         /\ (\A pos \in Positions(r) : l.from[pos + 1] # id) => find(l.from, r, id) = not_found
<1>1. Raise(s, r) \in Nat
  BY RangeKnown
<1>2. \A pos \in Positions(r) : /\ l.from[pos + 1] \in Nat /\ s[pos + 1] \in Nat /\ pos \in Int
                                /\ s[pos + 1] = l.from[pos + 1] + Raise(s, r)
  <2> TAKE pos \in Positions(r)
  <2>1. pos \in 0 .. Len(l.from) - 1
    BY RangeKnown
  <2> QED
    BY <2>1, RangeKnown
<1>3. \A pos \in Positions(r) : l.from[pos + 1] = id <=> s[pos + 1] = id + Raise(s, r)
  BY <1>1, <1>2
<1>4. \A a, b \in Positions(r) : a < b => s[a + 1] < s[b + 1]
  BY RangeKnown
<1>5. ASSUME NEW a \in Positions(r), NEW b \in Positions(r), l.from[a + 1] = id, l.from[b + 1] = id
      PROVE  a = b
  <2>1. s[a + 1] = s[b + 1] /\ s[a + 1] \in Nat
    BY <1>2, <1>3, <1>5
  <2>2. ~ (a < b) /\ ~ (b < a)
    BY <1>4, <2>1
  <2> QED
    BY <1>2, <2>2
<1>6. ASSUME NEW pos \in Positions(r), l.from[pos + 1] = id PROVE find(l.from, r, id) = pos
  BY <1>5, <1>6 DEF find
<1>7. (\A pos \in Positions(r) : l.from[pos + 1] # id) => find(l.from, r, id) = not_found
  BY DEF find
<1> QED
  BY <1>3, <1>6, <1>7

(* What FindByScan goes over.                                              *)
ScanTurn(x, r, k) == IF k = 0 THEN iterator(r.begin, bound(m_it, r)) ELSE iterator_next(x[k - 1])
Scanning(r) == CHOOSE x : x = [k \in 0 .. Length(r) - 1 |-> ScanTurn(x, r, k)]

(* It stands at one position of the range after another.                   *)
LEMMA ScannedKnown ==
  ASSUME Readable(level, stored, sequence, parts), Settled(level, stored, m_it), Count(level) > 1,
         NEW r \in RangesOf(level), NEW k \in 0 .. Length(r) - 1
  PROVE  Scanning(r)[k] = Standing(level, stored, r.begin + k, Raise(stored, r), 0)
<1> DEFINE n == Length(r)
           W(j) == Standing(level, stored, r.begin + j, Raise(stored, r), 0)
           F == Scanning(r)
           g == [j \in 0 .. n - 1 |-> W(j)]
<1>0. /\ Known(level, stored) /\ Len(level.from) \in Nat \ {0}
      /\ r.begin \in Nat /\ r.end \in Nat /\ r.begin < r.end /\ r.end <= Len(level.from)
      /\ n \in Nat \ {0} /\ n = r.end - r.begin
  BY RangeKnown, KnownFacts DEF Readable, Length
<1>1. iterator(r.begin, bound(m_it, r)) = W(0)
  <2>1. bound(m_it, r) = Raise(stored, r)
    BY BoundMoved
  <2>2. r.begin \in 0 .. Len(level.from) /\ r.begin + 0 = r.begin
    BY <1>0
  <2> QED
    BY <2>1, <2>2, IteratorMade
<1>2. ASSUME NEW j \in 0 .. n - 1, j # 0 PROVE iterator_next(W(j - 1)) = W(j)
  <2>1. PICK pos \in 0 .. Len(level.from) - 1 : pos = r.begin + (j - 1) /\ pos + 1 = r.begin + j
    <3>1. j \in Nat \ {0} /\ j < r.end - r.begin
      <4> HIDE DEF n
      <4> QED
        BY <1>0, <1>2
    <3>2. r.begin + (j - 1) \in 0 .. Len(level.from) - 1 /\ (r.begin + (j - 1)) + 1 = r.begin + j
      BY <1>0, <3>1
    <3> QED
      BY <3>2
  <2>2. iterator_next(Standing(level, stored, pos, Raise(stored, r), 0))
          = Standing(level, stored, pos + 1, Raise(stored, r), 0)
    BY NextAt
  <2> QED
    BY <2>1, <2>2
<1> HIDE DEF n, W
<1>4. g = [j \in 0 .. n - 1 |-> ScanTurn(g, r, j)]
  <2>1. ASSUME NEW j \in 0 .. n - 1 PROVE W(j) = ScanTurn(g, r, j)
    <3>1. CASE j = 0
      BY <1>1, <3>1 DEF ScanTurn
    <3>2. CASE j # 0
      <4>1. j - 1 \in 0 .. n - 1
        BY <1>0, <3>2
      <4>2. g[j - 1] = W(j - 1)
        BY <4>1
      <4> HIDE DEF g
      <4> QED
        BY <1>2, <3>2, <4>2 DEF ScanTurn
    <3> QED
      BY <3>1, <3>2
  <2> QED
    BY <2>1
<1>5. F = [j \in 0 .. n - 1 |-> ScanTurn(F, r, j)]
  <2> HIDE DEF g
  <2> QED
    BY <1>4 DEF Scanning, n
<1> HIDE DEF F
<1> DEFINE P == {j \in Nat : F[j] = W(j)}
<1>6. 0 \in P
  <2>1. 0 \in 0 .. n - 1
    BY <1>0
  <2>2. F[0] = ScanTurn(F, r, 0)
    BY <1>5, <2>1
  <2> QED
    BY <1>1, <2>2 DEF ScanTurn
<1>7. ASSUME NEW j \in 0 .. (n - 1) - 1, j \in P PROVE j + 1 \in P
  <2>1. j + 1 \in 0 .. n - 1 /\ j + 1 # 0 /\ (j + 1) - 1 = j /\ j + 1 \in Nat
    BY <1>0
  <2>2. F[j + 1] = ScanTurn(F, r, j + 1)
    BY <1>5, <2>1
  <2>3. F[j + 1] = iterator_next(F[j])
    BY <2>1, <2>2 DEF ScanTurn
  <2>4. iterator_next(W((j + 1) - 1)) = W(j + 1)
    BY <1>2, <2>1
  <2> QED
    BY <1>7, <2>1, <2>3, <2>4
<1>8. \A j \in 0 .. n - 1 : j \in P
  <2>1. n - 1 \in Nat
    BY <1>0
  <2> HIDE DEF P
  <2> QED
    BY <2>1, <1>6, <1>7, InductionUpTo
<1>9. k \in 0 .. n - 1
  BY DEF n
<1> QED
  BY <1>8, <1>9 DEF F, W

(* find in a short range gives the first hit.                              *)
LEMMA FindByScanKeeps ==
  ASSUME SearchInv, NEW r \in Ranges, NEW id \in level.ids, FindByScan(r, id)
  PROVE  SearchInv'
<1> DEFINE n == Length(r)
           hits == {k \in 0 .. n - 1 : iterator_value(Scanning(r)[k]) = id}
           c == CHOOSE k \in hits : \A h \in hits : k <= h
<1>0. /\ Readable(level, stored, sequence, parts) /\ Known(level, stored)
      /\ Settled(level, stored, m_it) /\ r \in RangesOf(level)
  BY DEF SearchInv, Readable, Ranges, RangesOf
<1>1. /\ r.begin \in Nat /\ r.end \in Nat /\ r.begin < r.end /\ r.end <= Len(level.from)
      /\ n \in Nat \ {0} /\ n = r.end - r.begin /\ id \in Nat /\ Raise(stored, r) \in Nat
  <2>1. id \in Nat
    BY <1>0, KnownFacts DEF WellFormedLevel
  <2> QED
    BY <1>0, <2>1, RangeKnown DEF Length
<1>2. /\ level' = level /\ stored' = stored /\ sequence' = sequence /\ parts' = parts
      /\ pc' = "answered" /\ call' = [op |-> "find", range |-> r, id |-> id]
      /\ m_it' = to_bound(m_it, r) /\ n <= linear_scan_threshold
  BY DEF FindByScan, Answer, built
<1>3. result' = IF hits = {} THEN not_found ELSE r.begin + c
  BY DEF FindByScan, Answer, Scanning, ScanTurn
<1>4. hits # {} => c \in hits
  <2>1. ASSUME hits # {} PROVE \E k \in hits : \A h \in hits : k <= h
    <3>1. hits \subseteq Nat
      OBVIOUS
    <3> HIDE DEF hits
    <3> QED
      BY <2>1, <3>1, LeastNatural
  <2> HIDE DEF hits
  <2> QED
    BY <2>1
<1>5. hits \subseteq 0 .. n - 1
  OBVIOUS
<1>6. result' \in Int
  <2> HIDE DEF hits, c
  <2>1. not_found \in Int
    BY DEF not_found
  <2>2. hits # {} => c \in Int
    <3>1. hits # {} => c \in 0 .. n - 1
      BY <1>4, <1>5
    <3> HIDE DEF n
    <3> QED
      BY <1>1, <3>1
  <2> QED
    BY <1>1, <1>3, <2>1, <2>2
<1>7. Settled(level, stored, m_it')
  BY <1>0, <1>2, BoundMoved
<1>8. AccessGivesNode'
  BY <1>2 DEF AccessGivesNode
<1>9. FindsExactly'
  <2>1. SUFFICES ASSUME Count(level) > 1
                 PROVE  result' = find(level.from, r, id)
    <3>1. call'.op = "find" /\ call'.range = r /\ call'.id = id
      BY <1>2
    <3>2. IteratorsMoved' <=> Count(level) > 1
      BY <1>2 DEF IteratorsMoved, m_partitions, m_size, Count
    <3>3. linear_scan_threshold \in Nat /\ ~ (Length(r) > linear_scan_threshold)
      BY <1>1, <1>2, PefAssumption
    <3> QED
      BY <1>2, <3>1, <3>2, <3>3 DEF FindsExactly
  <2>2. ASSUME NEW k \in 0 .. n - 1
        PROVE  /\ r.begin + k \in Positions(r)
               /\ k \in hits <=> level.from[(r.begin + k) + 1] = id
    <3>1. r.begin + k \in Positions(r) /\ r.begin + k \in 0 .. Len(level.from) - 1
      BY <1>1 DEF Positions
    <3>2. Scanning(r)[k] = Standing(level, stored, r.begin + k, Raise(stored, r), 0)
      BY <1>0, <2>1, ScannedKnown
    <3>3. iterator_value(Scanning(r)[k]) = stored[(r.begin + k) + 1] - Raise(stored, r)
      <4>1. PICK pos \in 0 .. Len(level.from) - 1 : pos = r.begin + k
        BY <3>1
      <4>2. iterator_value(Standing(level, stored, pos, Raise(stored, r), 0)) = stored[pos + 1] - Raise(stored, r)
        BY <1>0, <1>1, StandingValue
      <4> QED
        BY <3>2, <4>1, <4>2
    <3>4. stored[(r.begin + k) + 1] = level.from[(r.begin + k) + 1] + Raise(stored, r)
          /\ level.from[(r.begin + k) + 1] \in Nat
      BY <1>0, <3>1, RangeKnown
    <3>5. iterator_value(Scanning(r)[k]) = level.from[(r.begin + k) + 1]
      BY <1>1, <3>3, <3>4
    <3> QED
      BY <3>1, <3>5
  <2> HIDE DEF hits, c
  <2>3. CASE hits = {}
    <3>1. ASSUME NEW pos \in Positions(r) PROVE level.from[pos + 1] # id
      <4>1. PICK k \in 0 .. n - 1 : pos = r.begin + k
        <5>1. pos - r.begin \in 0 .. n - 1 /\ pos = r.begin + (pos - r.begin)
          BY <1>1 DEF Positions
        <5> QED
          BY <5>1
      <4> QED
        BY <2>2, <2>3, <4>1
    <3>2. find(level.from, r, id) = not_found
      BY <1>0, <1>1, <3>1, FindKnown
    <3> QED
      BY <1>3, <2>3, <3>2
  <2>4. CASE hits # {}
    <3>1. c \in 0 .. n - 1 /\ c \in hits
      BY <1>4, <1>5, <2>4
    <3>2. r.begin + c \in Positions(r) /\ level.from[(r.begin + c) + 1] = id
      BY <2>2, <3>1
    <3>3. find(level.from, r, id) = r.begin + c
      BY <1>0, <1>1, <3>2, FindKnown
    <3> QED
      BY <1>3, <2>4, <3>3
  <2> QED
    BY <2>3, <2>4
<1> QED
  BY <1>0, <1>2, <1>6, <1>7, <1>8, <1>9 DEF SearchInv

(* find in a longer range leaves the iterator at its beginning.            *)
LEMMA StartSearchKeeps ==
  ASSUME SearchInv, NEW r \in Ranges, NEW id \in level.ids, StartSearch(r, id)
  PROVE  SearchInv'
<1> DEFINE x == IF m_partitions > 1 THEN switch_partition(m_it, r.begin \div partition_size) ELSE m_it
<1>0. /\ Readable(level, stored, sequence, parts) /\ Known(level, stored)
      /\ Settled(level, stored, m_it) /\ r \in RangesOf(level) /\ result \in Int
  BY DEF SearchInv, Readable, Ranges, RangesOf
<1>1. /\ r.begin \in Nat /\ r.end \in Nat /\ r.begin < r.end /\ r.end <= Len(level.from)
      /\ id \in Nat /\ Len(level.from) \in Nat \ {0}
      /\ r.begin \in 0 .. Len(level.from) - 1 /\ r.begin \in 0 .. Len(level.from)
  <2>1. id \in Nat /\ Len(level.from) \in Nat \ {0}
    BY <1>0, KnownFacts DEF WellFormedLevel
  <2> QED
    BY <1>0, <2>1, RangeKnown
<1>2. /\ level' = level /\ stored' = stored /\ sequence' = sequence /\ parts' = parts
      /\ pc' = "searching" /\ result' = result /\ m_it' = move(to_bound(x, r), r.begin)
      /\ Length(r) > linear_scan_threshold
      /\ call' = [op |-> "find", range |-> r, id |-> id,
                  lower_bound |-> id + bound(x, r),
                  partition_end |-> r.end \div partition_size, lo |-> 0, hi |-> 0]
  BY DEF StartSearch, built
<1>3. Settled(level, stored, x)
  <2>1. r.begin \div partition_size \in 0 .. Count(level) - 1
    BY <1>1, Cut
  <2>2. Settled(level, stored, switch_partition(m_it, r.begin \div partition_size))
    BY <1>0, <2>1, Switches
  <2> QED
    BY <1>0, <2>2
<1> HIDE DEF x
<1>4. Settled(level, stored, to_bound(x, r)) /\ bound(x, r) = Raise(stored, r)
  BY <1>0, <1>3, BoundMoved
<1>5. MovedTo(level, stored, m_it', r.begin)
  BY <1>0, <1>1, <1>2, <1>4, Moves
<1>6. Settled(level, stored, m_it')
  BY <1>0, <1>1, <1>5, MovedKnown
<1>7. LooksFor(level, stored, call')
  <2> DEFINE lower == id + bound(x, r)
             end == r.end \div partition_size
  <2>1. call' = Search(r, id, lower, end, 0, 0)
    BY <1>2 DEF Search
  <2>2. /\ call'.op = "find" /\ call'.range = r /\ call'.id = id /\ call'.lower_bound = lower
        /\ call'.partition_end = end /\ call'.lo = 0 /\ call'.hi = 0
    BY <1>2
  <2> HIDE DEF lower, end
  <2>3. call' = Search(call'.range, call'.id, call'.lower_bound, call'.partition_end, call'.lo, call'.hi)
    BY <2>1, <2>2
  <2>4. lower = id + Raise(stored, r) /\ end = r.end \div partition_size
    BY <1>4 DEF lower, end
  <2> QED
    BY <1>0, <1>1, <1>2, <2>2, <2>3, <2>4 DEF LooksFor
<1>8. call'.range = r
  BY <1>2
<1>9. Searches(level, stored, call', m_it')
  BY <1>5, <1>8 DEF Searches
<1>10. AccessGivesNode' /\ FindsExactly'
  BY <1>2 DEF AccessGivesNode, FindsExactly
<1> QED
  BY <1>0, <1>2, <1>6, <1>7, <1>9, <1>10 DEF SearchInv

(* One that has been moved is the one that stands there.                   *)
LEMMA MovedStands ==
  ASSUME NEW l, Len(l.from) \in Nat \ {0}, NEW s, NEW pos \in 0 .. Len(l.from), NEW x, MovedTo(l, s, x, pos)
  PROVE  x = Standing(l, s, pos, x.prev_range_upper_bound, x.last)
<1>1. PICK q \in 0 .. Count(l) - 1 : q = x.partition
  BY DEF MovedTo
<1>2. q = Target(l, pos)
  BY <1>1, TargetOnly DEF MovedTo
<1> QED
  BY <1>1, <1>2 DEF MovedTo, Standing

(* A client that reads at a position of a range.                           *)
LEMMA WalkerWalks ==
  ASSUME Readable(level, stored, sequence, parts), NEW p \in 0 .. Len(level.pointers) - 2,
         NEW pos \in Positions(RangeAt(level.pointers, p)), NEW last,
         NEW x, x = Standing(level, stored, pos, Raise(stored, RangeAt(level.pointers, p)), last)
  PROVE  Walks(level, stored, Walker(x, p))
<1> DEFINE r == RangeAt(level.pointers, p)
           w == Walker(x, p)
           y == Standing(level, stored, pos, Raise(stored, r), stored[pos + 1])
<1>0. /\ Known(level, stored) /\ r \in RangesOf(level) /\ Len(level.from) \in Nat \ {0}
      /\ Raise(stored, r) \in Nat /\ pos \in 0 .. Len(level.from) - 1 /\ pos \in 0 .. Len(level.from)
      /\ stored[pos + 1] \in Nat /\ level.from[pos + 1] \in Nat
      /\ stored[pos + 1] = level.from[pos + 1] + Raise(stored, r)
  <2>1. Known(level, stored) /\ r \in RangesOf(level) /\ Len(level.from) \in Nat \ {0}
    BY KnownFacts DEF Readable, RangesOf
  <2> QED
    BY <2>1, RangeKnown
<1>1. iterator_read(x) = y /\ iterator_value(x) = stored[pos + 1] - Raise(stored, r)
  BY <1>0, StandingValue
<1>2. iterator_value(x) = level.from[pos + 1]
  BY <1>0, <1>1
<1>3. w.iterator = y /\ w.range = p /\ w.node = level.from[pos + 1]
  BY <1>1, <1>2 DEF Walker
<1>4. y.position = pos
  BY <1>0, StandingValue
<1>5. /\ MovedTo(level, stored, y, pos) /\ y.prev_range_upper_bound = Raise(stored, r)
      /\ y.last = stored[pos + 1]
  BY <1>0, MovedAt
<1> HIDE DEF w, y
<1> QED
  BY <1>3, <1>4, <1>5 DEF Walks, w

(* A client that begins a walk is at the first position of a range.        *)
LEMMA WalkKeeps ==
  ASSUME SearchInv, NEW p \in 0 .. Len(level.pointers) - 2, Walk(p)
  PROVE  SearchInv'
<1> DEFINE r == RangeAt(level.pointers, p)
<1>0. /\ Readable(level, stored, sequence, parts) /\ Known(level, stored)
      /\ Settled(level, stored, m_it) /\ r \in RangesOf(level) /\ result \in Int
  BY DEF SearchInv, Readable, RangesOf
<1>1. /\ level' = level /\ stored' = stored /\ sequence' = sequence /\ parts' = parts
      /\ pc' = "walking" /\ result' = result /\ m_it' = to_bound(m_it, r)
      /\ walker' = Walker(iterator(r.begin, bound(m_it, r)), p)
  BY DEF Walk, built
<1>2. Settled(level, stored, m_it') /\ bound(m_it, r) = Raise(stored, r)
  BY <1>0, <1>1, BoundMoved
<1>3. r.begin \in Positions(r) /\ r.begin \in 0 .. Len(level.from)
  <2>1. r.begin \in Nat /\ r.end \in Nat /\ r.begin < r.end /\ r.end <= Len(level.from)
    BY <1>0, RangeKnown
  <2>2. Len(level.from) \in Nat
    BY <1>0, KnownFacts
  <2> QED
    BY <2>1, <2>2 DEF Positions
<1>4. Count(level) > 1 => Walks(level, stored, walker')
  <2>1. ASSUME Count(level) > 1 PROVE walker' = Walker(Standing(level, stored, r.begin, Raise(stored, r), 0), p)
    BY <1>0, <1>1, <1>2, <1>3, <2>1, IteratorMade
  <2> QED
    BY <1>0, <1>3, <2>1, WalkerWalks
<1>5. AccessGivesNode' /\ FindsExactly'
  BY <1>1 DEF AccessGivesNode, FindsExactly
<1> QED
  BY <1>0, <1>1, <1>2, <1>4, <1>5 DEF SearchInv

(* next goes on in the range, or to the first position of the next one.    *)
LEMMA StepKeeps ==
  ASSUME SearchInv, Step
  PROVE  SearchInv'
<1>0. /\ Readable(level, stored, sequence, parts) /\ Known(level, stored)
      /\ Settled(level, stored, m_it) /\ result \in Int /\ Len(level.from) \in Nat \ {0}
  BY KnownFacts DEF SearchInv, Readable
<1>1. /\ level' = level /\ stored' = stored /\ sequence' = sequence /\ parts' = parts
      /\ pc' = "walking" /\ pc = "walking" /\ result' = result /\ m_it' = m_it
      /\ walker.iterator.position + 1 < Len(level.from)
      /\ walker' = LET x == iterator_next(walker.iterator) IN
                   IF x.position = RangeAt(level.pointers, walker.range).end
                   THEN Walker(iterator_switch_range(x), walker.range + 1)
                   ELSE Walker(x, walker.range)
  BY DEF Step, built, m_size
<1>2. ASSUME Count(level) > 1 PROVE Walks(level, stored, walker')
  <2> DEFINE x == iterator_next(walker.iterator)
             y == walker.iterator
  <2>0. Walks(level, stored, walker)
    BY <1>1, <1>2 DEF SearchInv
  <2>1. PICK p \in 0 .. Len(level.pointers) - 2 : p = walker.range
    BY <2>0 DEF Walks
  <2> DEFINE r == RangeAt(level.pointers, p)
  <2>2. PICK pos \in Positions(r) : pos = y.position
    BY <2>0, <2>1 DEF Walks
  <2>3. r \in RangesOf(level)
    BY DEF RangesOf
  <2>4. /\ r.begin \in Nat /\ r.end \in Nat /\ r.begin < r.end /\ r.end <= Len(level.from)
        /\ pos \in 0 .. Len(level.from) - 1 /\ pos \in Nat /\ r.begin <= pos /\ pos < r.end
        /\ pos \in 0 .. Len(level.from) /\ pos + 1 < Len(level.from)
    <3>1. r.begin \in Nat /\ r.end \in Nat /\ r.begin < r.end /\ r.end <= Len(level.from)
      BY <1>0, <2>3, RangeKnown
    <3>2. pos \in r.begin .. r.end - 1
      BY DEF Positions
    <3> QED
      BY <1>0, <1>1, <2>2, <3>1, <3>2
  <2>5. y = Standing(level, stored, pos, Raise(stored, r), stored[pos + 1])
    <3>1. /\ MovedTo(level, stored, y, pos) /\ y.prev_range_upper_bound = Raise(stored, r)
          /\ y.last = stored[pos + 1]
      BY <2>0, <2>1, <2>2 DEF Walks
    <3> QED
      BY <1>0, <2>4, <3>1, MovedStands
  <2>6. x = Standing(level, stored, pos + 1, Raise(stored, r), stored[pos + 1])
    BY <1>0, <2>4, <2>5, NextAt
  <2> HIDE DEF x, y
  <2>7. pos + 1 \in 0 .. Len(level.from) - 1
    BY <1>0, <2>4
  <2>8. Raise(stored, r) \in Nat
    BY <1>0, <2>3, RangeKnown
  <2>9. /\ x.position = pos + 1
        /\ iterator_switch_range(x) = Standing(level, stored, pos + 1, stored[pos + 1], stored[pos + 1])
    BY <1>0, <2>6, <2>7, <2>8, StandingValue
  <2>10. walker' = IF pos + 1 = r.end THEN Walker(iterator_switch_range(x), p + 1) ELSE Walker(x, p)
    BY <1>1, <2>1, <2>9 DEF x
  <2>11. CASE pos + 1 # r.end
    <3>1. pos + 1 \in Positions(r)
      BY <2>4, <2>11 DEF Positions
    <3> QED
      BY <1>0, <2>6, <2>10, <2>11, <3>1, WalkerWalks
  <2>12. CASE pos + 1 = r.end
    <3> DEFINE t == RangeAt(level.pointers, p + 1)
    <3>1. /\ Len(level.pointers) \in Nat \ {0, 1}
          /\ level.pointers[Len(level.pointers)] = Len(level.from)
      BY <1>0, KnownFacts, PointerFacts
    <3>2. r.end = level.pointers[p + 2] /\ t.begin = level.pointers[(p + 1) + 1]
      BY DEF RangeAt
    <3>3. p + 1 \in 0 .. Len(level.pointers) - 2
      <4>1. p + 2 # Len(level.pointers)
        BY <2>4, <2>12, <3>1, <3>2
      <4> QED
        BY <3>1, <4>1
    <3>4. t.begin = pos + 1
      <4>1. (p + 1) + 1 = p + 2
        BY <3>1
      <4> QED
        BY <2>12, <3>2, <4>1
    <3>5. t \in RangesOf(level)
      BY <3>3 DEF RangesOf
    <3>6. t.begin \in Nat /\ t.end \in Nat /\ t.begin < t.end
      BY <1>0, <3>5, RangeKnown
    <3>7. pos + 1 \in Positions(t)
      BY <3>4, <3>6 DEF Positions
    <3>8. Raise(stored, t) = stored[pos + 1]
      BY <2>4, <3>4 DEF Raise
    <3>9. iterator_switch_range(x) = Standing(level, stored, pos + 1, Raise(stored, t), stored[pos + 1])
      BY <2>9, <3>8
    <3>10. walker' = Walker(iterator_switch_range(x), p + 1)
      BY <2>10, <2>12
    <3> QED
      BY <1>0, <3>3, <3>7, <3>9, <3>10, WalkerWalks
  <2> QED
    BY <2>11, <2>12
<1>3. AccessGivesNode' /\ FindsExactly'
  BY <1>1 DEF AccessGivesNode, FindsExactly
<1> QED
  BY <1>0, <1>1, <1>2, <1>3 DEF SearchInv

(* A walk or a call that ends leaves the iterator where it is.             *)
LEMMA StopKeeps ==
  ASSUME SearchInv, Stop \/ Return
  PROVE  SearchInv'
<1>1. /\ level' = level /\ stored' = stored /\ sequence' = sequence /\ parts' = parts
      /\ pc' = "idle" /\ m_it' = m_it /\ result' \in Int
  <2>1. garbage \in Int
    BY DEF garbage
  <2> QED
    BY <2>1 DEF Stop, Return, built, SearchInv
<1>2. AccessGivesNode' /\ FindsExactly'
  BY <1>1 DEF AccessGivesNode, FindsExactly
<1> QED
  BY <1>1, <1>2 DEF SearchInv

-----------------------------------------------------------------------------
(* What is known while find searches.                                      *)
LEMMA SearchKnown ==
  ASSUME NEW l, NEW s, Known(l, s), NEW c, LooksFor(l, s, c)
  PROVE  /\ c.range \in RangesOf(l) /\ c.range.begin \in Nat /\ c.range.end \in Nat
         /\ c.range.begin < c.range.end /\ c.range.end <= Len(l.from)
         /\ c.lower_bound \in Nat /\ c.partition_end \in 0 .. Count(l)
         /\ c.partition_end * partition_size \in Nat
         /\ c.partition_end * partition_size <= c.range.end
         /\ c.range.end < c.partition_end * partition_size + partition_size
         /\ \A pos \in Positions(c.range) :
              s[pos + 1] = c.lower_bound => find(l.from, c.range, c.id) = pos
         /\ (\A pos \in Positions(c.range) : s[pos + 1] # c.lower_bound)
              => find(l.from, c.range, c.id) = not_found
<1> DEFINE r == c.range
<1>1. /\ r \in RangesOf(l) /\ c.id \in Nat /\ c.lower_bound = c.id + Raise(s, r)
      /\ c.partition_end = r.end \div partition_size
  BY DEF LooksFor
<1> HIDE DEF r
<1>2. /\ r.begin \in Nat /\ r.end \in Nat /\ r.begin < r.end /\ r.end <= Len(l.from)
      /\ Raise(s, r) \in Nat /\ Len(l.from) \in Nat \ {0}
  BY <1>1, RangeKnown, KnownFacts
<1>3. r.end \in 0 .. Len(l.from)
  BY <1>2
<1>4. /\ c.partition_end \in 0 .. Count(l) /\ c.partition_end * partition_size \in Nat
      /\ c.partition_end * partition_size <= r.end
      /\ r.end < c.partition_end * partition_size + partition_size
  BY <1>1, <1>2, <1>3, Cut
<1>5. /\ \A pos \in Positions(r) : s[pos + 1] = c.lower_bound => find(l.from, r, c.id) = pos
      /\ (\A pos \in Positions(r) : s[pos + 1] # c.lower_bound) => find(l.from, r, c.id) = not_found
  BY <1>1, FindKnown
<1>6. c.lower_bound \in Nat
  BY <1>1, <1>2
<1> QED
  BY <1>1, <1>2, <1>4, <1>5, <1>6 DEF r

(* A range that is searched has two values, and so none is tight.          *)
LEMMA TopKnown ==
  ASSUME NEW l, NEW s, Known(l, s), NEW c, LooksFor(l, s, c)
  PROVE  \A q : Top(l, s, q) = Bound(l, s, q + 1)
<1> DEFINE r == c.range
<1>1. /\ r \in RangesOf(l) /\ Length(r) > linear_scan_threshold /\ linear_scan_threshold \in Nat \ {0}
  BY PefAssumption DEF LooksFor
<1>2. /\ r.begin \in Nat /\ r.end \in Nat /\ r.begin + 1 < r.end /\ r.end <= Len(l.from)
      /\ Len(l.from) \in Nat \ {0}
  <2>1. r.begin \in Nat /\ r.end \in Nat /\ r.end <= Len(l.from) /\ Len(l.from) \in Nat \ {0}
    BY <1>1, RangeKnown, KnownFacts
  <2> QED
    BY <1>1, <2>1 DEF Length
<1> HIDE DEF r
<1>3. s[r.begin + 1] < s[(r.begin + 1) + 1]
  <2>1. r.begin \in Positions(r) /\ r.begin + 1 \in Positions(r) /\ r.begin < r.begin + 1
    BY <1>2 DEF Positions
  <2> QED
    BY <1>1, <2>1, RangeKnown
<1>4. /\ 1 \in 1 .. Len(l.from) /\ r.begin + 1 \in 1 .. Len(l.from)
      /\ (r.begin + 1) + 1 \in 1 .. Len(l.from) /\ Len(l.from) \in 1 .. Len(l.from)
      /\ 1 <= r.begin + 1 /\ (r.begin + 1) + 1 <= Len(l.from)
  BY <1>2
<1>5. s[1] <= s[r.begin + 1] /\ s[(r.begin + 1) + 1] <= s[Len(l.from)]
  BY <1>4, KnownFacts
<1>6. s[1] \in Nat /\ s[r.begin + 1] \in Nat /\ s[(r.begin + 1) + 1] \in Nat /\ s[Len(l.from)] \in Nat
  BY <1>4, KnownFacts
<1>7. s[Len(l.from)] # s[1]
  BY <1>3, <1>5, <1>6
<1> QED
  BY <1>7 DEF Top, Tight

(* What find answers is what it promises.                                  *)
LEMMA AnswerKeeps ==
  ASSUME SearchInv, LooksFor(level, stored, call), UNCHANGED <<built, call>>, pc' = "answered",
         Settled(level, stored, m_it'), result' = find(level.from, call.range, call.id)
  PROVE  SearchInv'
<1>0. Known(level, stored)
  BY DEF SearchInv, Readable
<1>1. result' \in Int
  <2>1. /\ \A pos \in Positions(call.range) : pos \in Int
    BY <1>0, SearchKnown DEF Positions
  <2>2. \/ \E pos \in Positions(call.range) : result' = pos
        \/ result' = not_found
    BY <1>0, SearchKnown
  <2> QED
    BY <2>1, <2>2 DEF not_found
<1>2. /\ level' = level /\ stored' = stored /\ sequence' = sequence /\ parts' = parts
      /\ call' = call
  BY DEF built
<1>3. call.op = "find"
  BY DEF LooksFor
<1>4. AccessGivesNode' /\ FindsExactly'
  BY <1>2, <1>3 DEF AccessGivesNode, FindsExactly
<1> QED
  BY <1>1, <1>2, <1>4 DEF SearchInv

(* The bound is above all values.                                          *)
LEMMA PastTheEndAnswers ==
  ASSUME SearchInv, LooksFor(level, stored, call), UNCHANGED <<built, call>>, PastTheEnd,
         stored[Len(level.from)] < call.lower_bound
  PROVE  SearchInv'
<1>0. /\ Readable(level, stored, sequence, parts) /\ Known(level, stored) /\ Settled(level, stored, m_it)
      /\ Len(level.from) \in Nat \ {0}
  BY KnownFacts DEF SearchInv, Readable
<1> DEFINE N == Len(level.from)
<1>1. N \in 0 .. N /\ N \in 1 .. N
  BY <1>0
<1>2. stored[N] \in Nat /\ call.lower_bound \in Nat
  BY <1>0, <1>1, KnownFacts, SearchKnown
<1>3. pc' = "answered" /\ m_it' = move(m_it, N) /\ result' = not_found
  <2>1. m_universe # call.lower_bound
    BY <1>2 DEF m_universe, m_size
  <2> QED
    BY <2>1 DEF PastTheEnd, Answer, m_size
<1>4. Settled(level, stored, m_it')
  <2>1. MovedTo(level, stored, m_it', N)
    BY <1>0, <1>1, <1>3, Moves
  <2> QED
    BY <1>0, <1>1, <2>1, MovedKnown
<1>5. ASSUME NEW pos \in Positions(call.range) PROVE stored[pos + 1] # call.lower_bound
  <2>1. call.range \in RangesOf(level)
    BY <1>0, SearchKnown
  <2>2. pos + 1 \in 1 .. N /\ stored[pos + 1] \in Nat
    BY <1>0, <2>1, RangeKnown
  <2>3. stored[pos + 1] <= stored[N]
    <3>1. pos + 1 <= N
      BY <1>0, <2>2
    <3> QED
      BY <1>0, <1>1, <2>2, <3>1, KnownFacts
  <2> QED
    BY <1>2, <2>2, <2>3
<1>6. find(level.from, call.range, call.id) = not_found
  BY <1>0, <1>5, SearchKnown
<1> QED
  BY <1>3, <1>4, <1>6, AnswerKeeps

(* It goes on in the partition of the bound.                               *)
LEMMA SwitchKeeps ==
  ASSUME SearchInv, LooksFor(level, stored, call), UNCHANGED <<built, call, result>>, Count(level) > 1,
         NEW q \in 0 .. Count(level) - 1, m_it' = switch_partition(m_it, q), pc' = "searching",
         Bound(level, stored, q) < call.lower_bound,
         stored[call.range.begin + 1] < call.lower_bound,
         call.lower_bound <= Bound(level, stored, q + 1) \/ q = call.partition_end + 1
  PROVE  SearchInv'
<1>0. Readable(level, stored, sequence, parts) /\ Settled(level, stored, m_it) /\ result \in Int
  BY DEF SearchInv
<1>1. /\ level' = level /\ stored' = stored /\ sequence' = sequence /\ parts' = parts
      /\ call' = call /\ result' = result
  BY DEF built
<1>2. /\ Settled(level, stored, m_it') /\ m_it'.partition = q
      /\ m_it'.enum = EnumNowhere(level, stored, q)
  BY <1>0, Switches
<1>3. Searches(level, stored, call, m_it')
  BY <1>2 DEF Searches, Narrowed
<1>4. AccessGivesNode' /\ FindsExactly'
  BY DEF AccessGivesNode, FindsExactly
<1> QED
  BY <1>0, <1>1, <1>2, <1>3, <1>4 DEF SearchInv

(* What the changes of a search lead to.                                   *)
LEMMA LoUpdated ==
  ASSUME NEW r, NEW id, NEW lower_bound, NEW partition_end, NEW lo, NEW hi, NEW a
  PROVE  [Search(r, id, lower_bound, partition_end, lo, hi) EXCEPT !.lo = a]
           = Search(r, id, lower_bound, partition_end, a, hi)
  BY DEF Search

LEMMA HiUpdated ==
  ASSUME NEW r, NEW id, NEW lower_bound, NEW partition_end, NEW lo, NEW hi, NEW b
  PROVE  [Search(r, id, lower_bound, partition_end, lo, hi) EXCEPT !.hi = b]
           = Search(r, id, lower_bound, partition_end, lo, b)
  BY DEF Search

(* A search with other ends looks for the same.                            *)
LEMMA SameSearch ==
  ASSUME NEW l, NEW s, NEW c, LooksFor(l, s, c), NEW lo, NEW hi, NEW d,
         d = Search(c.range, c.id, c.lower_bound, c.partition_end, lo, hi)
  PROVE  /\ LooksFor(l, s, d) /\ d.range = c.range /\ d.lower_bound = c.lower_bound
         /\ d.partition_end = c.partition_end /\ d.lo = lo /\ d.hi = hi
<1>1. /\ d.range = c.range /\ d.id = c.id /\ d.lower_bound = c.lower_bound /\ d.op = "find"
      /\ d.partition_end = c.partition_end /\ d.lo = lo /\ d.hi = hi
  BY DEF Search
<1> QED
  BY <1>1 DEF LooksFor

(* The values on both sides of a partition's ends.                         *)
LEMMA Beside ==
  ASSUME NEW l, NEW s, Known(l, s), NEW q \in 0 .. Count(l) - 1, NEW pos \in 0 .. Len(l.from) - 1
  PROVE  /\ pos < q * partition_size => s[pos + 1] <= Bound(l, s, q)
         /\ q * partition_size <= pos => Bound(l, s, q) <= s[pos + 1]
         /\ pos < End(l, q) => s[pos + 1] <= Bound(l, s, q + 1)
         /\ End(l, q) <= pos + 1 => Bound(l, s, q + 1) <= s[pos + 1]
<1>0. /\ Len(l.from) \in Nat \ {0} /\ Count(l) \in Nat \ {0} /\ q \in Nat
      /\ q * partition_size \in Nat /\ End(l, q) \in Nat /\ partition_size \in Nat
      /\ q * partition_size < End(l, q) /\ End(l, q) <= Len(l.from)
  BY KnownFacts, Cut, PartitionSize
<1>1. PICK b \in Nat : b = q * partition_size
  BY <1>0
<1>2. PICK e \in Nat : e = End(l, q)
  BY <1>0
<1>3. \A i, j \in 1 .. Len(l.from) : i <= j => s[i] <= s[j]
  BY KnownFacts
<1>4. pos + 1 \in 1 .. Len(l.from) /\ e \in 1 .. Len(l.from) /\ b + 1 \in 1 .. Len(l.from)
      /\ (b # 0 => b \in 1 .. Len(l.from))
  BY <1>0, <1>1, <1>2
<1>5. Bound(l, s, q + 1) = s[e]
  BY <1>2, BoundsKnown
<1>6. Bound(l, s, q) <= s[b + 1]
  <2>1. b \in q * partition_size .. End(l, q) - 1
    BY <1>0, <1>1
  <2> QED
    BY <2>1, BoundsKnown
<1>7. b # 0 => Bound(l, s, q) = s[b]
  <2>1. b # 0 => q # 0
    BY <1>0, <1>1
  <2> QED
    BY <1>1, <2>1, BoundsKnown
<1>8. pos < b => s[pos + 1] <= Bound(l, s, q)
  BY <1>3, <1>4, <1>7
<1>9. b <= pos => Bound(l, s, q) <= s[pos + 1]
  <2>1. b <= pos => s[b + 1] <= s[pos + 1]
    BY <1>3, <1>4
  <2>2. s[b + 1] \in Nat /\ s[pos + 1] \in Nat
    BY <1>4, KnownFacts
  <2>3. Bound(l, s, q) \in Nat
    BY <1>0, BoundsKnown
  <2> QED
    BY <1>6, <2>1, <2>2, <2>3
<1>10. pos < e => s[pos + 1] <= s[e]
  BY <1>3, <1>4
<1>11. e <= pos + 1 => s[e] <= s[pos + 1]
  BY <1>3, <1>4
<1> QED
  BY <1>1, <1>2, <1>5, <1>8, <1>9, <1>10, <1>11

(* A partition after that of the range's end.                              *)
LEMMA PastRange ==
  ASSUME NEW l, NEW s, Known(l, s), NEW c, LooksFor(l, s, c), NEW q \in 0 .. Count(l) - 1,
         q > c.partition_end
  PROVE  c.range.end < q * partition_size
<1>0. /\ c.range.end \in Nat /\ c.partition_end \in Nat
      /\ c.partition_end * partition_size \in Nat
      /\ c.range.end < c.partition_end * partition_size + partition_size
      /\ Count(l) \in Nat \ {0} /\ partition_size \in Nat \ {0} /\ q \in Nat
      /\ q * partition_size \in Nat
  <2>1. /\ Len(l.from) \in Nat \ {0} /\ Count(l) \in Nat \ {0} /\ partition_size \in Nat \ {0}
        /\ q * partition_size \in Nat
    BY KnownFacts, Cut, PartitionSize
  <2>2. /\ c.range.end \in Nat /\ c.partition_end \in 0 .. Count(l)
        /\ c.partition_end * partition_size \in Nat
        /\ c.range.end < c.partition_end * partition_size + partition_size
    BY SearchKnown
  <2> QED
    BY <2>1, <2>2
<1>1. PICK p \in 0 .. Count(l) - 1 : p = c.partition_end /\ p < q
  BY <1>0
<1>2. /\ End(l, p) <= q * partition_size /\ p \in Nat
      /\ p + 1 < Count(l) => End(l, p) = (p + 1) * partition_size
  BY <1>1, KnownFacts, Cut
<1>3. p + 1 < Count(l)
  BY <1>0, <1>1, <1>2
<1>4. (p + 1) * partition_size = p * partition_size + partition_size
  <2>1. PICK P \in Nat : P = partition_size
    BY <1>0
  <2>2. (p + 1) * P = p * P + P
    BY <1>2
  <2> QED
    BY <2>1, <2>2
<1>5. PICK d \in Nat : d = q * partition_size
  BY <1>0
<1>6. PICK e \in Nat : e = p * partition_size
  BY <1>0, <1>1
<1> QED
  BY <1>0, <1>1, <1>2, <1>3, <1>4, <1>5, <1>6

(* The partition that is at hand while find searches in it.                *)
LEMMA AtHand ==
  ASSUME SearchInv, pc = "searching"
  PROVE  LET q == m_it.partition IN
         /\ Readable(level, stored, sequence, parts) /\ Known(level, stored)
         /\ LooksFor(level, stored, call)
         /\ Len(level.from) \in Nat \ {0} /\ Count(level) \in Nat \ {0}
         /\ q \in 0 .. Count(level) - 1 /\ q * partition_size \in Nat /\ End(level, q) \in Nat
         /\ q * partition_size < End(level, q) /\ End(level, q) <= Len(level.from)
         /\ m_it.begin = q * partition_size
         /\ m_it.base = Bound(level, stored, q) /\ m_it.upper_bound = Bound(level, stored, q + 1)
         /\ Bound(level, stored, q) \in Nat /\ Bound(level, stored, q + 1) \in Nat
         /\ call.range.begin \in Positions(call.range)
         /\ \A pos \in Positions(call.range) : /\ pos \in 0 .. Len(level.from) - 1
                                              /\ stored[pos + 1] \in Nat
                                              /\ call.range.begin <= pos /\ pos < call.range.end
                                              /\ stored[call.range.begin + 1] <= stored[pos + 1]
         /\ \/ /\ q * partition_size <= call.range.begin /\ call.range.begin < End(level, q)
               /\ m_it.enum = EnumAt(level, stored, q, call.range.begin - q * partition_size)
               /\ MovedTo(level, stored, m_it, call.range.begin)
            \/ Narrowed(level, stored, call, m_it)
<1> DEFINE q == m_it.partition
           r == call.range
<1>0. /\ Readable(level, stored, sequence, parts) /\ Known(level, stored)
      /\ LooksFor(level, stored, call) /\ Searches(level, stored, call, m_it)
      /\ Settled(level, stored, m_it) /\ Len(level.from) \in Nat \ {0} /\ Count(level) \in Nat \ {0}
  BY KnownFacts, Cut DEF SearchInv, Readable
<1>1. /\ q \in 0 .. Count(level) - 1 /\ q \in Nat /\ q \in 0 .. Count(level) /\ q + 1 \in 0 .. Count(level)
      /\ m_it = IteratorOn(level, stored, q, m_it.position, m_it.enum, m_it.prev_range_upper_bound, m_it.last)
  BY <1>0 DEF Settled
<1>2. /\ q * partition_size \in Nat /\ End(level, q) \in Nat
      /\ q * partition_size < End(level, q) /\ End(level, q) <= Len(level.from)
      /\ q + 1 = Count(level) => End(level, q) = Len(level.from)
  BY <1>0, <1>1, Cut
<1>3. /\ m_it.begin = q * partition_size /\ m_it.base = Bound(level, stored, q)
      /\ m_it.upper_bound = Bound(level, stored, q + 1)
  <2>1. m_it.begin = q * partition_size /\ m_it.base = Bound(level, stored, q)
        /\ m_it.upper_bound = Top(level, stored, q)
    <3> HIDE DEF q
    <3> QED
      BY <1>1, IteratorParts
  <2> QED
    BY <1>0, <2>1, TopKnown
<1>4. Bound(level, stored, q) \in Nat /\ Bound(level, stored, q + 1) \in Nat
  BY <1>0, <1>1, BoundsKnown
<1>5. r \in RangesOf(level) /\ r.begin \in Nat /\ r.end \in Nat /\ r.begin < r.end /\ r.end <= Len(level.from)
  BY <1>0, SearchKnown
<1>6. r.begin \in Positions(r) /\ \A pos \in Positions(r) : r.begin <= pos /\ pos < r.end /\ pos \in Int
  BY <1>5 DEF Positions
<1>7. ASSUME NEW pos \in Positions(r)
      PROVE  /\ pos \in 0 .. Len(level.from) - 1 /\ stored[pos + 1] \in Nat
             /\ stored[r.begin + 1] <= stored[pos + 1]
  <2>1. /\ pos \in 0 .. Len(level.from) - 1 /\ stored[pos + 1] \in Nat
        /\ pos + 1 \in 1 .. Len(level.from) /\ r.begin + 1 \in 1 .. Len(level.from)
    BY <1>0, <1>5, <1>6, RangeKnown
  <2>2. r.begin + 1 <= pos + 1
    BY <1>5, <1>6
  <2> QED
    BY <1>0, <2>1, <2>2, KnownFacts
<1>8. ASSUME MovedTo(level, stored, m_it, r.begin)
      PROVE  /\ q * partition_size <= r.begin /\ r.begin < End(level, q)
             /\ m_it.enum = EnumAt(level, stored, q, r.begin - q * partition_size)
  <2>1. /\ q * partition_size <= r.begin
        /\ r.begin < End(level, q) \/ (r.begin = Len(level.from) /\ q = Count(level) - 1)
        /\ m_it = IteratorOn(level, stored, q, r.begin, EnumAt(level, stored, q, r.begin - q * partition_size),
                             m_it.prev_range_upper_bound, m_it.last)
    BY <1>8 DEF MovedTo
  <2> HIDE DEF q
  <2>2. m_it.enum = EnumAt(level, stored, q, r.begin - q * partition_size)
    BY <2>1, IteratorParts
  <2> QED
    BY <1>5, <2>1, <2>2
<1>9. MovedTo(level, stored, m_it, r.begin) \/ Narrowed(level, stored, call, m_it)
  BY <1>0 DEF Searches
<1> QED
  BY <1>0, <1>1, <1>2, <1>3, <1>4, <1>6, <1>7, <1>8, <1>9

(* Out of the bounds there is nothing to find.                             *)
LEMMA OutOfBoundsKeeps ==
  ASSUME SearchInv, NextGeqOutOfBounds
  PROVE  SearchInv'
<1> DEFINE q == m_it.partition
           r == call.range
           lb == call.lower_bound
           low == Bound(level, stored, q)
<1>0. /\ pc = "searching" /\ pc' = "answered" /\ result' = not_found /\ UNCHANGED <<built, call>>
      /\ m_it' = m_it /\ OutOfBounds
  BY DEF NextGeqOutOfBounds, Answer
<1>1. /\ Known(level, stored) /\ LooksFor(level, stored, call)
      /\ q \in 0 .. Count(level) - 1 /\ q * partition_size \in Nat
      /\ m_it.base = low /\ low \in Nat /\ r.begin \in Positions(r)
      /\ \A pos \in Positions(r) : /\ pos \in 0 .. Len(level.from) - 1 /\ stored[pos + 1] \in Nat
                                   /\ pos < r.end /\ stored[r.begin + 1] <= stored[pos + 1]
  BY <1>0, AtHand
<1>2. \/ q * partition_size <= r.begin
      \/ low < lb
  BY <1>0, AtHand DEF Narrowed
<1>3. q > call.partition_end \/ lb < low
  BY <1>0, <1>1 DEF OutOfBounds
<1>4. lb \in Nat /\ r.begin \in Nat /\ r.end \in Nat /\ r.begin < r.end
  BY <1>1, SearchKnown
<1>5. q > call.partition_end => r.end < q * partition_size
  BY <1>1, PastRange
<1> HIDE DEF q, r, lb, low
<1>6. PICK b \in Nat : b = q * partition_size
  BY <1>1
<1>7. ASSUME NEW pos \in Positions(r) PROVE stored[pos + 1] # lb
  <2>0. pos \in 0 .. Len(level.from) - 1 /\ stored[pos + 1] \in Nat /\ pos \in Int
        /\ pos < r.end /\ stored[r.begin + 1] <= stored[pos + 1]
        /\ r.begin \in 0 .. Len(level.from) - 1 /\ stored[r.begin + 1] \in Nat
    BY <1>1
  <2>1. CASE q > call.partition_end
    <3>1. low < lb
      BY <1>2, <1>4, <1>5, <1>6, <2>1
    <3>2. pos < q * partition_size
      BY <1>4, <1>5, <1>6, <2>0, <2>1
    <3>3. stored[pos + 1] <= low
      BY <1>1, <2>0, <3>2, Beside DEF low
    <3> QED
      BY <1>1, <1>4, <2>0, <3>1, <3>3
  <2>2. CASE lb < low
    <3>1. q * partition_size <= r.begin
      BY <1>1, <1>2, <1>4, <2>2
    <3>2. low <= stored[r.begin + 1]
      BY <1>1, <2>0, <3>1, Beside DEF low
    <3> QED
      BY <1>1, <1>4, <2>0, <2>2, <3>2
  <2> QED
    BY <1>3, <2>1, <2>2
<1>8. find(level.from, call.range, call.id) = not_found
  BY <1>1, <1>7, SearchKnown DEF r, lb
<1>9. Settled(level, stored, m_it')
  BY <1>0 DEF SearchInv
<1> QED
  BY <1>0, <1>1, <1>8, <1>9, AnswerKeeps

(* slow_next_geq gives up past the last value, or begins to bisect.        *)
LEMMA SlowNextGeqKeeps ==
  ASSUME SearchInv, SlowNextGeq
  PROVE  SearchInv'
<1> DEFINE q == m_it.partition
           r == call.range
           lb == call.lower_bound
           low == Bound(level, stored, q)
           high == Bound(level, stored, q + 1)
<1>0. /\ pc = "searching" /\ UNCHANGED built /\ ~ OutOfBounds /\ ~ InPartition
      /\ \/ m_partitions = 1 /\ PastTheEnd /\ UNCHANGED call
         \/ /\ m_partitions # 1 /\ pc' = "bisecting" /\ UNCHANGED <<m_it, result>>
            /\ call' = [call EXCEPT !.lo = m_it.partition + 1, !.hi = call.partition_end + 1]
  BY DEF SlowNextGeq
<1>1. /\ Known(level, stored) /\ LooksFor(level, stored, call) /\ Count(level) \in Nat \ {0}
      /\ q \in 0 .. Count(level) - 1 /\ m_it.base = low /\ m_it.upper_bound = high
      /\ low \in Nat /\ high \in Nat /\ Len(level.from) \in Nat
      /\ r.begin \in Positions(r) /\ r.begin \in 0 .. Len(level.from) - 1 /\ stored[r.begin + 1] \in Nat
  BY <1>0, AtHand
<1>2. \/ r.begin < End(level, q)
      \/ lb <= high \/ q = call.partition_end + 1
  BY <1>0, AtHand DEF Narrowed
<1>3. lb \in Nat /\ call.partition_end \in Nat
  <2>1. lb \in Nat /\ call.partition_end \in 0 .. Count(level)
    BY <1>1, SearchKnown
  <2> QED
    BY <2>1
<1>4. q <= call.partition_end /\ low <= lb /\ high < lb
  BY <1>0, <1>1, <1>3 DEF OutOfBounds, InPartition
<1>5. m_partitions = Count(level)
  BY DEF m_partitions, m_size, Count
<1>6. CASE m_partitions = 1
  <2>1. q = 0 /\ high = stored[Len(level.from)]
    <3>1. q = 0 /\ q + 1 = Count(level)
      BY <1>1, <1>5, <1>6
    <3> QED
      BY <1>1, <3>1, BoundsKnown
  <2> QED
    BY <1>0, <1>1, <1>4, <1>6, <2>1, PastTheEndAnswers
<1>7. CASE m_partitions # 1
  <2>1. Count(level) > 1
    BY <1>1, <1>5, <1>7
  <2>2. call' = Search(r, call.id, lb, call.partition_end, q + 1, call.partition_end + 1)
    <3>1. call = Search(r, call.id, lb, call.partition_end, call.lo, call.hi)
      BY <1>1 DEF LooksFor
    <3>2. call' = [call EXCEPT !.lo = q + 1, !.hi = call.partition_end + 1]
      BY <1>0, <1>7
    <3> DEFINE a == q + 1
               b == call.partition_end + 1
               lo == call.lo
               hi == call.hi
               id == call.id
               pe == call.partition_end
    <3>3. call' = [call EXCEPT !.lo = a, !.hi = b] /\ call = Search(r, id, lb, pe, lo, hi)
      BY <3>1, <3>2
    <3> HIDE DEF q, r, lb, a, b, lo, hi, id, pe
    <3>4. call' = [Search(r, id, lb, pe, lo, hi) EXCEPT !.lo = a, !.hi = b]
      BY <3>3
    <3>5. [Search(r, id, lb, pe, lo, hi) EXCEPT !.lo = a, !.hi = b] = Search(r, id, lb, pe, a, b)
      <4> DEFINE x == Search(r, id, lb, pe, lo, hi)
                 y == Search(r, id, lb, pe, a, hi)
      <4>1. [x EXCEPT !.lo = a, !.hi = b] = [[x EXCEPT !.lo = a] EXCEPT !.hi = b]
        <5> HIDE DEF x
        <5> QED
          OBVIOUS
      <4>2. [x EXCEPT !.lo = a] = y
        BY LoUpdated
      <4>3. [y EXCEPT !.hi = b] = Search(r, id, lb, pe, a, b)
        BY HiUpdated
      <4> HIDE DEF x, y
      <4>4. [x EXCEPT !.lo = a, !.hi = b] = Search(r, id, lb, pe, a, b)
        BY <4>1, <4>2, <4>3
      <4> QED
        BY <4>4 DEF x
    <3>6. call' = Search(r, id, lb, pe, a, b)
      BY <3>4, <3>5
    <3> QED
      BY <3>6 DEF a, b, id, pe
  <2> HIDE DEF q, r, lb, low, high
  <2>3. /\ LooksFor(level, stored, call') /\ call'.range = r /\ call'.lower_bound = lb
        /\ call'.partition_end = call.partition_end /\ call'.lo = q + 1 /\ call'.hi = call.partition_end + 1
    <3>1. call' = Search(call.range, call.id, call.lower_bound, call.partition_end,
                         q + 1, call.partition_end + 1)
      BY <2>2 DEF r, lb
    <3>2. LooksFor(level, stored, call)
      BY <1>1
    <3> HIDE DEF Search
    <3> QED
      BY <3>1, <3>2, SameSearch DEF r, lb
  <2>4. stored[r.begin + 1] <= high
    <3>1. r.begin < End(level, q)
      BY <1>1, <1>2, <1>3, <1>4
    <3> QED
      BY <1>1, <3>1, Beside DEF high
  <2>5. low <= high
    <3>1. q \in 0 .. Count(level) /\ q + 1 \in 0 .. Count(level) /\ q <= q + 1
      BY <1>1
    <3> QED
      BY <1>1, <3>1, BoundsKnown DEF low, high
  <2>6. Bisects(level, stored, call')
    <3>1. (q + 1) - 1 = q /\ q + 1 \in Nat \ {0} /\ call.partition_end + 1 \in Nat
          /\ q + 1 <= call.partition_end + 1
      BY <1>1, <1>3, <1>4
    <3>2. low < lb /\ stored[r.begin + 1] < lb
      BY <1>1, <1>3, <1>4, <2>4, <2>5
    <3>3. Bound(level, stored, call'.lo - 1) < call'.lower_bound
      BY <2>3, <3>1, <3>2 DEF low
    <3> QED
      BY <2>1, <2>3, <3>1, <3>2, <3>3 DEF Bisects
  <2>7. /\ level' = level /\ stored' = stored /\ sequence' = sequence /\ parts' = parts
        /\ pc' = "bisecting" /\ m_it' = m_it /\ result' = result
    BY <1>0, <1>7 DEF built
  <2>8. AccessGivesNode' /\ FindsExactly'
    BY <2>7 DEF AccessGivesNode, FindsExactly
  <2> QED
    BY <2>3, <2>6, <2>7, <2>8 DEF SearchInv
<1> QED
  BY <1>6, <1>7

(* What is known while bsearch halves and scans.                           *)
LEMMA BisectsKnown ==
  ASSUME SearchInv, pc = "bisecting"
  PROVE  /\ Readable(level, stored, sequence, parts) /\ Known(level, stored)
         /\ LooksFor(level, stored, call) /\ Bisects(level, stored, call)
         /\ Len(level.from) \in Nat \ {0} /\ Count(level) \in Nat \ {0, 1}
         /\ call.lower_bound \in Nat /\ call.partition_end \in 0 .. Count(level)
         /\ call.lo \in Nat \ {0} /\ call.hi \in Nat
         /\ num_bounds = Count(level) + 1
         /\ \A k \in 0 .. Count(level) : /\ UpperBound(k) = Bound(level, stored, k)
                                         /\ Bound(level, stored, k) \in Nat
<1>1. /\ Readable(level, stored, sequence, parts) /\ Known(level, stored)
      /\ LooksFor(level, stored, call) /\ Bisects(level, stored, call)
  BY DEF SearchInv, Readable
<1>2. Len(level.from) \in Nat \ {0} /\ Count(level) \in Nat \ {0}
  BY <1>1, KnownFacts, Cut
<1>3. call.lower_bound \in Nat /\ call.partition_end \in 0 .. Count(level)
  BY <1>1, SearchKnown
<1>4. num_bounds = Count(level) + 1
  BY DEF num_bounds, m_partitions, m_size, Count
<1>5. Count(level) > 1 /\ call.lo \in Nat \ {0} /\ call.hi \in Nat
  BY <1>1 DEF Bisects
<1>6. \A k \in 0 .. Count(level) : /\ UpperBound(k) = Bound(level, stored, k)
                                   /\ Bound(level, stored, k) \in Nat
  BY <1>1, <1>5, BoundsKnown DEF UpperBound, Readable
<1> QED
  BY <1>1, <1>2, <1>3, <1>4, <1>5, <1>6

(* A partition has been found.                                             *)
LEMMA BisectedKeeps ==
  ASSUME SearchInv, pc = "bisecting", UNCHANGED <<built, call>>,
         NEW k \in 1 .. Count(level) + 1, Bisected(k),
         Bound(level, stored, k - 1) < call.lower_bound,
         k <= Count(level) => \/ call.lower_bound <= Bound(level, stored, k)
                              \/ k = call.partition_end + 2
  PROVE  SearchInv'
<1>0. /\ Known(level, stored) /\ LooksFor(level, stored, call)
      /\ Count(level) \in Nat \ {0, 1} /\ num_bounds = Count(level) + 1
      /\ stored[call.range.begin + 1] < call.lower_bound
      /\ call.partition_end \in 0 .. Count(level)
  BY BisectsKnown DEF Bisects
<1>1. CASE k = num_bounds
  <2>1. k - 1 = Count(level)
    BY <1>0, <1>1
  <2>2. stored[Len(level.from)] < call.lower_bound
    BY <1>0, <2>1, BoundsKnown
  <2> QED
    BY <1>0, <1>1, <2>2, PastTheEndAnswers DEF Bisected
<1>2. CASE k # num_bounds
  <2> DEFINE q == k - 1
  <2>1. q \in 0 .. Count(level) - 1 /\ q + 1 = k /\ k <= Count(level)
    BY <1>0, <1>2
  <2>2. m_it' = switch_partition(m_it, q) /\ pc' = "searching" /\ UNCHANGED result
    BY <1>2 DEF Bisected
  <2>3. Bound(level, stored, q) < call.lower_bound
    OBVIOUS
  <2>4. call.lower_bound <= Bound(level, stored, q + 1) \/ q = call.partition_end + 1
    BY <1>0, <2>1
  <2> HIDE DEF q
  <2> QED
    BY <1>0, <2>1, <2>2, <2>3, <2>4, SwitchKeeps
<1> QED
  BY <1>1, <1>2

(* The bound is that of a partition in the middle: the one before is below.*)
LEMMA BoundBefore ==
  ASSUME NEW l, NEW s, Known(l, s), NEW c, LooksFor(l, s, c), NEW k \in 2 .. c.partition_end,
         s[c.range.begin + 1] < c.lower_bound, Bound(l, s, k) = c.lower_bound
  PROVE  Bound(l, s, k - 1) < c.lower_bound
<1> DEFINE r == c.range
           lb == c.lower_bound
<1>0. /\ Len(l.from) \in Nat \ {0} /\ Count(l) \in Nat \ {0} /\ c.partition_end \in 0 .. Count(l)
      /\ r \in RangesOf(l) /\ r.begin \in Nat /\ r.end \in Nat /\ r.begin < r.end /\ r.end <= Len(l.from)
      /\ lb \in Nat
  BY KnownFacts, Cut, SearchKnown
<1>1. k \in Nat /\ k - 1 \in 0 .. Count(l) - 1 /\ k - 2 \in 0 .. Count(l) - 1 /\ (k - 2) + 1 = k - 1
      /\ (k - 1) + 1 = k /\ k - 2 < k - 1
  BY <1>0
<1>2. PICK e1 \in Nat : e1 = End(l, k - 2)
  BY <1>0, <1>1, Cut
<1>3. PICK e2 \in Nat : e2 = End(l, k - 1)
  BY <1>0, <1>1, Cut
<1>4. 0 < e1 /\ e1 < e2 /\ e2 <= Len(l.from)
  <2>1. PICK b \in Nat : b = (k - 1) * partition_size
    BY <1>0, <1>1, Cut
  <2>2. e1 <= b /\ b < e2 /\ e2 <= Len(l.from)
    BY <1>0, <1>1, <1>2, <1>3, <2>1, Cut
  <2>3. 0 < e1
    <3>1. PICK a \in Nat : a = (k - 2) * partition_size
      BY <1>0, <1>1, Cut
    <3>2. a < e1
      BY <1>0, <1>1, <1>2, <3>1, Cut
    <3> QED
      BY <3>2
  <2> QED
    BY <2>2, <2>3
<1>5. Bound(l, s, k) = s[e2] /\ Bound(l, s, k - 1) = s[e1]
  BY <1>1, <1>2, <1>3, BoundsKnown
<1>6. e2 <= r.end
  <2>1. PICK P \in Nat : P = partition_size
    BY PartitionSize
  <2>2. PICK d \in Nat : d = c.partition_end - k
    BY <1>0
  <2>3. k * P <= c.partition_end * P
    <3>1. c.partition_end = k + d
      BY <1>0, <1>1, <2>2
    <3>2. (k + d) * P = k * P + d * P
      BY <1>1
    <3>3. k * P \in Nat /\ d * P \in Nat
      BY <1>1
    <3> QED
      BY <3>1, <3>2, <3>3
  <2>4. c.partition_end * P <= r.end /\ c.partition_end * P \in Nat
    BY <2>1, SearchKnown
  <2>5. e2 <= k * P
    <3>1. e2 <= (k - 1) * P + P
      BY <1>0, <1>1, <1>3, <2>1, Cut
    <3>2. (k - 1) * P + P = k * P
      BY <1>1
    <3> QED
      BY <3>1, <3>2
  <2>6. k * P \in Nat
    BY <1>1
  <2> QED
    BY <1>0, <2>3, <2>4, <2>5, <2>6
<1>7. \A i, j \in 1 .. Len(l.from) : i <= j => s[i] <= s[j]
  BY KnownFacts
<1>8. /\ e1 \in 1 .. Len(l.from) /\ e2 \in 1 .. Len(l.from) /\ r.begin + 1 \in 1 .. Len(l.from)
      /\ s[e1] \in Nat /\ s[e2] \in Nat /\ s[r.begin + 1] \in Nat
  <2>1. e1 \in 1 .. Len(l.from) /\ e2 \in 1 .. Len(l.from) /\ r.begin + 1 \in 1 .. Len(l.from)
    BY <1>0, <1>4
  <2> QED
    BY <2>1, KnownFacts
<1>9. r.begin + 1 < e2
  <2>1. ~ (e2 <= r.begin + 1)
    <3>1. e2 <= r.begin + 1 => s[e2] <= s[r.begin + 1]
      BY <1>7, <1>8
    <3>2. s[e2] = lb /\ s[r.begin + 1] < lb
      BY <1>5
    <3> HIDE DEF r, lb
    <3> QED
      BY <1>0, <1>8, <3>1, <3>2
  <2> QED
    BY <1>0, <2>1
<1>10. CASE e1 <= r.begin + 1
  <2>1. s[e1] <= s[r.begin + 1]
    BY <1>7, <1>8, <1>10
  <2>2. s[r.begin + 1] < lb
    OBVIOUS
  <2> HIDE DEF r, lb
  <2>3. s[e1] < lb
    BY <1>0, <1>8, <2>1, <2>2
  <2> QED
    BY <1>5, <2>3 DEF lb
<1>11. CASE r.begin + 1 < e1
  <2>1. e1 - 1 \in Positions(r) /\ e2 - 1 \in Positions(r) /\ e1 - 1 < e2 - 1
        /\ (e1 - 1) + 1 = e1 /\ (e2 - 1) + 1 = e2
    BY <1>0, <1>4, <1>6, <1>9, <1>11 DEF Positions
  <2>2. s[(e1 - 1) + 1] < s[(e2 - 1) + 1]
    BY <1>0, <2>1, RangeKnown
  <2> QED
    BY <1>5, <2>1, <2>2
<1> QED
  BY <1>0, <1>10, <1>11

(* Its ends are moved.                                                     *)
LEMMA EndsMovedKeep ==
  ASSUME SearchInv, pc = "bisecting", UNCHANGED <<built, pc, m_it, result>>,
         NEW lo, NEW hi,
         call' = Search(call.range, call.id, call.lower_bound, call.partition_end, lo, hi),
         lo \in Nat \ {0}, hi \in Nat, lo <= hi, hi <= call.partition_end + 1,
         Bound(level, stored, lo - 1) < call.lower_bound,
         hi = call.partition_end + 1 \/ Bound(level, stored, hi) >= call.lower_bound
  PROVE  SearchInv'
<1>1. LooksFor(level, stored, call) /\ Count(level) > 1
      /\ stored[call.range.begin + 1] < call.lower_bound
  BY DEF SearchInv, Bisects
<1>2. /\ LooksFor(level, stored, call') /\ call'.range = call.range
      /\ call'.lower_bound = call.lower_bound /\ call'.partition_end = call.partition_end
      /\ call'.lo = lo /\ call'.hi = hi
  BY <1>1, SameSearch
<1>3. Bisects(level, stored, call')
  BY <1>1, <1>2 DEF Bisects
<1>4. /\ level' = level /\ stored' = stored /\ sequence' = sequence /\ parts' = parts
      /\ pc' = "bisecting" /\ m_it' = m_it /\ result' = result
  BY DEF built
<1>5. AccessGivesNode' /\ FindsExactly'
  BY <1>4 DEF AccessGivesNode, FindsExactly
<1> QED
  BY <1>2, <1>3, <1>4, <1>5 DEF SearchInv

(* Every half that is left has the partition of the bound.                 *)
LEMMA HalveKeeps ==
  ASSUME SearchInv, Halve
  PROVE  SearchInv'
<1> DEFINE lo == call.lo
           hi == call.hi
           lb == call.lower_bound
           pe == call.partition_end
           mid == (lo + hi) \div 2
<1>0. /\ pc = "bisecting" /\ UNCHANGED built /\ hi - lo > linear_scan_threshold
      /\ \/ /\ \/ UpperBound(mid) = lb
               \/ UpperBound(mid) > lb /\ UpperBound(mid - 1) < lb
            /\ Bisected(mid) /\ UNCHANGED call
         \/ /\ UpperBound(mid) > lb /\ UpperBound(mid - 1) >= lb
            /\ call' = [call EXCEPT !.hi = mid - 1]
            /\ UNCHANGED <<pc, m_it, result>>
         \/ /\ UpperBound(mid) < lb
            /\ call' = [call EXCEPT !.lo = mid + 1]
            /\ UNCHANGED <<pc, m_it, result>>
  BY DEF Halve
<1>1. /\ Known(level, stored) /\ LooksFor(level, stored, call) /\ Bisects(level, stored, call)
      /\ Count(level) \in Nat \ {0, 1} /\ lb \in Nat /\ pe \in 0 .. Count(level)
      /\ lo \in Nat \ {0} /\ hi \in Nat
      /\ \A k \in 0 .. Count(level) : /\ UpperBound(k) = Bound(level, stored, k)
                                      /\ Bound(level, stored, k) \in Nat
  BY <1>0, BisectsKnown
<1>2. /\ hi <= pe + 1 /\ stored[call.range.begin + 1] < lb /\ Bound(level, stored, lo - 1) < lb
      /\ hi = pe + 1 \/ Bound(level, stored, hi) >= lb
  BY <1>1 DEF Bisects
<1>3. call = Search(call.range, call.id, lb, pe, lo, hi)
  BY <1>1 DEF LooksFor
<1>4. mid \in Nat /\ lo + 1 <= mid /\ mid + 1 <= hi /\ mid \in 2 .. pe /\ mid \in 0 .. Count(level)
      /\ mid - 1 \in 0 .. Count(level) /\ mid \in 1 .. Count(level) + 1 /\ mid <= Count(level)
      /\ mid - 1 \in Nat
  <2>1. linear_scan_threshold \in Nat \ {0}
    BY PefAssumption
  <2> HIDE DEF lo, hi, pe
  <2>2. mid \in Nat /\ lo + 1 <= mid /\ mid + 1 <= hi
    <3>1. lo + 2 <= hi
      BY <1>0, <1>1, <2>1
    <3>2. \A a, b \in Nat : a + 2 <= b => LET m == (a + b) \div 2
                                          IN  m \in Nat /\ a + 1 <= m /\ m + 1 <= b
      OBVIOUS
    <3> QED
      BY <1>1, <3>1, <3>2
  <2> HIDE DEF mid
  <2> QED
    BY <1>1, <1>2, <2>2
<1> HIDE DEF lo, hi, lb, pe, mid
<1>5. CASE /\ UpperBound(mid) = lb \/ (UpperBound(mid) > lb /\ UpperBound(mid - 1) < lb)
           /\ Bisected(mid) /\ UNCHANGED call
  <2>1. Bound(level, stored, mid - 1) < lb
    <3>1. CASE UpperBound(mid) = lb
      <4>1. Bound(level, stored, mid) = lb
        BY <1>1, <1>4, <3>1
      <4> QED
        BY <1>1, <1>2, <1>4, <4>1, BoundBefore DEF lb, pe
    <3>2. CASE UpperBound(mid - 1) < lb
      BY <1>1, <1>4, <3>2
    <3> QED
      BY <1>5, <3>1, <3>2
  <2>2. lb <= Bound(level, stored, mid)
    BY <1>1, <1>4, <1>5
  <2> QED
    BY <1>0, <1>4, <1>5, <2>1, <2>2, BisectedKeeps DEF lb
<1>6. CASE /\ UpperBound(mid - 1) >= lb
           /\ call' = [call EXCEPT !.hi = mid - 1] /\ UNCHANGED <<pc, m_it, result>>
  <2> DEFINE top == mid - 1
  <2>1. call' = Search(call.range, call.id, lb, pe, lo, top)
    <3> HIDE DEF top
    <3> DEFINE r == call.range
               id == call.id
    <3>1. call = Search(r, id, lb, pe, lo, hi)
      BY <1>3
    <3>2. call' = [call EXCEPT !.hi = top]
      BY <1>6 DEF top
    <3> HIDE DEF r, id
    <3>3. [Search(r, id, lb, pe, lo, hi) EXCEPT !.hi = top] = Search(r, id, lb, pe, lo, top)
      BY HiUpdated
    <3>4. call' = Search(r, id, lb, pe, lo, top)
      BY <3>1, <3>2, <3>3
    <3> QED
      BY <3>4 DEF r, id
  <2>2. Bound(level, stored, top) >= lb
    BY <1>1, <1>4, <1>6
  <2>3. top \in Nat /\ lo <= top /\ top <= pe + 1
    BY <1>1, <1>2, <1>4
  <2> HIDE DEF top
  <2> QED
    BY <1>0, <1>1, <1>2, <1>6, <2>1, <2>2, <2>3, EndsMovedKeep DEF lb, pe
<1>7. CASE /\ UpperBound(mid) < lb
           /\ call' = [call EXCEPT !.lo = mid + 1] /\ UNCHANGED <<pc, m_it, result>>
  <2> DEFINE low == mid + 1
  <2>1. call' = Search(call.range, call.id, lb, pe, low, hi)
    <3> HIDE DEF low
    <3> DEFINE r == call.range
               id == call.id
    <3>1. call = Search(r, id, lb, pe, lo, hi)
      BY <1>3
    <3>2. call' = [call EXCEPT !.lo = low]
      BY <1>7 DEF low
    <3> HIDE DEF r, id
    <3>3. [Search(r, id, lb, pe, lo, hi) EXCEPT !.lo = low] = Search(r, id, lb, pe, low, hi)
      BY LoUpdated
    <3>4. call' = Search(r, id, lb, pe, low, hi)
      BY <3>1, <3>2, <3>3
    <3> QED
      BY <3>4 DEF r, id
  <2>2. Bound(level, stored, low - 1) < lb
    <3>1. low - 1 = mid
      BY <1>4
    <3> QED
      BY <1>1, <1>4, <1>7, <3>1
  <2>3. low \in Nat \ {0} /\ low <= hi
    BY <1>1, <1>2, <1>4
  <2> HIDE DEF low
  <2> QED
    BY <1>0, <1>1, <1>2, <1>7, <2>1, <2>2, <2>3, EndsMovedKeep DEF lb, pe, hi
<1> QED
  BY <1>0, <1>5, <1>6, <1>7

(* And so has what is scanned, or the bound is above all values.           *)
LEMMA ScanKeeps ==
  ASSUME SearchInv, Scan
  PROVE  SearchInv'
<1> DEFINE lo == call.lo
           hi == call.hi
           lb == call.lower_bound
           pe == call.partition_end
           candidates == {k \in lo .. LeastOf(hi, num_bounds - 1) : UpperBound(k) >= lb}
           least == CHOOSE k \in candidates : \A c \in candidates : k <= c
<1>0. /\ pc = "bisecting" /\ UNCHANGED <<built, call>>
      /\ candidates # {} => Bisected(least)
      /\ candidates = {} /\ hi < num_bounds => Bisected(hi + 1)
      /\ candidates = {} /\ ~ (hi < num_bounds) => pc' = "undefined" /\ UNCHANGED <<m_it, result>>
  BY DEF Scan
<1>1. /\ Known(level, stored) /\ LooksFor(level, stored, call) /\ Bisects(level, stored, call)
      /\ Count(level) \in Nat \ {0, 1} /\ lb \in Nat /\ pe \in 0 .. Count(level)
      /\ lo \in Nat \ {0} /\ hi \in Nat /\ num_bounds = Count(level) + 1
      /\ \A k \in 0 .. Count(level) : /\ UpperBound(k) = Bound(level, stored, k)
                                      /\ Bound(level, stored, k) \in Nat
  BY <1>0, BisectsKnown
<1>2. /\ lo <= hi /\ hi <= pe + 1 /\ Bound(level, stored, lo - 1) < lb
      /\ hi = pe + 1 \/ Bound(level, stored, hi) >= lb
  BY <1>1 DEF Bisects
<1> HIDE DEF lo, hi, lb, pe
<1>3. \A k : k \in candidates <=> /\ k \in lo .. hi /\ k <= Count(level)
                                  /\ Bound(level, stored, k) >= lb
  <2>1. \A k : k \in lo .. LeastOf(hi, num_bounds - 1) <=> k \in lo .. hi /\ k <= Count(level)
    BY <1>1 DEF LeastOf
  <2>2. \A k \in lo .. hi : k <= Count(level) => UpperBound(k) = Bound(level, stored, k)
    BY <1>1
  <2> QED
    BY <2>1, <2>2
<1> HIDE DEF candidates
<1>4. CASE candidates # {}
  <2>1. least \in candidates /\ \A c \in candidates : least <= c
    <3>1. candidates \subseteq Nat
      BY <1>1, <1>3
    <3>2. \E k \in candidates : \A c \in candidates : k <= c
      BY <1>4, <3>1, LeastNatural
    <3> QED
      BY <3>2
  <2>2. Bisected(least)
    BY <1>0, <1>4
  <2> HIDE DEF least
  <2>3. /\ least \in lo .. hi /\ least <= Count(level) /\ Bound(level, stored, least) >= lb
        /\ least \in Nat /\ least \in 1 .. Count(level) + 1 /\ lb <= Bound(level, stored, least)
    BY <1>1, <1>3, <2>1
  <2>4. Bound(level, stored, least - 1) < lb
    <3>1. CASE least = lo
      BY <1>2, <3>1
    <3>2. CASE least # lo
      <4>1. /\ least - 1 \in lo .. hi /\ least - 1 <= Count(level) /\ least - 1 \in 0 .. Count(level)
            /\ ~ (least <= least - 1)
        BY <1>1, <2>3, <3>2
      <4>2. ~ (Bound(level, stored, least - 1) >= lb)
        BY <1>3, <2>1, <4>1
      <4>3. Bound(level, stored, least - 1) \in Nat
        BY <1>1, <4>1
      <4> QED
        BY <1>1, <4>2, <4>3
    <3> QED
      BY <3>1, <3>2
  <2> QED
    BY <1>0, <2>2, <2>3, <2>4, BisectedKeeps DEF lb
<1>5. CASE candidates = {} /\ hi < num_bounds
  <2> DEFINE k == hi + 1
  <2>1. Bisected(k)
    BY <1>0, <1>5
  <2>2. hi \in lo .. hi /\ hi <= Count(level) /\ hi \in 0 .. Count(level) /\ k \in 1 .. Count(level) + 1
        /\ k - 1 = hi
    BY <1>1, <1>2, <1>5
  <2>3. ~ (Bound(level, stored, hi) >= lb)
    BY <1>3, <1>5, <2>2
  <2>4. Bound(level, stored, hi) \in Nat
    BY <1>1, <2>2
  <2>5. Bound(level, stored, k - 1) < lb
    BY <1>1, <2>2, <2>3, <2>4
  <2>6. k = pe + 2
    BY <1>1, <1>2, <2>3
  <2> HIDE DEF k
  <2> QED
    BY <1>0, <2>1, <2>2, <2>5, <2>6, BisectedKeeps DEF lb, pe
<1>6. CASE candidates = {} /\ ~ (hi < num_bounds)
  <2>1. pc' = "undefined" /\ UNCHANGED <<m_it, result>>
    BY <1>0, <1>6
  <2>2. /\ level' = level /\ stored' = stored /\ sequence' = sequence /\ parts' = parts
        /\ m_it' = m_it /\ result' = result
    BY <1>0, <2>1 DEF built
  <2>3. AccessGivesNode' /\ FindsExactly'
    BY <2>1 DEF AccessGivesNode, FindsExactly
  <2> QED
    BY <2>1, <2>2, <2>3 DEF SearchInv
<1> QED
  BY <1>4, <1>5, <1>6

(* The first value of a list that is not below one.                        *)
LEMMA FirstFound ==
  ASSUME NEW list \in Seq(Nat), Len(list) \in Nat \ {0}, NEW v \in Int, v <= list[Len(list)]
  PROVE  LET k == Elements!FirstGeq(list, v)
         IN  /\ k \in 0 .. Len(list) - 1 /\ v <= list[k + 1]
             /\ \A j \in 0 .. k - 1 : list[j + 1] < v
<1> DEFINE n == Len(list)
           First(p) == /\ p < Len(list) => list[p + 1] >= v
                       /\ \A q \in 0 .. p - 1 : list[q + 1] < v
           T == {p \in 0 .. n - 1 : list[p + 1] >= v}
           k == CHOOSE p \in 0 .. Len(list) : First(p)
<1>1. \A p \in 0 .. n - 1 : list[p + 1] \in Nat
  OBVIOUS
<1>2. PICK p \in T : \A j \in T : p <= j
  <2>1. n - 1 \in 0 .. n - 1 /\ (n - 1) + 1 = n
    OBVIOUS
  <2>2. list[n] >= v
    OBVIOUS
  <2>3. n - 1 \in T /\ T \subseteq Nat
    BY <2>1, <2>2
  <2> HIDE DEF T
  <2> QED
    BY <2>3, LeastNatural
<1>3. p \in 0 .. n /\ First(p)
  <2>1. p \in 0 .. n - 1 /\ list[p + 1] >= v /\ p \in 0 .. n
    BY <1>2
  <2>2. ASSUME NEW j \in 0 .. p - 1 PROVE list[j + 1] < v
    <3>1. j \in 0 .. n - 1 /\ ~ (p <= j)
      BY <2>1
    <3>2. ~ (list[j + 1] >= v)
      BY <1>2, <3>1
    <3> QED
      BY <1>1, <3>1, <3>2
  <2> QED
    BY <2>1, <2>2
<1>4. k \in 0 .. n /\ First(k)
  <2> HIDE DEF First
  <2> QED
    BY <1>3
<1>5. Elements!FirstGeq(list, v) = k
  BY DEF Elements!FirstGeq
<1> HIDE DEF k
<1>6. k # n
  <2> SUFFICES ASSUME k = n PROVE FALSE
    OBVIOUS
  <2>1. n - 1 \in 0 .. k - 1 /\ (n - 1) + 1 = n /\ n - 1 \in 0 .. n - 1
    OBVIOUS
  <2>2. list[(n - 1) + 1] < v
    BY <1>4, <2>1
  <2>3. list[(n - 1) + 1] \in Nat
    BY <1>1, <2>1
  <2> QED
    BY <2>1, <2>2, <2>3
<1>7. k \in 0 .. n - 1 /\ k < n
  BY <1>4, <1>6
<1>8. v <= list[k + 1]
  BY <1>1, <1>4, <1>7
<1> QED
  BY <1>4, <1>5, <1>7, <1>8

(* What the enumerator finds in the partition at hand: the place it is at, *)
(* or the first of a value that is not below the bound.                    *)
LEMMA FoundInPartition ==
  ASSUME SearchInv, pc = "searching", InPartition
  PROVE  \E k \in 0 .. End(level, m_it.partition) - m_it.partition * partition_size - 1 :
           LET b == m_it.partition * partition_size
               lb == call.lower_bound
               begin == call.range.begin
           IN  /\ Elements!found_geq(Values(m_it), Universe(m_it), m_it.enum, lb - m_it.base)
                    = EnumAt(level, stored, m_it.partition, k)
               /\ lb <= stored[b + k + 1]
               /\ \/ begin = b + k /\ stored[begin + 1] = lb
                  \/ /\ \A j \in 0 .. k - 1 : stored[b + j + 1] < lb
                     /\ \/ /\ b <= begin /\ begin < End(level, m_it.partition)
                           /\ stored[begin + 1] # lb
                        \/ Narrowed(level, stored, call, m_it)
<1> DEFINE q == m_it.partition
           b == q * partition_size
           e == End(level, q)
           lb == call.lower_bound
           begin == call.range.begin
           low == Bound(level, stored, q)
           high == Bound(level, stored, q + 1)
           L == List(level, stored, q)
           U == Above(level, stored, q)
           v == lb - low
<1>1. /\ Readable(level, stored, sequence, parts) /\ Known(level, stored)
      /\ LooksFor(level, stored, call)
      /\ q \in 0 .. Count(level) - 1 /\ b \in Nat /\ e \in Nat
      /\ b < e /\ e <= Len(level.from) /\ Len(level.from) \in Nat \ {0}
      /\ m_it.base = low /\ m_it.upper_bound = high /\ low \in Nat /\ high \in Nat
      /\ \/ /\ b <= begin /\ begin < e
            /\ m_it.enum = EnumAt(level, stored, q, begin - b)
         \/ Narrowed(level, stored, call, m_it)
  BY AtHand
<1>2. lb \in Nat /\ begin \in Nat
  BY <1>1, SearchKnown
<1>3. low <= lb /\ lb <= high
  BY <1>1, <1>2 DEF InPartition
<1>4. Values(m_it) = L /\ Universe(m_it) = U
  <2>1. m_it = IteratorOn(level, stored, q, m_it.position, m_it.enum, m_it.prev_range_upper_bound, m_it.last)
    BY DEF SearchInv, Settled
  <2> HIDE DEF q
  <2> QED
    BY <1>1, <2>1, ListAtHand
<1>5. /\ L \in Seq(Nat) /\ Len(L) = e - b
      /\ \A i \in 1 .. Len(L) : L[i] = stored[b + i] - low
  BY <1>1, ListKnown
<1>6. U = high - low + 1
  <2>1. Top(level, stored, q) = high
    BY <1>1, TopKnown
  <2> QED
    BY <2>1 DEF Above
<1>7. high = stored[e] /\ stored[e] \in Nat
  BY <1>1, BoundsKnown
<1> HIDE DEF q, b, e, lb, begin, low, high, L, U, v
<1>8. v \in Int /\ v = lb - low /\ lb = v + low
  BY <1>1, <1>2 DEF v
<1>9. \A k \in 0 .. e - b - 1 : /\ b + k + 1 \in 1 .. Len(level.from) /\ k + 1 \in 1 .. Len(L)
                                /\ L[k + 1] = stored[b + k + 1] - low /\ stored[b + k + 1] \in Nat
  <2>1. ASSUME NEW k \in 0 .. e - b - 1
        PROVE  /\ b + k + 1 \in 1 .. Len(level.from) /\ k + 1 \in 1 .. Len(L) /\ b + (k + 1) = b + k + 1
    BY <1>1, <1>5
  <2>2. \A i \in 1 .. Len(level.from) : stored[i] \in Nat
    BY <1>1, KnownFacts
  <2> QED
    BY <1>5, <2>1, <2>2
<1>10. \A k \in 0 .. e - b - 1 : Elements!moved(L, U, k) = EnumAt(level, stored, q, k)
  BY DEF EnumAt, L, U
<1>11. \A k \in 0 .. e - b - 1 : EnumAt(level, stored, q, k).value = stored[b + k + 1] - low
  <2> SUFFICES ASSUME NEW k \in 0 .. e - b - 1
               PROVE  EnumAt(level, stored, q, k).value = stored[b + k + 1] - low
    OBVIOUS
  <2>1. k < Len(L)
    BY <1>1, <1>5
  <2>2. Elements!moved(L, U, k).value = L[k + 1]
    BY <2>1 DEF Elements!moved, Elements!enumerator
  <2> QED
    BY <1>9, <1>10, <2>2
<1> DEFINE found == Elements!found_geq(L, U, m_it.enum, v)
<1>12. CASE m_it.enum.value = v
  <2>1. found = m_it.enum
    BY <1>12 DEF Elements!found_geq
  <2>2. ~ Narrowed(level, stored, call, m_it)
    <3> SUFFICES ASSUME Narrowed(level, stored, call, m_it) PROVE FALSE
      OBVIOUS
    <3>1. m_it.enum = Elements!unpositioned(L, U)
      BY DEF Narrowed, EnumNowhere, L, U, q
    <3>2. m_it.enum.value = U
      BY <3>1 DEF Elements!unpositioned, Elements!enumerator
    <3> QED
      BY <1>1, <1>2, <1>3, <1>6, <1>8, <1>12, <3>2
  <2>3. b <= begin /\ begin < e /\ m_it.enum = EnumAt(level, stored, q, begin - b)
    BY <1>1, <2>2
  <2> DEFINE k == begin - b
  <2>4. k \in 0 .. e - b - 1 /\ begin = b + k
    BY <1>1, <1>2, <2>3
  <2>5. found = EnumAt(level, stored, q, k)
    BY <2>1, <2>3
  <2> HIDE DEF k, found
  <2>6. stored[b + k + 1] - low = v /\ stored[b + k + 1] \in Nat
    BY <1>9, <1>11, <1>12, <2>1, <2>4, <2>5
  <2>7. stored[begin + 1] = lb /\ lb <= stored[b + k + 1]
    BY <1>1, <1>2, <1>8, <2>4, <2>6
  <2> QED
    BY <1>1, <1>4, <1>8, <2>4, <2>5, <2>7 DEF found, q, b, e, lb, begin
<1>13. CASE m_it.enum.value # v
  <2> DEFINE k == Elements!FirstGeq(L, v)
  <2>1. found = Elements!moved(L, U, k)
    BY <1>13 DEF Elements!found_geq
  <2>2. /\ k \in 0 .. Len(L) - 1 /\ v <= L[k + 1]
        /\ \A j \in 0 .. k - 1 : L[j + 1] < v
    <3>1. Len(L) \in Nat \ {0}
      BY <1>1, <1>5
    <3>2. v <= L[Len(L)]
      <4>1. L[Len(L)] = stored[b + Len(L)] - low /\ b + Len(L) = e
        BY <1>1, <1>5, <3>1
      <4> QED
        BY <1>1, <1>2, <1>3, <1>7, <1>8, <4>1
    <3> QED
      BY <1>5, <1>8, <3>1, <3>2, FirstFound
  <2> HIDE DEF k, found
  <2>3. k \in 0 .. e - b - 1 /\ \A j \in 0 .. k - 1 : j \in 0 .. e - b - 1
    BY <1>1, <1>5, <2>2
  <2>4. lb <= stored[b + k + 1]
    <3>1. L[k + 1] = stored[b + k + 1] - low /\ stored[b + k + 1] \in Nat
      BY <1>9, <2>3
    <3>2. v <= stored[b + k + 1] - low
      BY <2>2, <3>1
    <3> QED
      BY <1>1, <1>2, <1>8, <3>1, <3>2
  <2>5. \A j \in 0 .. k - 1 : stored[b + j + 1] < lb
    <3> SUFFICES ASSUME NEW j \in 0 .. k - 1 PROVE stored[b + j + 1] < lb
      OBVIOUS
    <3>1. L[j + 1] = stored[b + j + 1] - low /\ stored[b + j + 1] \in Nat
      BY <1>9, <2>3
    <3>2. stored[b + j + 1] - low < v
      BY <2>2, <3>1
    <3> QED
      BY <1>1, <1>2, <1>8, <3>1, <3>2
  <2>6. \/ b <= begin /\ begin < e /\ stored[begin + 1] # lb
        \/ Narrowed(level, stored, call, m_it)
    <3> SUFFICES ASSUME ~ Narrowed(level, stored, call, m_it)
                 PROVE  b <= begin /\ begin < e /\ stored[begin + 1] # lb
      OBVIOUS
    <3>1. b <= begin /\ begin < e /\ m_it.enum = EnumAt(level, stored, q, begin - b)
      BY <1>1
    <3>2. PICK d \in 0 .. e - b - 1 : d = begin - b /\ b + d + 1 = begin + 1
      BY <1>1, <1>2, <3>1
    <3>3. m_it.enum.value = stored[begin + 1] - low /\ stored[begin + 1] \in Nat
      BY <1>9, <1>11, <3>1, <3>2
    <3> QED
      BY <1>1, <1>2, <1>8, <1>13, <3>1, <3>3
  <2>7. found = EnumAt(level, stored, q, k)
    BY <1>10, <2>1, <2>3
  <2> QED
    BY <1>1, <1>4, <1>8, <2>3, <2>4, <2>5, <2>6, <2>7 DEF found, q, b, e, lb, begin
<1> QED
  BY <1>12, <1>13

(* No other place of the range has the value of the bound.                 *)
LEMMA FoundOnly ==
  ASSUME NEW l, NEW s, Known(l, s), NEW c, LooksFor(l, s, c), NEW q \in 0 .. Count(l) - 1,
         Bound(l, s, q) <= c.lower_bound, c.lower_bound <= Bound(l, s, q + 1),
         NEW at \in q * partition_size .. End(l, q) - 1, c.lower_bound <= s[at + 1],
         \A i \in q * partition_size .. at - 1 : s[i + 1] < c.lower_bound,
         \/ q * partition_size <= c.range.begin /\ c.range.begin < End(l, q)
            /\ s[c.range.begin + 1] # c.lower_bound
         \/ Bound(l, s, q) < c.lower_bound /\ s[c.range.begin + 1] < c.lower_bound,
         NEW pos \in Positions(c.range), s[pos + 1] = c.lower_bound
  PROVE  pos = at
<1> DEFINE r == c.range
           lb == c.lower_bound
           b == q * partition_size
           e == End(l, q)
           N == Len(l.from)
<1>1. /\ N \in Nat \ {0} /\ r \in RangesOf(l) /\ r.begin \in Nat /\ r.end \in Nat
      /\ r.begin < r.end /\ r.end <= N /\ lb \in Nat
  BY KnownFacts, SearchKnown
<1>2. b \in Nat /\ e \in Nat /\ b < e /\ e <= N
  BY <1>1, Cut
<1>3. \A i, j \in 1 .. N : i <= j => s[i] <= s[j]
  BY KnownFacts
<1>4. \A i \in 1 .. N : s[i] \in Nat
  BY KnownFacts
<1>5. \A i, j \in Positions(r) : i < j => s[i + 1] < s[j + 1]
  BY <1>1, RangeKnown
<1>6. Bound(l, s, q) \in Nat /\ Bound(l, s, q + 1) = s[e]
  <2>1. q \in 0 .. Count(l)
    BY <1>1, Cut
  <2> QED
    BY <2>1, BoundsKnown
<1>7. pos \in 0 .. N - 1 /\ pos < b => s[pos + 1] <= Bound(l, s, q)
  BY Beside
<1>8. at \in b .. e - 1 /\ \A i \in b .. at - 1 : s[i + 1] < lb
  OBVIOUS
<1> HIDE DEF r, lb, b, e, N
<1>9. r.begin <= pos /\ pos < r.end /\ pos \in Nat /\ at \in Nat
  BY <1>1, <1>2, <1>8 DEF r, Positions
<1>10. /\ s[pos + 1] = lb /\ lb <= s[at + 1] /\ Bound(l, s, q) <= lb /\ lb <= s[e]
       /\ \/ b <= r.begin /\ r.begin < e /\ s[r.begin + 1] # lb
          \/ Bound(l, s, q) < lb /\ s[r.begin + 1] < lb
  BY <1>6 DEF r, lb, b, e
<1>11. /\ pos + 1 \in 1 .. N /\ at + 1 \in 1 .. N /\ r.begin + 1 \in 1 .. N /\ e \in 1 .. N
  BY <1>1, <1>2, <1>8, <1>9
<1>12. /\ s[pos + 1] \in Nat /\ s[at + 1] \in Nat /\ s[r.begin + 1] \in Nat /\ s[e] \in Nat
       /\ s[r.begin + 1] <= s[pos + 1]
  <2>1. r.begin + 1 <= pos + 1
    BY <1>1, <1>9
  <2> QED
    BY <1>3, <1>4, <1>11, <2>1
<1>13. s[r.begin + 1] < lb
  BY <1>1, <1>10, <1>12
<1>14. ~ (pos < b)
  <2> SUFFICES ASSUME pos < b PROVE FALSE
    OBVIOUS
  <2>1. s[pos + 1] <= Bound(l, s, q)
    BY <1>1, <1>7, <1>9
  <2>2. ~ (b <= r.begin)
    BY <1>1, <1>2, <1>9
  <2> QED
    BY <1>1, <1>6, <1>10, <2>1, <2>2
<1>15. ~ (e <= pos)
  <2> SUFFICES ASSUME e <= pos PROVE FALSE
    OBVIOUS
  <2>1. s[e] <= s[pos + 1]
    BY <1>2, <1>3, <1>9, <1>11
  <2>2. s[e] = lb
    BY <1>1, <1>10, <1>12, <2>1
  <2>3. r.begin + 1 < e
    <3>1. ~ (e <= r.begin + 1)
      <4> SUFFICES ASSUME e <= r.begin + 1 PROVE FALSE
        OBVIOUS
      <4>1. s[e] <= s[r.begin + 1]
        BY <1>3, <1>11
      <4> QED
        BY <1>1, <1>12, <1>13, <2>2, <4>1
    <3> QED
      BY <1>1, <1>2, <3>1
  <2>4. e - 1 \in Positions(r) /\ pos \in Positions(r) /\ e - 1 < pos /\ (e - 1) + 1 = e
    BY <1>1, <1>2, <1>9, <2>3 DEF Positions
  <2>5. s[(e - 1) + 1] < s[pos + 1]
    BY <1>5, <2>4
  <2> QED
    BY <1>1, <1>10, <2>2, <2>4, <2>5
<1>16. ~ (pos < at)
  <2> SUFFICES ASSUME pos < at PROVE FALSE
    OBVIOUS
  <2>1. pos \in b .. at - 1
    BY <1>2, <1>8, <1>9, <1>14
  <2> QED
    BY <1>1, <1>8, <1>10, <2>1
<1>17. ~ (at < pos)
  <2> SUFFICES ASSUME at < pos PROVE FALSE
    OBVIOUS
  <2>1. s[at + 1] <= s[pos + 1]
    <3>1. at + 1 <= pos + 1
      BY <1>9
    <3> QED
      BY <1>3, <1>11, <3>1
  <2>2. s[at + 1] = lb
    BY <1>1, <1>10, <1>12, <2>1
  <2>3. r.begin <= at
    <3>1. ~ (at + 1 <= r.begin + 1)
      <4> SUFFICES ASSUME at + 1 <= r.begin + 1 PROVE FALSE
        OBVIOUS
      <4>1. s[at + 1] <= s[r.begin + 1]
        BY <1>3, <1>11
      <4> QED
        BY <1>1, <1>12, <1>13, <2>2, <4>1
    <3> QED
      BY <1>1, <1>9, <3>1
  <2>4. at \in Positions(r) /\ pos \in Positions(r)
    BY <1>1, <1>9, <2>3 DEF Positions
  <2>5. s[at + 1] < s[pos + 1]
    BY <1>5, <2>4
  <2> QED
    BY <1>1, <1>10, <2>2, <2>5
<1> QED
  BY <1>9, <1>16, <1>17

(* next_geq in the partition finds the position.                           *)
LEMMA NextGeqKeeps ==
  ASSUME SearchInv, NextGeq
  PROVE  SearchInv'
<1> DEFINE q == m_it.partition
           b == q * partition_size
           e == End(level, q)
           r == call.range
           lb == call.lower_bound
           low == Bound(level, stored, q)
           high == Bound(level, stored, q + 1)
           enum == Elements!found_geq(Values(m_it), Universe(m_it), m_it.enum, lb - m_it.base)
           position == m_it.begin + enum.position
<1>0. /\ pc = "searching" /\ InPartition /\ UNCHANGED <<built, call>> /\ pc' = "answered"
      /\ m_it' = [m_it EXCEPT !.enum = enum, !.position = position]
      /\ result' = IF position \in Positions(r) /\ m_it.base + enum.value = lb
                   THEN position ELSE not_found
  BY DEF NextGeq, Answer
<1>1. /\ Readable(level, stored, sequence, parts) /\ Known(level, stored)
      /\ LooksFor(level, stored, call)
      /\ Len(level.from) \in Nat \ {0} /\ q \in 0 .. Count(level) - 1 /\ b \in Nat /\ e \in Nat
      /\ b < e /\ e <= Len(level.from)
      /\ m_it.begin = b /\ m_it.base = low /\ m_it.upper_bound = high /\ low \in Nat /\ high \in Nat
      /\ r.begin \in Positions(r)
  BY <1>0, AtHand
<1>2. lb \in Nat /\ r.begin \in Nat
  BY <1>1, SearchKnown
<1>3. low <= lb /\ lb <= high
  BY <1>0, <1>1, <1>2 DEF InPartition
<1>4. PICK k \in 0 .. e - b - 1 :
        /\ enum = EnumAt(level, stored, q, k)
        /\ lb <= stored[b + k + 1]
        /\ \/ r.begin = b + k /\ stored[r.begin + 1] = lb
           \/ /\ \A j \in 0 .. k - 1 : stored[b + j + 1] < lb
              /\ \/ b <= r.begin /\ r.begin < e /\ stored[r.begin + 1] # lb
                 \/ Narrowed(level, stored, call, m_it)
  BY <1>0, FoundInPartition
<1>5. Narrowed(level, stored, call, m_it) => low < lb /\ stored[r.begin + 1] < lb
  BY DEF Narrowed
<1> DEFINE at == b + k
<1>6. at \in 0 .. Len(level.from) /\ b <= at /\ at < e /\ at \in b .. e - 1 /\ at - b = k
  <2> HIDE DEF b, e
  <2> QED
    BY <1>1
<1>7. /\ enum.position = k /\ enum.position \in 0 .. partition_size /\ enum.value \in Int
      /\ low + enum.value = stored[at + 1]
  <2> HIDE DEF at, enum
  <2>1. /\ q * partition_size <= at /\ at <= End(level, q) /\ at < End(level, q)
        /\ enum = EnumAt(level, stored, q, at - q * partition_size)
    BY <1>1, <1>4, <1>6
  <2>2. /\ enum.position = at - q * partition_size /\ enum.position \in 0 .. partition_size
        /\ enum.value \in Int /\ low + enum.value = stored[at + 1]
    <3> HIDE DEF q
    <3> QED
      BY <1>1, <1>6, <2>1, EnumKnown
  <2> QED
    BY <1>6, <2>2
<1>8. position = at
  BY <1>1, <1>7
<1>9. Settled(level, stored, m_it')
  <2>1. m_it = IteratorOn(level, stored, q, m_it.position, m_it.enum, m_it.prev_range_upper_bound, m_it.last)
    BY DEF SearchInv, Settled
  <2> DEFINE old == m_it.position
             was == m_it.enum
             prev == m_it.prev_range_upper_bound
             last == m_it.last
  <2>2. m_it = IteratorOn(level, stored, q, old, was, prev, last)
    BY <2>1
  <2> HIDE DEF q, old, was, prev, last, enum, position
  <2>3. m_it' = [IteratorOn(level, stored, q, old, was, prev, last) EXCEPT !.enum = enum, !.position = position]
    BY <1>0, <2>2
  <2>4. m_it' = IteratorOn(level, stored, q, position, enum, prev, last)
    <3> DEFINE x == IteratorOn(level, stored, q, old, was, prev, last)
               y == IteratorOn(level, stored, q, old, enum, prev, last)
    <3>1. m_it' = [[x EXCEPT !.enum = enum] EXCEPT !.position = position]
      <4> HIDE DEF x
      <4>1. m_it' = [x EXCEPT !.enum = enum, !.position = position]
        BY <2>3 DEF x
      <4> QED
        BY <4>1
    <3>2. [x EXCEPT !.enum = enum] = y
      BY EnumReplaced
    <3>3. [y EXCEPT !.position = position] = IteratorOn(level, stored, q, position, enum, prev, last)
      BY PositionReplaced
    <3> HIDE DEF x, y
    <3> QED
      BY <3>1, <3>2, <3>3
  <2>5. /\ m_it'.partition = q /\ m_it'.position = position /\ m_it'.enum = enum
        /\ m_it'.prev_range_upper_bound = prev /\ m_it'.last = last
    BY <2>4, IteratorParts
  <2>6. position \in 0 .. Len(level.from)
    BY <1>6, <1>8
  <2>7. q \in 0 .. Count(level) - 1
    BY <1>1
  <2>8. level' = level /\ stored' = stored
    BY <1>0 DEF built
  <2> HIDE DEF at
  <2> QED
    BY <1>7, <2>4, <2>5, <2>6, <2>7 DEF Settled
<1>10. result' = IF at \in Positions(r) /\ stored[at + 1] = lb THEN at ELSE not_found
  <2> HIDE DEF at, enum, position
  <2> QED
    BY <1>0, <1>1, <1>7, <1>8
<1> HIDE DEF enum, position
<1>11. ASSUME NEW pos \in Positions(r), stored[pos + 1] = lb PROVE at \in Positions(r) /\ stored[at + 1] = lb
  <2>1. CASE r.begin = b + k /\ stored[r.begin + 1] = lb
    BY <1>1, <2>1
  <2>2. CASE /\ \A j \in 0 .. k - 1 : stored[b + j + 1] < lb
             /\ \/ b <= r.begin /\ r.begin < e /\ stored[r.begin + 1] # lb
                \/ Narrowed(level, stored, call, m_it)
    <3>1. \A i \in b .. at - 1 : stored[i + 1] < lb
      <4> SUFFICES ASSUME NEW i \in b .. at - 1 PROVE stored[i + 1] < lb
        OBVIOUS
      <4>1. i - b \in 0 .. k - 1 /\ b + (i - b) + 1 = i + 1
        <5>1. b \in Nat /\ k \in Nat
          BY <1>1, <1>6
        <5> HIDE DEF b
        <5> QED
          BY <5>1
      <4> QED
        BY <2>2, <4>1
    <3>2. lb <= stored[at + 1]
      BY <1>1, <1>4
    <3> HIDE DEF at
    <3>3. pos = at
      <4> HIDE DEF q
      <4>1. /\ Known(level, stored) /\ LooksFor(level, stored, call) /\ q \in 0 .. Count(level) - 1
            /\ pos \in Positions(call.range) /\ stored[pos + 1] = call.lower_bound
        BY <1>1, <1>11
      <4>2. /\ Bound(level, stored, q) <= call.lower_bound
            /\ call.lower_bound <= Bound(level, stored, q + 1)
        BY <1>3
      <4>3. /\ at \in q * partition_size .. End(level, q) - 1 /\ call.lower_bound <= stored[at + 1]
            /\ \A i \in q * partition_size .. at - 1 : stored[i + 1] < call.lower_bound
        BY <1>6, <3>1, <3>2
      <4>4. \/ q * partition_size <= call.range.begin /\ call.range.begin < End(level, q)
               /\ stored[call.range.begin + 1] # call.lower_bound
            \/ Bound(level, stored, q) < call.lower_bound
               /\ stored[call.range.begin + 1] < call.lower_bound
        BY <1>5, <2>2
      <4> QED
        BY <4>1, <4>2, <4>3, <4>4, FoundOnly
    <3> QED
      BY <1>11, <3>3
  <2> QED
    BY <1>4, <2>1, <2>2
<1>12. result' = find(level.from, call.range, call.id)
  <2> HIDE DEF at
  <2>1. CASE at \in Positions(r) /\ stored[at + 1] = lb
    BY <1>1, <1>10, <2>1, SearchKnown
  <2>2. CASE ~ (at \in Positions(r) /\ stored[at + 1] = lb)
    <3>1. \A pos \in Positions(r) : stored[pos + 1] # lb
      BY <1>11, <2>2
    <3> QED
      BY <1>1, <1>10, <2>2, <3>1, SearchKnown
  <2> QED
    BY <2>1, <2>2
<1> QED
  BY <1>0, <1>1, <1>9, <1>12, AnswerKeeps

-----------------------------------------------------------------------------
(* The iterator that the sequence has when it is loaded is somewhere.      *)
LEMMA InitSettled ==
  ASSUME Readable(level, stored, sequence, parts), m_it = iterator(0, 0)
  PROVE  Settled(level, stored, m_it)
<1>0. /\ Known(level, stored) /\ Len(level.from) \in Nat \ {0} /\ Count(level) \in Nat \ {0}
      /\ 0 \in 0 .. Len(level.from) /\ 0 \in 0 .. Count(level) - 1
  BY KnownFacts, Cut DEF Readable
<1>1. CASE Count(level) > 1
  <2>1. m_it = Standing(level, stored, 0, 0, 0)
    BY <1>0, <1>1, IteratorMade
  <2>2. MovedTo(level, stored, m_it, 0)
    BY <1>0, <2>1, MovedAt
  <2> QED
    BY <1>0, <2>2, MovedKnown
<1>2. CASE Count(level) = 1
  <2> DEFINE nowhere == EnumNowhere(level, stored, 0)
             L == List(level, stored, 0)
             U == Above(level, stored, 0)
  <2>1. m_it = IteratorOn(level, stored, 0, 0, nowhere, 0, 0)
    BY <1>2, IteratorSingle
  <2>2. nowhere.position = Len(L) /\ nowhere.value = U
    BY DEF EnumNowhere, Elements!unpositioned, Elements!enumerator
  <2>3. Len(L) \in 1 .. partition_size
    BY <1>0, ListKnown
  <2>4. U \in Int
    <3>1. Bound(level, stored, 0) \in Nat /\ Bound(level, stored, 0 + 1) \in Nat /\ stored[1] \in Nat
      <4>1. 0 \in 0 .. Count(level) /\ 0 + 1 \in 0 .. Count(level)
        BY <1>0
      <4> QED
        BY <1>0, <4>1, BoundsKnown
    <3> QED
      BY <3>1 DEF Top, Above
  <2>5. nowhere.position \in 0 .. partition_size /\ nowhere.value \in Int
    BY <2>2, <2>3, <2>4, PartitionSize
  <2> HIDE DEF nowhere
  <2>6. /\ m_it.partition = 0 /\ m_it.position = 0 /\ m_it.enum = nowhere
        /\ m_it.prev_range_upper_bound = 0 /\ m_it.last = 0
    BY <2>1, IteratorParts
  <2> QED
    BY <1>0, <2>1, <2>5, <2>6 DEF Settled
<1> QED
  BY <1>0, <1>1, <1>2

(* The invariant holds at the beginning, and every step keeps it.          *)
LEMMA InitSearches == Init => SearchInv
<1> SUFFICES ASSUME Init PROVE SearchInv
  OBVIOUS
<1>1. Readable(level, stored, sequence, parts)
  BY InitReadable
<1>2. Settled(level, stored, m_it)
  BY <1>1, InitSettled DEF Init
<1>3. pc = "idle" /\ result \in Int
  BY DEF Init, garbage
<1> QED
  BY <1>1, <1>2, <1>3 DEF SearchInv, AccessGivesNode, FindsExactly

LEMMA NextSearches == SearchInv /\ [Next]_vars => SearchInv'
<1> SUFFICES ASSUME SearchInv, [Next]_vars PROVE SearchInv'
  OBVIOUS
<1>1. CASE Next
  <2>1. CASE \E r \in Ranges : \E pos \in Positions(r) : Access(r, pos)
    BY <2>1, AccessKeeps
  <2>2. CASE \E r \in Ranges : \E id \in level.ids : FindByScan(r, id) \/ StartSearch(r, id)
    BY <2>2, FindByScanKeeps, StartSearchKeeps
  <2>3. CASE Searching
    <3>1. CASE NextGeq
      BY <3>1, NextGeqKeeps
    <3>2. CASE NextGeqOutOfBounds
      BY <3>2, OutOfBoundsKeeps
    <3>3. CASE SlowNextGeq
      BY <3>3, SlowNextGeqKeeps
    <3>4. CASE Halve
      BY <3>4, HalveKeeps
    <3>5. CASE Scan
      BY <3>5, ScanKeeps
    <3> QED
      BY <2>3, <3>1, <3>2, <3>3, <3>4, <3>5 DEF Searching
  <2>4. CASE Return
    BY <2>4, StopKeeps
  <2>5. CASE \E p \in 0 .. Len(level.pointers) - 2 : Walk(p)
    BY <2>5, WalkKeeps
  <2>6. CASE Step
    BY <2>6, StepKeeps
  <2>7. CASE Stop
    BY <2>7, StopKeeps
  <2> QED
    BY <1>1, <2>1, <2>2, <2>3, <2>4, <2>5, <2>6, <2>7 DEF Next
<1>2. CASE UNCHANGED vars
  <2>1. /\ level' = level /\ stored' = stored /\ sequence' = sequence /\ parts' = parts
        /\ pc' = pc /\ m_it' = m_it /\ call' = call /\ result' = result /\ walker' = walker
    BY <1>2 DEF vars
  <2>2. AccessGivesNode' /\ FindsExactly'
    <3>1. AccessGivesNode /\ FindsExactly
      BY DEF SearchInv
    <3>2. AccessGivesNode'
      BY <2>1, <3>1 DEF AccessGivesNode
    <3>3. FindsExactly'
      BY <2>1, <3>1 DEF FindsExactly, IteratorsMoved, m_partitions, m_size
    <3> QED
      BY <3>2, <3>3
  <2> QED
    BY <2>1, <2>2 DEF SearchInv
<1> QED
  BY <1>1, <1>2

(* What the invariant says of the properties.                              *)
LEMMA SearchInvGives == SearchInv => TypeOK /\ AccessGivesNode /\ FindsExactly /\ WalkGivesNodes
<1> SUFFICES ASSUME SearchInv PROVE TypeOK /\ WalkGivesNodes
  BY DEF SearchInv
<1>1. m_size = Len(level.from) /\ m_partitions = Count(level)
  BY DEF m_size, m_partitions, Count
<1>2. TypeOK
  BY <1>1 DEF SearchInv, Settled, TypeOK
<1>3. WalkGivesNodes
  BY <1>1 DEF SearchInv, Walks, WalkGivesNodes, IteratorsMoved
<1> QED
  BY <1>2, <1>3

(* What is written is read back, and in every call the shared iterator is  *)
(* where the search needs it.                                              *)
THEOREM SearchInvHolds == Spec => []SearchInv
<1> QED
  BY InitSearches, NextSearches, PTL DEF Spec

(* The shared iterator is always on a partition, at a position of it or at *)
(* its end.                                                                *)
THEOREM TypeOKHolds == Spec => []TypeOK
<1> QED
  BY SearchInvHolds, SearchInvGives, PTL

(* access gives the node, wherever earlier calls have left the iterator    *)
(* that it shares with find.                                               *)
THEOREM AccessGivesNodeHolds == Spec => []AccessGivesNode
<1> QED
  BY SearchInvHolds, SearchInvGives, PTL

(* find, by scanning or by bsearch over the bounds, gives the id's         *)
(* position, and not_found only if it is not in the range.                 *)
THEOREM FindsExactlyHolds == Spec => []FindsExactly
<1> QED
  BY SearchInvHolds, SearchInvGives, PTL

(* An iterator walks the nodes over partitions and ranges.                 *)
THEOREM WalkGivesNodesHolds == Spec => []WalkGivesNodes
<1> QED
  BY SearchInvHolds, SearchInvGives, PTL
=============================================================================
