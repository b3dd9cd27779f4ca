-------------------------- MODULE CompactEf_proofs --------------------------
(***************************************************************************)
(* Proofs about CompactEf, for every list of the constants. The partition  *)
(* is made of parts: what comes before it, two rows of pointers, the high  *)
(* bits and the low ones. Written says what each of them holds when k      *)
(* values are written and z zeros are passed; every write keeps it, for    *)
(* the part it is meant for gets what it should and the others do not      *)
(* change. When all is written, the ones of the high bits are those of the *)
(* values, so that a count of ones tells where a call arrives: the         *)
(* enumerator stands at a value with its one just consumed, or past the    *)
(* end, whatever is called.                                                *)
(***************************************************************************)
EXTENDS CompactEf, Basics_proofs

(* The width of the numbers up to x is not more than one they all have.    *)
LEMMA WidthWithin ==
  ASSUME NEW x \in Nat, NEW len \in Nat, x < power[len]
  PROVE  /\ ceil_log2(x + 1) \in 0 .. len
         /\ \A v \in 0 .. x : v < power[ceil_log2(x + 1)]
<1>0. \A k \in Nat : power[k] \in Nat \ {0}
  BY Powers
<1>1. CASE x = 0
  <2>1. ceil_log2(x + 1) = 0
    BY <1>1 DEF ceil_log2
  <2> QED
    BY <1>0, <1>1, <2>1, Powers
<1>2. CASE x # 0
  <2>1. ceil_log2(x + 1) = msb(x) + 1
    <3>1. x + 1 > 1 /\ (x + 1) - 1 = x
      BY <1>2
    <3> QED
      BY <3>1 DEF ceil_log2
  <2>2. PICK m \in Nat : m = msb(x) /\ power[m] <= x /\ x < power[m + 1]
    BY <1>2, MsbKnown
  <2>3. m < len
    <3>1. CASE len <= m
      <4>1. power[len] <= power[m]
        BY <3>1, PowersOrdered
      <4> QED
        BY <1>0, <2>2, <4>1
    <3> QED
      BY <1>0, <3>1
  <2>4. ASSUME NEW v \in 0 .. x PROVE v < power[m + 1]
    BY <1>0, <2>2
  <2> QED
    BY <1>0, <2>1, <2>2, <2>3, <2>4
<1> QED
  BY <1>1, <1>2

(* What never changes: the list, and where the partition begins.           *)
Given == list \in Lists /\ base_offset \in BaseOffsets

ValueAt(j) == list[j + 1]
HighAt(j) == high(ValueAt(j))

(* The bits that a read at a byte gets, wherever it begins.                *)
read_width == word_width - byte_width + 1

(* What is assumed of a list: its numbers, their order, and a bound.       *)
LEMMA Numbers ==
  ASSUME Given
  PROVE  /\ n \in Nat \ {0} /\ universe \in Nat \ {0} /\ base_offset \in Nat
         /\ read_width \in Nat /\ read_width <= word_width
         /\ n + universe + 2 <= power[read_width]
         /\ \A j \in 0 .. n - 1 : ValueAt(j) \in Nat /\ ValueAt(j) < universe
         /\ \A j, k \in 0 .. n - 1 : j <= k => ValueAt(j) <= ValueAt(k)
<1>1. /\ list \in Seq(Nat) /\ list # <<>> /\ base_offset \in Nat
      /\ \A j, k \in DOMAIN list : j <= k => list[j] <= list[k]
      /\ Len(list) + list[Len(list)] + 3 <= power[read_width]
  BY CompactEfAssumption DEF Given, read_width
<1>2. n \in Nat \ {0} /\ DOMAIN list = 1 .. n
  BY <1>1 DEF n
<1>3. list[n] \in Nat
  BY <1>1, <1>2
<1>4. read_width \in Nat /\ read_width <= word_width
  <2>1. byte_width <= word_width
    <3>1. PICK w \in Nat \ {0} : w = word_width
      BY WordsAssumption
    <3>2. PICK b \in Nat \ {0} : b = byte_width
      BY WordsAssumption
    <3>3. w % b = 0
      BY <3>1, <3>2, WordsAssumption
    <3>4. b <= w
      <4>1. CASE w < b
        <5>1. w = b * 0 + w /\ 0 \in Nat /\ w \in 0 .. b - 1
          BY <4>1
        <5>2. (b * 0 + w) % b = w
          BY <5>1, DivisionKnown
        <5> QED
          BY <3>3, <5>1, <5>2
      <4> QED
        BY <4>1
    <3> QED
      BY <3>1, <3>2, <3>4
  <2> QED
    BY <2>1, WordsAssumption DEF read_width
<1>5. n + universe + 2 <= power[read_width]
  <2>1. n + universe + 2 = Len(list) + list[Len(list)] + 3
    BY <1>2, <1>3 DEF n, universe
  <2> QED
    BY <1>1, <2>1
<1>6. ASSUME NEW j \in 0 .. n - 1 PROVE j + 1 \in 1 .. n
  BY <1>2
<1>7. \A j \in 0 .. n - 1 : ValueAt(j) \in Nat /\ ValueAt(j) < universe
  <2> TAKE j \in 0 .. n - 1
  <2>1. j + 1 \in DOMAIN list /\ n \in DOMAIN list /\ j + 1 <= n
    BY <1>2, <1>6
  <2>2. list[j + 1] \in Nat /\ list[j + 1] <= list[n]
    BY <1>1, <2>1
  <2> QED
    BY <1>3, <2>2 DEF ValueAt, universe
<1>8. \A j, k \in 0 .. n - 1 : j <= k => ValueAt(j) <= ValueAt(k)
  <2> TAKE j, k \in 0 .. n - 1
  <2> HAVE j <= k
  <2>1. j + 1 \in DOMAIN list /\ k + 1 \in DOMAIN list /\ j + 1 <= k + 1
    BY <1>2, <1>6
  <2> QED
    BY <1>1, <2>1 DEF ValueAt
<1> QED
  BY <1>1, <1>2, <1>3, <1>4, <1>5, <1>7, <1>8 DEF universe

(* The high bits and the low bits of the values.                           *)
LEMMA Halves ==
  ASSUME Given
  PROVE  /\ lower_bits \in Nat /\ lower_bits <= read_width /\ lower_bits <= word_width
         /\ power[lower_bits] \in Nat \ {0}
         /\ \A v \in Nat : /\ high(v) \in Nat /\ high(v) <= v
                           /\ v % power[lower_bits] \in Nat /\ v % power[lower_bits] < power[lower_bits]
                           /\ v = high(v) * power[lower_bits] + (v % power[lower_bits])
         /\ \A u, v \in Nat : u <= v => high(u) <= high(v)
<1>0. \A k \in Nat : power[k] \in Nat \ {0}
  BY Powers
<1>1. /\ n \in Nat \ {0} /\ universe \in Nat \ {0} /\ read_width \in Nat /\ read_width <= word_width
      /\ n + universe + 2 <= power[read_width] /\ word_width \in Nat
  BY Numbers, WordsAssumption
<1>2. lower_bits \in Nat /\ lower_bits <= read_width
  <2>1. CASE ~ universe > n
    BY <1>1, <2>1 DEF lower_bits
  <2>2. CASE universe > n
    <3>1. PICK a \in Nat, b \in Nat \ {0} : a = universe /\ b = n
      BY <1>1
    <3>2. PICK q \in Nat, r \in 0 .. b - 1 : q = a \div b /\ a = b * q + r
      BY <3>1, Division
    <3>3. q # 0
      BY <2>2, <3>1, <3>2
    <3>4. q <= a
      <4>1. b * q = q + (b - 1) * q /\ (b - 1) * q \in Nat
        OBVIOUS
      <4>2. PICK x \in Nat : x = (b - 1) * q
        BY <4>1
      <4>3. a = q + x + r
        BY <3>2, <4>1, <4>2
      <4> QED
        BY <4>2, <4>3
    <3>5. lower_bits = msb(q)
      BY <2>2, <3>1, <3>2 DEF lower_bits
    <3>6. PICK m \in Nat : m = msb(q) /\ power[m] <= q
      BY <3>2, <3>3, MsbKnown
    <3>7. m <= read_width
      <4>1. CASE read_width < m
        <5>1. power[read_width] <= power[m]
          BY <1>1, <3>6, <4>1, PowersOrdered
        <5>2. power[read_width] \in Nat /\ power[m] \in Nat
          BY <1>0, <1>1, <3>6
        <5> QED
          BY <1>1, <3>1, <3>4, <3>6, <5>1, <5>2
      <4> QED
        BY <1>1, <3>6, <4>1
    <3> QED
      BY <3>5, <3>6, <3>7
  <2> QED
    BY <2>1, <2>2
<1>3. PICK p \in Nat \ {0} : p = power[lower_bits]
  BY <1>0, <1>2
<1>4. ASSUME NEW v \in Nat
      PROVE  /\ high(v) \in Nat /\ high(v) <= v /\ v % p \in Nat /\ v % p < p
             /\ v = high(v) * p + (v % p)
  <2>1. PICK q \in Nat, r \in 0 .. p - 1 : q = v \div p /\ r = v % p /\ v = p * q + r
    BY Division
  <2>2. high(v) = q
    BY <1>3, <2>1 DEF high
  <2>3. p * q = q * p /\ p * q = q + (p - 1) * q /\ (p - 1) * q \in Nat
    OBVIOUS
  <2>4. PICK x \in Nat : x = (p - 1) * q
    BY <2>3
  <2>5. q <= v
    BY <2>1, <2>3, <2>4
  <2> QED
    BY <2>1, <2>2, <2>3, <2>5
<1>5. ASSUME NEW u \in Nat, NEW v \in Nat, u <= v PROVE high(u) <= high(v)
  BY <1>3, <1>5, DivisionOrdered DEF high
<1> QED
  BY <1>1, <1>2, <1>3, <1>4, <1>5

(* The parts of the partition, one after the other.                        *)
LEMMA Offsets ==
  ASSUME Given
  PROVE  /\ higher_bits_length \in Nat /\ higher_bits_length = n + high(universe) + 2
         /\ high(universe) \in Nat
         /\ pointer_size \in Nat /\ pointer_size <= read_width /\ pointer_size <= word_width
         /\ \A v \in Nat : v < higher_bits_length => v < power[pointer_size]
         /\ power[log_sampling0] \in Nat \ {0} /\ power[log_sampling1] \in Nat \ {0}
         /\ num_pointers0 \in Nat /\ num_pointers1 \in Nat
         /\ num_pointers0 * pointer_size \in Nat /\ num_pointers1 * pointer_size \in Nat
         /\ n * lower_bits \in Nat
         /\ pointers0_offset \in Nat /\ pointers1_offset \in Nat /\ higher_bits_offset \in Nat
         /\ lower_bits_offset \in Nat /\ end \in Nat
         /\ pointers0_offset = base_offset
         /\ pointers1_offset = base_offset + num_pointers0 * pointer_size
         /\ higher_bits_offset = pointers1_offset + num_pointers1 * pointer_size
         /\ lower_bits_offset = higher_bits_offset + higher_bits_length
         /\ end = lower_bits_offset + n * lower_bits
<1>0. \A k \in Nat : power[k] \in Nat \ {0}
  BY Powers
<1>1. /\ n \in Nat \ {0} /\ universe \in Nat \ {0} /\ base_offset \in Nat
      /\ read_width \in Nat /\ read_width <= word_width /\ word_width \in Nat
      /\ n + universe + 2 <= power[read_width] /\ power[read_width] \in Nat
  <2>1. read_width \in Nat
    BY Numbers
  <2> QED
    BY <1>0, <2>1, Numbers, WordsAssumption
<1>2. high(universe) \in Nat /\ high(universe) <= universe /\ lower_bits \in Nat
  BY <1>1, Halves
<1>3. higher_bits_length \in Nat /\ higher_bits_length = n + high(universe) + 2
      /\ higher_bits_length - 1 \in Nat /\ higher_bits_length - 1 < power[read_width]
  BY <1>1, <1>2 DEF higher_bits_length
<1>4. /\ pointer_size \in Nat /\ pointer_size <= read_width /\ pointer_size <= word_width
      /\ \A v \in Nat : v < higher_bits_length => v < power[pointer_size]
  <2>1. PICK x \in Nat : x = higher_bits_length - 1 /\ x < power[read_width] /\ x + 1 = higher_bits_length
    BY <1>3
  <2>2. /\ ceil_log2(x + 1) \in 0 .. read_width
        /\ \A v \in 0 .. x : v < power[ceil_log2(x + 1)]
    BY <1>1, <2>1, WidthWithin
  <2>3. ceil_log2(x + 1) = pointer_size
    BY <2>1 DEF pointer_size
  <2>4. \A v \in Nat : v < higher_bits_length => v \in 0 .. x
    BY <1>3, <2>1
  <2> QED
    BY <1>1, <2>2, <2>3, <2>4
<1>5. power[log_sampling0] \in Nat \ {0} /\ power[log_sampling1] \in Nat \ {0}
  BY <1>0, CompactEfAssumption
<1>6. num_pointers0 \in Nat
  <2>1. PICK a \in Nat, b \in Nat \ {0} : a = higher_bits_length - n /\ b = power[log_sampling0]
    BY <1>1, <1>2, <1>3, <1>5
  <2>2. a \div b \in Nat
    BY Division
  <2> QED
    BY <2>1, <2>2 DEF num_pointers0
<1>7. num_pointers1 \in Nat
  <2>1. PICK a \in Nat, b \in Nat \ {0} : a = n /\ b = power[log_sampling1]
    BY <1>1, <1>5
  <2>2. a \div b \in Nat
    BY Division
  <2> QED
    BY <2>1, <2>2 DEF num_pointers1
<1>8. num_pointers0 * pointer_size \in Nat /\ num_pointers1 * pointer_size \in Nat
      /\ n * lower_bits \in Nat
  <2>1. \A a, b \in Nat : a * b \in Nat
    OBVIOUS
  <2> QED
    BY <1>1, <1>2, <1>4, <1>6, <1>7, <2>1
<1>9. pointers0_offset = base_offset
  BY DEF pointers0_offset
<1>10. pointers1_offset = base_offset + num_pointers0 * pointer_size
  BY <1>9 DEF pointers1_offset
<1>11. higher_bits_offset = pointers1_offset + num_pointers1 * pointer_size
  BY DEF higher_bits_offset
<1>12. lower_bits_offset = higher_bits_offset + higher_bits_length
  BY DEF lower_bits_offset
<1>13. end = lower_bits_offset + n * lower_bits
  BY DEF end
<1>14. PICK a \in Nat, b \in Nat, c \in Nat :
         a = num_pointers0 * pointer_size /\ b = num_pointers1 * pointer_size /\ c = n * lower_bits
  BY <1>8
<1>15. pointers0_offset \in Nat /\ pointers1_offset \in Nat /\ higher_bits_offset \in Nat
       /\ lower_bits_offset \in Nat /\ end \in Nat
  BY <1>1, <1>3, <1>9, <1>10, <1>11, <1>12, <1>13, <1>14
<1> QED
  BY <1>2, <1>3, <1>4, <1>5, <1>6, <1>7, <1>8, <1>9, <1>10, <1>11, <1>12, <1>13, <1>15

(* A number of which b times it is not above a is not above the quotient.  *)
LEMMA WithinQuotient ==
  ASSUME NEW a \in Nat, NEW b \in Nat \ {0}, NEW t \in Nat, t * b <= a
  PROVE  t <= a \div b
<1>1. PICK q \in Nat, r \in 0 .. b - 1 : q = a \div b /\ a = b * q + r
  BY Division
<1>2. b * t < b * (q + 1)
  <2>1. b * (q + 1) = b * q + b /\ b * q \in Nat
    BY MultiplesOrdered
  <2>2. b * t = t * b /\ b * t \in Nat
    OBVIOUS
  <2>3. PICK x \in Nat, y \in Nat : x = b * q /\ y = b * t
    BY <2>1, <2>2
  <2> QED
    BY <1>1, <2>1, <2>2, <2>3
<1>3. q + 1 \in Nat
  OBVIOUS
<1>4. t < q + 1
  BY <1>2, <1>3, MultiplesOrdered
<1> QED
  BY <1>1, <1>4

(* Every sampled zero and every sampled one has its pointer.               *)
LEMMA Slots ==
  ASSUME Given, NEW t \in Nat \ {0}
  PROVE  /\ t * power[log_sampling0] \in Nat /\ t * power[log_sampling1] \in Nat
         /\ t <= t * power[log_sampling0] /\ t <= t * power[log_sampling1]
         /\ t * power[log_sampling0] < high(universe) + 2 => t - 1 \in 0 .. num_pointers0 - 1
         /\ t * power[log_sampling1] < n => t - 1 \in 0 .. num_pointers1 - 1
<1>1. /\ power[log_sampling0] \in Nat \ {0} /\ power[log_sampling1] \in Nat \ {0}
      /\ higher_bits_length = n + high(universe) + 2 /\ high(universe) \in Nat
      /\ num_pointers0 \in Nat /\ num_pointers1 \in Nat
  BY Offsets
<1>2. n \in Nat
  BY Numbers
<1>3. PICK a \in Nat \ {0} : a = power[log_sampling0]
  BY <1>1
<1>4. PICK b \in Nat \ {0} : b = power[log_sampling1]
  BY <1>1
<1>5. ASSUME NEW c \in Nat \ {0} PROVE t * c \in Nat /\ t <= t * c
  <2>1. t * c = t + t * (c - 1) /\ t * (c - 1) \in Nat
    OBVIOUS
  <2>2. PICK x \in Nat : x = t * (c - 1)
    BY <2>1
  <2> QED
    BY <2>1, <2>2
<1>6. ASSUME t * a < high(universe) + 2 PROVE t - 1 \in 0 .. num_pointers0 - 1
  <2>1. PICK h \in Nat : h = high(universe) + 2 /\ h = higher_bits_length - n
    BY <1>1, <1>2
  <2>2. t * a <= h
    BY <1>5, <1>6, <2>1
  <2>3. t <= h \div a
    BY <2>2, WithinQuotient
  <2>4. num_pointers0 = h \div a
    BY <1>3, <2>1 DEF num_pointers0
  <2> QED
    BY <1>1, <2>3, <2>4
<1>7. ASSUME t * b < n PROVE t - 1 \in 0 .. num_pointers1 - 1
  <2>1. PICK h \in Nat : h = n
    BY <1>2
  <2>2. t * b <= h
    BY <1>5, <1>7, <2>1
  <2>3. t <= h \div b
    BY <2>2, WithinQuotient
  <2>4. num_pointers1 = h \div b
    BY <1>4, <2>1 DEF num_pointers1
  <2> QED
    BY <1>1, <2>3, <2>4
<1> QED
  BY <1>3, <1>4, <1>5, <1>6, <1>7

(* Among the high bits, the place of the one of a value.                   *)
Rel(j) == HighAt(j) + j + 1

(* The ones come in order, with room after the last.                       *)
LEMMA OnesPlaced ==
  ASSUME Given
  PROVE  /\ \A j \in 0 .. n - 1 :
              /\ HighAt(j) \in Nat /\ HighAt(j) <= high(universe) /\ Rel(j) \in Nat
              /\ Rel(j) = HighAt(j) + j + 1
              /\ Rel(j) + 1 < higher_bits_length /\ BitOf(j) = higher_bits_offset + Rel(j)
              /\ BitOf(j) \in Nat /\ higher_bits_offset < BitOf(j) /\ BitOf(j) < lower_bits_offset
         /\ \A j, k \in 0 .. n - 1 : /\ j <= k => HighAt(j) <= HighAt(k)
                                     /\ j < k => Rel(j) < Rel(k) /\ BitOf(j) < BitOf(k)
<1>1. /\ n \in Nat \ {0} /\ universe \in Nat
      /\ \A j \in 0 .. n - 1 : ValueAt(j) \in Nat /\ ValueAt(j) < universe
      /\ \A j, k \in 0 .. n - 1 : j <= k => ValueAt(j) <= ValueAt(k)
  BY Numbers
<1>2. /\ higher_bits_length = n + high(universe) + 2 /\ high(universe) \in Nat
      /\ higher_bits_offset \in Nat /\ lower_bits_offset = higher_bits_offset + higher_bits_length
  BY Offsets
<1>3. /\ \A v \in Nat : high(v) \in Nat
      /\ \A u, v \in Nat : u <= v => high(u) <= high(v)
  BY Halves
<1>4. \A j \in 0 .. n - 1 : HighAt(j) \in Nat /\ HighAt(j) <= high(universe)
  <2> TAKE j \in 0 .. n - 1
  <2>1. ValueAt(j) \in Nat /\ ValueAt(j) <= universe
    BY <1>1
  <2> QED
    BY <1>1, <1>3, <2>1 DEF HighAt
<1>5. \A j, k \in 0 .. n - 1 : j <= k => HighAt(j) <= HighAt(k)
  BY <1>1, <1>3 DEF HighAt
<1>6. \A j \in 0 .. n - 1 : BitOf(j) = higher_bits_offset + Rel(j)
  BY <1>2, <1>4 DEF BitOf, Rel, HighAt, ValueAt
<1>7. \A j \in 0 .. n - 1 : Rel(j) = HighAt(j) + j + 1
  BY DEF Rel
<1>8. ASSUME NEW j \in 0 .. n - 1
      PROVE  /\ Rel(j) \in Nat /\ Rel(j) + 1 < higher_bits_length
             /\ BitOf(j) \in Nat /\ higher_bits_offset < BitOf(j) /\ BitOf(j) < lower_bits_offset
  BY <1>1, <1>2, <1>4, <1>6, <1>7
<1>9. ASSUME NEW j \in 0 .. n - 1, NEW k \in 0 .. n - 1, j < k
      PROVE  Rel(j) < Rel(k) /\ BitOf(j) < BitOf(k)
  <2>1. HighAt(j) <= HighAt(k) /\ HighAt(j) \in Nat /\ HighAt(k) \in Nat
    BY <1>4, <1>5, <1>9
  <2>2. Rel(j) < Rel(k)
    BY <1>7, <1>9, <2>1
  <2> QED
    BY <1>2, <1>6, <1>8, <2>2
<1> QED
  BY <1>4, <1>5, <1>6, <1>7, <1>8, <1>9

(* Of the ones, c come before the zero with z zeros before it.             *)
IsRank(z, c) ==
  /\ c \in 0 .. n
  /\ \A j \in 0 .. c - 1 : HighAt(j) < z
  /\ \A j \in c .. n - 1 : HighAt(j) >= z

(* Every zero has one number of ones before it, which never goes back.     *)
LEMMA RankKnown ==
  ASSUME Given, NEW z \in Nat
  PROVE  /\ \E c \in 0 .. n : IsRank(z, c)
         /\ \A y \in Nat, c, d \in 0 .. n : z <= y /\ IsRank(z, c) /\ IsRank(y, d) => c <= d
         /\ \A c, d \in 0 .. n : IsRank(z, c) /\ IsRank(z, d) => c = d
<1>1. /\ n \in Nat \ {0}
      /\ \A j \in 0 .. n - 1 : HighAt(j) \in Nat
      /\ \A j, k \in 0 .. n - 1 : j <= k => HighAt(j) <= HighAt(k)
  BY Numbers, OnesPlaced
<1>2. \E c \in 0 .. n : IsRank(z, c)
  <2> DEFINE T == {c \in 0 .. n : c < n => HighAt(c) >= z}
  <2>1. T \subseteq Nat /\ n \in T
    BY <1>1
  <2>2. PICK c \in T : \A y \in T : c <= y
    BY <2>1, LeastNatural
  <2>3. c \in 0 .. n /\ (c < n => HighAt(c) >= z)
    OBVIOUS
  <2>4. ASSUME NEW j \in 0 .. c - 1 PROVE HighAt(j) < z
    <3>1. j \in 0 .. n /\ j < n /\ ~ c <= j
      BY <1>1, <2>3
    <3>2. j \notin T
      BY <2>2, <3>1
    <3> QED
      BY <1>1, <3>1, <3>2
  <2>5. ASSUME NEW j \in c .. n - 1 PROVE HighAt(j) >= z
    <3>1. c \in 0 .. n - 1 /\ j \in 0 .. n - 1 /\ c <= j
      BY <1>1, <2>3
    <3>2. HighAt(c) >= z
      BY <1>1, <2>3, <3>1
    <3>3. HighAt(c) <= HighAt(j) /\ HighAt(c) \in Nat /\ HighAt(j) \in Nat
      BY <1>1, <3>1
    <3> QED
      BY <3>2, <3>3
  <2> QED
    BY <2>3, <2>4, <2>5 DEF IsRank
<1>3. ASSUME NEW y \in Nat, NEW c \in 0 .. n, NEW d \in 0 .. n, z <= y, IsRank(z, c), IsRank(y, d)
      PROVE  c <= d
  <2>1. CASE d < c
    <3>1. d \in 0 .. c - 1 /\ d \in d .. n - 1 /\ d \in 0 .. n - 1
      BY <1>1, <2>1
    <3>2. HighAt(d) < z /\ HighAt(d) >= y /\ HighAt(d) \in Nat
      BY <1>1, <1>3, <3>1 DEF IsRank
    <3> QED
      BY <1>3, <3>2
  <2> QED
    BY <1>1, <2>1
<1>4. ASSUME NEW c \in 0 .. n, NEW d \in 0 .. n, IsRank(z, c), IsRank(z, d)
      PROVE  c = d
  <2>1. z <= z
    OBVIOUS
  <2>2. c <= d /\ d <= c
    BY <1>3, <1>4, <2>1
  <2> QED
    BY <1>1, <2>2
<1> QED
  BY <1>2, <1>3, <1>4

(* The bits of the partition, part by part, when k values are written and  *)
(* z zeros are passed.                                                     *)
Sized(bv) == WordsFit(bv) /\ bv.size = end

Ahead(bv) == \A p \in 0 .. base_offset - 1 : BitAt(bv.words, p)

HighBits(bv, k) ==
  \A p \in higher_bits_offset .. lower_bits_offset - 1 :
    BitAt(bv.words, p) <=> \E j \in 0 .. k - 1 : p = BitOf(j)

LowParts(bv, k) ==
  \A j \in 0 .. k - 1 : Row(bv, lower_bits_offset, lower_bits, j, ValueAt(j) % power[lower_bits])

OnePointers(bv, k) ==
  \A t \in Nat \ {0} :
    t * power[log_sampling1] < k =>
      Row(bv, pointers1_offset, pointer_size, t - 1, Rel(t * power[log_sampling1]))

ZeroPointers(bv, z) ==
  \A t \in Nat \ {0} : \A c \in 0 .. n :
    t * power[log_sampling0] < z /\ IsRank(t * power[log_sampling0], c) =>
      Row(bv, pointers0_offset, pointer_size, t - 1, t * power[log_sampling0] + c)

Written(bv, k, z) ==
  Sized(bv) /\ Ahead(bv) /\ HighBits(bv, k) /\ LowParts(bv, k) /\ OnePointers(bv, k) /\ ZeroPointers(bv, z)

(* What is the same in a region is the same within it.                     *)
LEMMA AlikeWithin ==
  ASSUME NEW bv, NEW new, NEW a \in Nat, NEW b \in Nat, Alike(bv, new, a, b),
         NEW c \in Nat, NEW d \in Nat, a <= c, d <= b
  PROVE  Alike(bv, new, c, d)
<1>1. \A p \in c .. d - 1 : p \in a .. b - 1
  OBVIOUS
<1> QED
  BY <1>1 DEF Alike

(* A row in such a region is the same.                                     *)
LEMMA RowsSame ==
  ASSUME NEW bv, NEW new, NEW offset \in Nat, NEW width \in Nat, NEW m \in Nat,
         NEW b \in Nat, b = offset + m * width, Alike(bv, new, offset, b),
         NEW j \in 0 .. m - 1, NEW v, Row(bv, offset, width, j, v)
  PROVE  Row(new, offset, width, j, v)
<1>1. j \in Nat /\ j < m
  OBVIOUS
<1>2. j * width \in Nat /\ m * width \in Nat /\ j * width + width <= m * width
  BY <1>1, RowPlaces
<1>3. PICK x \in Nat, y \in Nat : x = j * width /\ y = m * width
  BY <1>2
<1>4. ASSUME NEW z \in Mask(width)
      PROVE  BitAt(new.words, offset + j * width + z) <=> BitAt(bv.words, offset + j * width + z)
  <2>1. z \in Nat /\ z < width
    BY DEF Mask
  <2>2. offset + x + z \in offset .. b - 1
    BY <1>2, <1>3, <2>1
  <2> QED
    BY <1>3, <2>2 DEF Alike
<1> QED
  BY <1>4 DEF Row

(* Each part depends on its own bits.                                      *)
LEMMA PartsSame ==
  ASSUME Given, NEW bv, NEW new, NEW k \in 0 .. n, NEW z \in Nat, z <= high(universe) + 2
  PROVE  /\ Alike(bv, new, 0, base_offset) /\ Ahead(bv) => Ahead(new)
         /\ Alike(bv, new, higher_bits_offset, lower_bits_offset) /\ HighBits(bv, k) => HighBits(new, k)
         /\ Alike(bv, new, lower_bits_offset, end) /\ LowParts(bv, k) => LowParts(new, k)
         /\ Alike(bv, new, pointers1_offset, higher_bits_offset) /\ OnePointers(bv, k) => OnePointers(new, k)
         /\ Alike(bv, new, pointers0_offset, pointers1_offset) /\ ZeroPointers(bv, z) => ZeroPointers(new, z)
<1>0. n \in Nat /\ lower_bits \in Nat
  BY Numbers, Halves
<1>1. /\ pointer_size \in Nat /\ num_pointers0 \in Nat /\ num_pointers1 \in Nat
      /\ pointers0_offset \in Nat /\ pointers1_offset \in Nat /\ higher_bits_offset \in Nat
      /\ lower_bits_offset \in Nat /\ end \in Nat /\ pointers0_offset = base_offset
      /\ pointers1_offset = pointers0_offset + num_pointers0 * pointer_size
      /\ higher_bits_offset = pointers1_offset + num_pointers1 * pointer_size
      /\ end = lower_bits_offset + n * lower_bits /\ high(universe) \in Nat
  BY Offsets
<1>2. ASSUME Alike(bv, new, 0, base_offset), Ahead(bv) PROVE Ahead(new)
  BY <1>2 DEF Ahead, Alike
<1>3. ASSUME Alike(bv, new, higher_bits_offset, lower_bits_offset), HighBits(bv, k) PROVE HighBits(new, k)
  BY <1>3 DEF HighBits, Alike
<1>4. ASSUME Alike(bv, new, lower_bits_offset, end), LowParts(bv, k) PROVE LowParts(new, k)
  <2>1. ASSUME NEW j \in 0 .. k - 1
        PROVE  Row(new, lower_bits_offset, lower_bits, j, ValueAt(j) % power[lower_bits])
    <3>1. j \in 0 .. n - 1
      BY <1>0
    <3>2. Row(bv, lower_bits_offset, lower_bits, j, ValueAt(j) % power[lower_bits])
      BY <1>4 DEF LowParts
    <3> QED
      BY <1>0, <1>1, <1>4, <3>1, <3>2, RowsSame
  <2> QED
    BY <2>1 DEF LowParts
<1>5. ASSUME Alike(bv, new, pointers1_offset, higher_bits_offset), OnePointers(bv, k) PROVE OnePointers(new, k)
  <2>1. ASSUME NEW t \in Nat \ {0}, t * power[log_sampling1] < k
        PROVE  Row(new, pointers1_offset, pointer_size, t - 1, Rel(t * power[log_sampling1]))
    <3>1. t * power[log_sampling1] \in Nat /\ (t * power[log_sampling1] < n => t - 1 \in 0 .. num_pointers1 - 1)
      BY Slots
    <3>2. t - 1 \in 0 .. num_pointers1 - 1
      BY <1>0, <2>1, <3>1
    <3>3. Row(bv, pointers1_offset, pointer_size, t - 1, Rel(t * power[log_sampling1]))
      BY <1>5, <2>1 DEF OnePointers
    <3> QED
      BY <1>1, <1>5, <3>2, <3>3, RowsSame
  <2> QED
    BY <2>1 DEF OnePointers
<1>6. ASSUME Alike(bv, new, pointers0_offset, pointers1_offset), ZeroPointers(bv, z) PROVE ZeroPointers(new, z)
  <2>1. ASSUME NEW t \in Nat \ {0}, NEW c \in 0 .. n,
               t * power[log_sampling0] < z, IsRank(t * power[log_sampling0], c)
        PROVE  Row(new, pointers0_offset, pointer_size, t - 1, t * power[log_sampling0] + c)
    <3>1. t * power[log_sampling0] \in Nat
          /\ (t * power[log_sampling0] < high(universe) + 2 => t - 1 \in 0 .. num_pointers0 - 1)
      BY Slots
    <3>2. t - 1 \in 0 .. num_pointers0 - 1
      BY <1>1, <2>1, <3>1
    <3>3. Row(bv, pointers0_offset, pointer_size, t - 1, t * power[log_sampling0] + c)
      BY <1>6, <2>1 DEF ZeroPointers
    <3> QED
      BY <1>1, <1>6, <3>2, <3>3, RowsSame
  <2> QED
    BY <2>1 DEF ZeroPointers
<1> QED
  BY <1>2, <1>3, <1>4, <1>5, <1>6

(* What has the size and the words of the vector has its size.             *)
LEMMA SizedKept ==
  ASSUME NEW bv, Sized(bv), NEW new, new \in [size : Nat, words : Seq(Word)],
         new.size = bv.size, Len(new.words) = Len(bv.words)
  PROVE  Sized(new)
BY DEF Sized, WordsFit

(* Its words take all its bits.                                            *)
LEMMA SizedKnown ==
  ASSUME NEW bv, Sized(bv)
  PROVE  /\ BitVec(bv) /\ bv \in [size : Nat, words : Seq(Word)] /\ bv.size = end
         /\ word_width * Len(bv.words) \in Nat /\ end <= word_width * Len(bv.words)
<1>1. WordsFit(bv) /\ bv.size = end
  BY DEF Sized
<1> QED
  BY <1>1, WordsFitKnown

(* The one of a value is set.                                              *)
LEMMA HighSet ==
  ASSUME Given, NEW bv, Sized(bv), NEW k \in 0 .. n - 1, HighBits(bv, k),
         NEW new, new = set_bit(bv, BitOf(k))
  PROVE  /\ Sized(new) /\ HighBits(new, k + 1)
         /\ Alike(bv, new, 0, higher_bits_offset) /\ Alike(bv, new, lower_bits_offset, end)
<1>1. /\ BitVec(bv) /\ bv \in [size : Nat, words : Seq(Word)] /\ bv.size = end
      /\ word_width * Len(bv.words) \in Nat /\ end <= word_width * Len(bv.words)
  BY SizedKnown
<1>2. /\ higher_bits_offset \in Nat /\ lower_bits_offset \in Nat /\ end \in Nat
      /\ n * lower_bits \in Nat /\ end = lower_bits_offset + n * lower_bits /\ n \in Nat
      /\ higher_bits_offset < BitOf(k) /\ BitOf(k) < lower_bits_offset /\ BitOf(k) \in Nat
  BY Offsets, OnesPlaced, Numbers
<1>3. BitOf(k) < end /\ lower_bits_offset <= end
  <2>1. PICK a \in Nat : a = n * lower_bits
    BY <1>2
  <2> QED
    BY <1>2, <2>1
<1>4. PICK pos \in Nat : pos = BitOf(k) /\ pos < word_width * Len(bv.words)
  BY <1>1, <1>2, <1>3
<1>5. /\ new \in [size : Nat, words : Seq(Word)] /\ new.size = bv.size
      /\ Len(new.words) = Len(bv.words)
      /\ \A p \in 0 .. word_width * Len(bv.words) - 1 :
           BitAt(new.words, p) <=> p = pos \/ BitAt(bv.words, p)
  BY <1>1, <1>4, BitGiven
<1>6. ASSUME NEW p \in Nat, p < end PROVE BitAt(new.words, p) <=> p = BitOf(k) \/ BitAt(bv.words, p)
  <2>1. p \in 0 .. word_width * Len(bv.words) - 1
    BY <1>1, <1>2, <1>6
  <2> QED
    BY <1>4, <1>5, <2>1
<1>7. Sized(new)
  BY <1>5, SizedKept
<1>8. HighBits(new, k + 1)
  <2>1. ASSUME NEW p \in higher_bits_offset .. lower_bits_offset - 1
        PROVE  BitAt(new.words, p) <=> \E j \in 0 .. (k + 1) - 1 : p = BitOf(j)
    <3>1. p \in Nat /\ p < end
      BY <1>2, <1>3
    <3>2. BitAt(bv.words, p) <=> \E j \in 0 .. k - 1 : p = BitOf(j)
      BY DEF HighBits
    <3>3. \A j : j \in 0 .. (k + 1) - 1 <=> j \in 0 .. k - 1 \/ j = k
      BY <1>2
    <3> QED
      BY <1>6, <3>1, <3>2, <3>3
  <2> QED
    BY <2>1 DEF HighBits
<1>9. Alike(bv, new, 0, higher_bits_offset)
  <2>1. \A p \in 0 .. higher_bits_offset - 1 : p \in Nat /\ p < end /\ p # BitOf(k)
    BY <1>2, <1>3
  <2> QED
    BY <1>6, <2>1 DEF Alike
<1>10. Alike(bv, new, lower_bits_offset, end)
  <2>1. \A p \in lower_bits_offset .. end - 1 : p \in Nat /\ p < end /\ p # BitOf(k)
    BY <1>2, <1>3
  <2> QED
    BY <1>6, <2>1 DEF Alike
<1> QED
  BY <1>7, <1>8, <1>9, <1>10

(* new is bv with v as value j of a row of m that ends at b.               *)
SetInRow(bv, new, offset, width, m, b, j, v) ==
  /\ Sized(new) /\ Row(new, offset, width, j, v)
  /\ \A k \in 0 .. m - 1 : \A u :
       k # j /\ Row(bv, offset, width, k, u) => Row(new, offset, width, k, u)
  /\ Alike(bv, new, 0, offset) /\ Alike(bv, new, b, end)

(* A value of a row is set among those of the partition.                   *)
LEMMA RowSet ==
  ASSUME Given, NEW bv, Sized(bv), NEW offset \in Nat, NEW width \in Nat, width <= word_width,
         NEW m \in Nat, NEW j \in 0 .. m - 1, NEW b, b = offset + m * width, b <= end,
         NEW v \in Nat, v < power[width],
         NEW new, new = set_bits(bv, offset + j * width, bits_of(v), width)
  PROVE  SetInRow(bv, new, offset, width, m, b, j, v)
<1>1. BitVec(bv) /\ bv \in [size : Nat, words : Seq(Word)] /\ bv.size = end
  BY SizedKnown
<1>2. width \in 0 .. word_width
  BY WordsAssumption
<1>3. /\ Resembles(bv, new) /\ Row(new, offset, width, j, v)
      /\ \A k \in 0 .. m - 1 : \A u :
           k # j /\ Row(bv, offset, width, k, u) => Row(new, offset, width, k, u)
      /\ Alike(bv, new, 0, offset) /\ Alike(bv, new, b, bv.size)
  BY <1>1, <1>2, RowWritten
<1>4. Sized(new)
  BY <1>3, SizedKept DEF Resembles
<1> QED
  BY <1>1, <1>3, <1>4 DEF SetInRow

(* The low bits of a value are set.                                        *)
LEMMA LowSet ==
  ASSUME Given, NEW bv, Sized(bv), NEW k \in 0 .. n - 1, LowParts(bv, k),
         NEW new, new = set_bits(bv, lower_bits_offset + k * lower_bits,
                                 bits_of(ValueAt(k) % power[lower_bits]), lower_bits)
  PROVE  Sized(new) /\ LowParts(new, k + 1) /\ Alike(bv, new, 0, lower_bits_offset)
<1>1. /\ lower_bits \in Nat /\ lower_bits <= word_width /\ n \in Nat /\ ValueAt(k) \in Nat
      /\ lower_bits_offset \in Nat /\ end \in Nat /\ end = lower_bits_offset + n * lower_bits /\ end <= end
  BY Halves, Numbers, Offsets
<1>2. PICK v \in Nat : v = ValueAt(k) % power[lower_bits] /\ v < power[lower_bits]
  BY <1>1, Halves
<1>3. /\ Sized(new) /\ Row(new, lower_bits_offset, lower_bits, k, v)
      /\ \A j \in 0 .. n - 1 : \A u :
           j # k /\ Row(bv, lower_bits_offset, lower_bits, j, u) => Row(new, lower_bits_offset, lower_bits, j, u)
      /\ Alike(bv, new, 0, lower_bits_offset)
  <2>1. PICK o \in Nat, w \in Nat, b \in Nat : o = lower_bits_offset /\ w = lower_bits /\ b = end
    BY <1>1
  <2>2. PICK m \in Nat : m = n
    BY <1>1
  <2>3. k \in 0 .. m - 1 /\ b = o + m * w /\ b <= end /\ w <= word_width /\ v < power[w]
    BY <1>1, <1>2, <2>1, <2>2
  <2>4. new = set_bits(bv, o + k * w, bits_of(v), w)
    BY <1>2, <2>1
  <2>5. SetInRow(bv, new, o, w, m, b, k, v)
    BY <2>3, <2>4, RowSet
  <2> QED
    BY <2>1, <2>2, <2>5 DEF SetInRow
<1>4. ASSUME NEW j \in 0 .. (k + 1) - 1
      PROVE  Row(new, lower_bits_offset, lower_bits, j, ValueAt(j) % power[lower_bits])
  <2>1. CASE j = k
    BY <1>2, <1>3, <2>1
  <2>2. CASE j # k
    <3>1. j \in 0 .. k - 1 /\ j \in 0 .. n - 1
      BY <1>1, <2>2
    <3> QED
      BY <1>3, <2>2, <3>1 DEF LowParts
  <2> QED
    BY <2>1, <2>2
<1> QED
  BY <1>3, <1>4 DEF LowParts

(* If a one is sampled its pointer is set.                                 *)
LEMMA OneSet ==
  ASSUME Given, NEW bv, Sized(bv), NEW k \in 0 .. n - 1, OnePointers(bv, k),
         NEW new, new = IF sampled(k, log_sampling1)
                        THEN set_pointer(bv, pointers1_offset, k \div power[log_sampling1], Rel(k))
                        ELSE bv
  PROVE  /\ Sized(new) /\ OnePointers(new, k + 1)
         /\ Alike(bv, new, 0, pointers1_offset) /\ Alike(bv, new, higher_bits_offset, end)
<1>1. /\ pointer_size \in Nat /\ pointer_size <= word_width /\ num_pointers1 \in Nat
      /\ pointers1_offset \in Nat /\ higher_bits_offset \in Nat /\ end \in Nat
      /\ higher_bits_offset = pointers1_offset + num_pointers1 * pointer_size
      /\ \A v \in Nat : v < higher_bits_length => v < power[pointer_size]
      /\ higher_bits_length \in Nat /\ lower_bits_offset = higher_bits_offset + higher_bits_length
      /\ end = lower_bits_offset + n * lower_bits /\ n * lower_bits \in Nat
  BY Offsets
<1>2. n \in Nat /\ k \in Nat /\ Rel(k) \in Nat /\ Rel(k) + 1 < higher_bits_length
  BY Numbers, OnesPlaced
<1>3. higher_bits_offset <= end
  <2>1. PICK a \in Nat : a = n * lower_bits
    BY <1>1
  <2> QED
    BY <1>1, <2>1
<1>4. PICK p \in Nat \ {0} : p = power[log_sampling1]
  BY Offsets
<1>5. ASSUME NEW t \in Nat \ {0} PROVE t * p \in Nat /\ (t * p = k => k # 0 /\ k \div p = t /\ k % p = 0)
  <2>1. t * p \in Nat /\ t <= t * p
    BY <1>4, Slots
  <2>2. p * t + 0 = t * p /\ 0 \in 0 .. p - 1 /\ t \in Nat
    OBVIOUS
  <2>3. (p * t + 0) \div p = t /\ (p * t + 0) % p = 0
    BY <2>2, DivisionKnown
  <2> QED
    BY <2>1, <2>2, <2>3
<1>6. ASSUME NEW t \in Nat \ {0}, t * p < k + 1 PROVE t * p < k \/ t * p = k
  BY <1>2, <1>5, <1>6
<1>7. CASE ~ sampled(k, log_sampling1)
  <2>1. new = bv
    BY <1>7
  <2>2. ASSUME NEW t \in Nat \ {0}, t * p < k + 1 PROVE t * p < k
    BY <1>4, <1>5, <1>6, <1>7, <2>2 DEF sampled
  <2>3. OnePointers(bv, k + 1)
    BY <1>4, <2>2 DEF OnePointers
  <2> QED
    BY <2>1, <2>3 DEF Alike
<1>8. CASE sampled(k, log_sampling1)
  <2>1. k # 0 /\ k % p = 0
    BY <1>4, <1>8 DEF sampled
  <2>2. PICK s \in Nat : s = k \div p /\ k = p * s + (k % p)
    BY <1>2, Division
  <2>3. k = s * p /\ s # 0
    BY <2>1, <2>2
  <2>4. PICK x \in 0 .. num_pointers1 - 1 : x = s - 1
    <3>1. s \in Nat \ {0} /\ s * power[log_sampling1] < n
      BY <1>2, <1>4, <2>3
    <3> QED
      BY <3>1, Slots
  <2>5. PICK v \in Nat : v = Rel(k) /\ v < power[pointer_size]
    BY <1>1, <1>2
  <2>6. new = set_bits(bv, pointers1_offset + x * pointer_size, bits_of(v), pointer_size)
    BY <1>4, <1>8, <2>2, <2>4, <2>5 DEF set_pointer
  <2>7. /\ Sized(new) /\ Row(new, pointers1_offset, pointer_size, x, v)
        /\ \A j \in 0 .. num_pointers1 - 1 : \A u :
             j # x /\ Row(bv, pointers1_offset, pointer_size, j, u) => Row(new, pointers1_offset, pointer_size, j, u)
        /\ Alike(bv, new, 0, pointers1_offset) /\ Alike(bv, new, higher_bits_offset, end)
    <3>1. PICK o \in Nat, w \in Nat, b \in Nat, m \in Nat :
            o = pointers1_offset /\ w = pointer_size /\ b = higher_bits_offset /\ m = num_pointers1
      BY <1>1
    <3>2. x \in 0 .. m - 1 /\ b = o + m * w /\ b <= end /\ w <= word_width /\ v < power[w]
      BY <1>1, <1>3, <2>5, <3>1
    <3>3. new = set_bits(bv, o + x * w, bits_of(v), w)
      BY <2>6, <3>1
    <3>4. SetInRow(bv, new, o, w, m, b, x, v)
      BY <3>2, <3>3, RowSet
    <3> QED
      BY <3>1, <3>4 DEF SetInRow
  <2>8. ASSUME NEW t \in Nat \ {0}, t * p < k + 1
        PROVE  Row(new, pointers1_offset, pointer_size, t - 1, Rel(t * p))
    <3>1. CASE t = s
      BY <2>3, <2>4, <2>5, <2>7, <3>1
    <3>2. CASE t # s
      <4>1. t * p # k
        BY <1>5, <2>2, <3>2
      <4>2. t * p < k
        BY <1>6, <2>8, <4>1
      <4>3. t - 1 \in 0 .. num_pointers1 - 1
        <5>1. t * power[log_sampling1] < n
          BY <1>2, <1>4, <1>5, <4>2
        <5> QED
          BY <5>1, Slots
      <4>4. t - 1 # x
        BY <2>4, <3>2
      <4>5. Row(bv, pointers1_offset, pointer_size, t - 1, Rel(t * p))
        BY <1>4, <4>2 DEF OnePointers
      <4> QED
        BY <2>7, <4>3, <4>4, <4>5
    <3> QED
      BY <3>1, <3>2
  <2>9. OnePointers(new, k + 1)
    BY <1>4, <2>8 DEF OnePointers
  <2> QED
    BY <2>7, <2>9
<1> QED
  BY <1>7, <1>8

(* The pointer to a sampled zero is set.                                   *)
LEMMA ZeroSet ==
  ASSUME Given, NEW bv, Sized(bv), NEW t \in Nat \ {0}, NEW c \in 0 .. n,
         t * power[log_sampling0] < high(universe) + 2,
         NEW v, v = t * power[log_sampling0] + c,
         NEW new, new = set_pointer(bv, pointers0_offset, t, v)
  PROVE  /\ Sized(new) /\ Row(new, pointers0_offset, pointer_size, t - 1, v)
         /\ \A k \in 0 .. num_pointers0 - 1 : \A u :
              k # t - 1 /\ Row(bv, pointers0_offset, pointer_size, k, u)
                => Row(new, pointers0_offset, pointer_size, k, u)
         /\ Alike(bv, new, 0, pointers0_offset) /\ Alike(bv, new, pointers1_offset, end)
<1>1. /\ pointer_size \in Nat /\ pointer_size <= word_width /\ num_pointers0 \in Nat
      /\ pointers0_offset \in Nat /\ pointers1_offset \in Nat /\ end \in Nat
      /\ pointers1_offset = pointers0_offset + num_pointers0 * pointer_size
      /\ \A a \in Nat : a < higher_bits_length => a < power[pointer_size]
      /\ higher_bits_length = n + high(universe) + 2 /\ high(universe) \in Nat
      /\ pointers0_offset = base_offset
  BY Offsets
<1>2. n \in Nat /\ pointers1_offset <= end
  <2>1. /\ higher_bits_offset = pointers1_offset + num_pointers1 * pointer_size
        /\ lower_bits_offset = higher_bits_offset + higher_bits_length
        /\ end = lower_bits_offset + n * lower_bits /\ higher_bits_length \in Nat
        /\ num_pointers1 * pointer_size \in Nat /\ n * lower_bits \in Nat
    BY Offsets
  <2>2. PICK a \in Nat, b \in Nat : a = num_pointers1 * pointer_size /\ b = n * lower_bits
    BY <2>1
  <2> QED
    BY <1>1, <2>1, <2>2, Numbers
<1>3. t * power[log_sampling0] \in Nat /\ t - 1 \in 0 .. num_pointers0 - 1
  BY Slots
<1>4. PICK x \in 0 .. num_pointers0 - 1 : x = t - 1
  BY <1>3
<1>5. PICK y \in Nat : y = t * power[log_sampling0]
  BY <1>3
<1>6. v \in Nat /\ v < power[pointer_size]
  <2>1. v \in Nat /\ v < higher_bits_length
    BY <1>1, <1>2, <1>5
  <2> QED
    BY <1>1, <2>1
<1>7. PICK o \in Nat, w \in Nat, b \in Nat, m \in Nat :
        o = pointers0_offset /\ w = pointer_size /\ b = pointers1_offset /\ m = num_pointers0
  BY <1>1
<1>8. PICK a \in Nat : a = v
  BY <1>6
<1>9. x \in 0 .. m - 1 /\ b = o + m * w /\ b <= end /\ w <= word_width /\ a < power[w]
  BY <1>1, <1>2, <1>6, <1>7, <1>8
<1>10. new = set_bits(bv, o + x * w, bits_of(a), w)
  BY <1>4, <1>7, <1>8 DEF set_pointer
<1>11. SetInRow(bv, new, o, w, m, b, x, a)
  BY <1>9, <1>10, RowSet
<1> QED
  BY <1>4, <1>7, <1>8, <1>11 DEF SetInRow

(* The recursion of set_ptr0s, for the zeros before y.                     *)
PointersFrom(bv, y, rank_end) ==
  CHOOSE setting : setting =
    [ptr0 \in Nat |->
       IF ptr0 * power[log_sampling0] >= y THEN bv
       ELSE IF ptr0 = 0 THEN setting[1]
       ELSE set_pointer(setting[ptr0 + 1], pointers0_offset, ptr0, ptr0 * power[log_sampling0] + rank_end)]

(* Though it goes to higher pointers it is defined: they come to an end.   *)
LEMMA PointersDefined ==
  ASSUME Given, NEW bv, Sized(bv), NEW c \in 0 .. n, NEW y \in Nat \ {0}, y <= high(universe) + 2,
         NEW setting, setting = PointersFrom(bv, y, c)
  PROVE  \A t \in Nat :
           setting[t] = IF t * power[log_sampling0] >= y THEN bv
                    ELSE IF t = 0 THEN setting[1]
                    ELSE set_pointer(setting[t + 1], pointers0_offset, t, t * power[log_sampling0] + c)
<1> DEFINE S == {x \in [size : Nat, words : Seq(Word)] : Sized(x)}
           P == power[log_sampling0]
           Given0(t) == t \in Nat \ {0} /\ t * P < y
           Value(t, b) == IF Given0(t) THEN set_pointer(b, pointers0_offset, t, t * P + c)
                          ELSE IF t = 0 THEN b ELSE bv
           step == [x \in Nat \X S |-> Value(y - (x[1] + 1), x[2])]
<1>0. P \in Nat \ {0} /\ high(universe) \in Nat
  BY Offsets
<1>1. bv \in S
  BY SizedKnown
<1>2. ASSUME NEW t, NEW b \in S PROVE Value(t, b) \in S
  <2>1. CASE Given0(t)
    <3>1. Sized(b) /\ t \in Nat \ {0} /\ t * P < y
      BY <2>1
    <3>2. t * P < high(universe) + 2
      <4>1. t * P \in Nat
        BY <1>0, <3>1
      <4> QED
        BY <1>0, <3>1, <4>1
    <3>3. PICK v : v = t * P + c
      OBVIOUS
    <3>4. PICK new : new = set_pointer(b, pointers0_offset, t, v)
      OBVIOUS
    <3>5. Sized(new)
      BY <3>1, <3>2, <3>3, <3>4, ZeroSet
    <3>6. new \in S
      BY <3>5, SizedKnown
    <3> QED
      BY <2>1, <3>3, <3>4, <3>6
  <2>2. CASE ~ Given0(t)
    BY <1>1, <2>2
  <2> QED
    BY <2>1, <2>2
<1> HIDE DEF S
<1>3. \A k \in Nat, b \in S : step[<<k, b>>] = Value(y - (k + 1), b)
  OBVIOUS
<1>4. step \in [Nat \X S -> S]
  <2> HIDE DEF Value
  <2>1. \A x \in Nat \X S : Value(y - (x[1] + 1), x[2]) \in S
    BY <1>2
  <2> QED
    BY <2>1
<1> HIDE DEF step, Value
<1>5. PICK g \in [Nat -> S] : g[0] = bv /\ \A k \in Nat : g[k + 1] = step[<<k, g[k]>>]
  <2>1. Steps(S, bv, step)
    BY <1>1, <1>4 DEF Steps
  <2>2. HasRecursion(S, bv, step)
    BY <2>1, Recursion
  <2> QED
    BY <2>2 DEF HasRecursion
<1>6. \A k \in Nat : g[k + 1] = Value(y - (k + 1), g[k])
  BY <1>3, <1>5
<1> DEFINE f == [t \in Nat |-> IF t >= y THEN bv ELSE g[y - t]]
           Body(h, t) == IF t * P >= y THEN bv
                         ELSE IF t = 0 THEN h[1]
                         ELSE set_pointer(h[t + 1], pointers0_offset, t, t * P + c)
<1>7. ASSUME NEW t \in Nat PROVE f[t] = Body(f, t)
  <2>0. t * P \in Nat /\ (t # 0 => t <= t * P) /\ f[t] = (IF t >= y THEN bv ELSE g[y - t])
        /\ f[t + 1] = (IF t + 1 >= y THEN bv ELSE g[y - (t + 1)])
    <3>1. t * P = t + t * (P - 1) /\ t * (P - 1) \in Nat /\ t * P \in Nat
      <4> HIDE DEF P
      <4> QED
        BY <1>0
    <3>2. PICK a \in Nat : a = t * (P - 1)
      BY <3>1
    <3>3. t <= t * P
      BY <3>1, <3>2
    <3> QED
      BY <3>1, <3>3
  <2> HIDE DEF f
  <2>1. CASE t >= y
    <3>1. t * P >= y
      BY <2>0, <2>1
    <3> QED
      BY <2>0, <2>1, <3>1
  <2>2. CASE ~ t >= y
    <3>1. PICK d \in Nat : d = y - (t + 1) /\ y - t = d + 1 /\ y - (d + 1) = t
      BY <2>2
    <3>2. f[t] = Value(t, g[d])
      BY <1>6, <2>0, <2>2, <3>1
    <3>3. f[t + 1] = g[d]
      <4>1. CASE t + 1 >= y
        <5>1. d = 0
          BY <2>2, <3>1, <4>1
        <5> QED
          BY <1>5, <2>0, <4>1, <5>1
      <4>2. CASE ~ t + 1 >= y
        BY <2>0, <3>1, <4>2
      <4> QED
        BY <4>1, <4>2
    <3>4. CASE t = 0
      <4>1. ~ t * P >= y
        BY <1>0, <3>4
      <4>2. Value(t, g[d]) = g[d] /\ f[1] = g[d]
        BY <3>3, <3>4 DEF Value
      <4> QED
        BY <3>2, <3>4, <4>1, <4>2
    <3>5. CASE t # 0 /\ t * P >= y
      <4>1. Value(t, g[d]) = bv
        BY <2>0, <3>5 DEF Value
      <4> QED
        BY <3>2, <3>5, <4>1
    <3>6. CASE t # 0 /\ ~ t * P >= y
      <4>1. Given0(t)
        BY <2>0, <3>6
      <4>2. Value(t, g[d]) = set_pointer(g[d], pointers0_offset, t, t * P + c)
        BY <4>1 DEF Value
      <4> QED
        BY <3>2, <3>3, <3>6, <4>2
    <3> QED
      BY <3>4, <3>5, <3>6
  <2> QED
    BY <2>1, <2>2
<1> HIDE DEF Body
<1>8. f = [t \in Nat |-> Body(f, t)]
  BY <1>7
<1> HIDE DEF f
<1>9. PointersFrom(bv, y, c) = CHOOSE h : h = [t \in Nat |-> Body(h, t)]
  BY DEF PointersFrom, Body
<1>10. setting = [t \in Nat |-> Body(setting, t)]
  BY <1>8, <1>9
<1>11. \A t \in Nat : setting[t] = Body(setting, t)
  BY <1>10
<1> QED
  BY <1>11 DEF Body

(* What is the same twice is the same.                                     *)
LEMMA AlikeOn ==
  ASSUME NEW a, NEW b, NEW c, NEW from, NEW to, Alike(a, b, from, to), Alike(b, c, from, to)
  PROVE  Alike(a, c, from, to)
BY DEF Alike

(* new is bv with the pointers from t on set, to the zeros before y.       *)
PointersSetFrom(bv, new, y, c, t) ==
  /\ Sized(new) /\ Alike(bv, new, 0, pointers0_offset) /\ Alike(bv, new, pointers1_offset, end)
  /\ \A s \in Nat \ {0} : \A u :
       s < t /\ s - 1 \in 0 .. num_pointers0 - 1 /\ Row(bv, pointers0_offset, pointer_size, s - 1, u)
         => Row(new, pointers0_offset, pointer_size, s - 1, u)
  /\ \A s \in Nat \ {0} :
       s >= t /\ s * power[log_sampling0] < y
         => Row(new, pointers0_offset, pointer_size, s - 1, s * power[log_sampling0] + c)

(* One pointer more.                                                       *)
LEMMA PointerStep ==
  ASSUME Given, NEW bv, Sized(bv), NEW c \in 0 .. n, NEW y \in Nat \ {0}, y <= high(universe) + 2,
         NEW t \in Nat \ {0}, NEW b, PointersSetFrom(bv, b, y, c, t + 1),
         t * power[log_sampling0] < y,
         NEW new, new = set_pointer(b, pointers0_offset, t, t * power[log_sampling0] + c)
  PROVE  PointersSetFrom(bv, new, y, c, t)
<1>0. PICK p \in Nat \ {0} : p = power[log_sampling0]
  BY Offsets
<1>1. high(universe) \in Nat /\ num_pointers0 \in Nat
  BY Offsets
<1>2. ASSUME NEW s \in Nat \ {0}, s * p < y PROVE s * p < high(universe) + 2 /\ s - 1 \in 0 .. num_pointers0 - 1
  <2>1. s * p \in Nat
    OBVIOUS
  <2>2. s * p < high(universe) + 2
    BY <1>1, <1>2, <2>1
  <2> QED
    BY <1>0, <2>2, Slots
<1>3. t * p < high(universe) + 2
  BY <1>0, <1>2
<1>4. PICK v : v = t * p + c
  OBVIOUS
<1>5. Sized(b)
  BY DEF PointersSetFrom
<1>6. new = set_pointer(b, pointers0_offset, t, v)
  BY <1>0, <1>4
<1>7. /\ Sized(new) /\ Row(new, pointers0_offset, pointer_size, t - 1, v)
      /\ \A k \in 0 .. num_pointers0 - 1 : \A u :
           k # t - 1 /\ Row(b, pointers0_offset, pointer_size, k, u)
             => Row(new, pointers0_offset, pointer_size, k, u)
      /\ Alike(b, new, 0, pointers0_offset) /\ Alike(b, new, pointers1_offset, end)
  BY <1>0, <1>3, <1>4, <1>5, <1>6, ZeroSet
<1>8. Alike(bv, new, 0, pointers0_offset) /\ Alike(bv, new, pointers1_offset, end)
  BY <1>7, AlikeOn DEF PointersSetFrom
<1>9. ASSUME NEW s \in Nat \ {0}, NEW u, s < t, s - 1 \in 0 .. num_pointers0 - 1,
             Row(bv, pointers0_offset, pointer_size, s - 1, u)
      PROVE  Row(new, pointers0_offset, pointer_size, s - 1, u)
  <2>1. s < t + 1 /\ s - 1 # t - 1
    BY <1>9
  <2>2. Row(b, pointers0_offset, pointer_size, s - 1, u)
    BY <1>9, <2>1 DEF PointersSetFrom
  <2> QED
    BY <1>7, <1>9, <2>1, <2>2
<1>10. ASSUME NEW s \in Nat \ {0}, s >= t, s * p < y
       PROVE  Row(new, pointers0_offset, pointer_size, s - 1, s * p + c)
  <2>1. CASE s = t
    BY <1>4, <1>7, <2>1
  <2>2. CASE s # t
    <3>1. s >= t + 1 /\ s - 1 # t - 1
      BY <1>10, <2>2
    <3>2. Row(b, pointers0_offset, pointer_size, s - 1, s * p + c)
      BY <1>0, <1>10, <3>1 DEF PointersSetFrom
    <3>3. s - 1 \in 0 .. num_pointers0 - 1
      BY <1>2, <1>10
    <3> QED
      BY <1>7, <3>1, <3>2, <3>3
  <2> QED
    BY <2>1, <2>2
<1> QED
  BY <1>0, <1>7, <1>8, <1>9, <1>10 DEF PointersSetFrom

(* From the last pointer down, all that are called for are set.            *)
LEMMA PointersFollow ==
  ASSUME Given, NEW bv, Sized(bv), NEW c \in 0 .. n, NEW y \in Nat \ {0}, y <= high(universe) + 2,
         NEW setting, setting = PointersFrom(bv, y, c), NEW t \in 0 .. y
  PROVE  PointersSetFrom(bv, setting[t], y, c, t)
<1>0. PICK p \in Nat \ {0} : p = power[log_sampling0]
  BY Offsets
<1>1. \A k \in Nat :
        setting[k] = IF k * p >= y THEN bv
                 ELSE IF k = 0 THEN setting[1]
                 ELSE set_pointer(setting[k + 1], pointers0_offset, k, k * p + c)
  BY <1>0, PointersDefined
<1>2. ASSUME NEW k \in Nat, NEW m \in Nat, k <= m PROVE k * p <= m * p /\ k * p \in Nat /\ m * p \in Nat
                                                       /\ m <= m * p
  <2>1. (m - k) * p \in Nat /\ m * p = k * p + (m - k) * p /\ k * p \in Nat
    BY <1>2
  <2>2. PICK a \in Nat, b \in Nat : a = (m - k) * p /\ b = k * p
    BY <2>1
  <2>3. m * p = m + m * (p - 1) /\ m * (p - 1) \in Nat
    OBVIOUS
  <2>4. PICK d \in Nat : d = m * (p - 1)
    BY <2>3
  <2> QED
    BY <2>1, <2>2, <2>3, <2>4
<1>3. ASSUME NEW k \in Nat, k * p >= y PROVE PointersSetFrom(bv, bv, y, c, k)
  <2>1. Alike(bv, bv, 0, pointers0_offset) /\ Alike(bv, bv, pointers1_offset, end)
    BY DEF Alike
  <2>2. \A s \in Nat \ {0} : ~ (s >= k /\ s * p < y)
    BY <1>2, <1>3
  <2> QED
    BY <1>0, <2>1, <2>2 DEF PointersSetFrom
<1> DEFINE Q == {d \in 0 .. y : PointersSetFrom(bv, setting[y - d], y, c, y - d)}
<1>4. 0 \in Q
  <2>1. y * p >= y /\ y \in Nat
    BY <1>2
  <2>2. setting[y] = bv
    BY <1>1, <2>1
  <2>3. PointersSetFrom(bv, setting[y], y, c, y)
    BY <1>3, <2>1, <2>2
  <2>4. y - 0 = y /\ 0 \in 0 .. y
    OBVIOUS
  <2> QED
    BY <2>3, <2>4
<1>5. ASSUME NEW d \in 0 .. y - 1, d \in Q PROVE d + 1 \in Q
  <2>1. PICK k \in Nat : k = y - (d + 1) /\ y - d = k + 1
    BY <1>5
  <2>2. PointersSetFrom(bv, setting[k + 1], y, c, k + 1)
    BY <1>5, <2>1
  <2>3. PointersSetFrom(bv, setting[k], y, c, k)
    <3>1. CASE k * p >= y
      BY <1>1, <1>3, <3>1
    <3>2. CASE ~ k * p >= y /\ k = 0
      <4>1. setting[k] = setting[k + 1] /\ k + 1 = 1
        BY <1>1, <3>2
      <4>2. \A s \in Nat \ {0} : s >= k + 1 /\ ~ s < k
        BY <3>2
      <4> QED
        BY <2>2, <4>1, <4>2 DEF PointersSetFrom
    <3>3. CASE ~ k * p >= y /\ k # 0
      <4>1. k \in Nat \ {0} /\ k * p < y
        <5>1. k * p \in Nat
          OBVIOUS
        <5> QED
          BY <3>3, <5>1
      <4>2. PICK b : b = setting[k + 1]
        OBVIOUS
      <4>3. PICK new : new = setting[k]
        OBVIOUS
      <4>4. new = set_pointer(b, pointers0_offset, k, k * p + c)
        BY <1>1, <3>3, <4>2, <4>3
      <4>5. PointersSetFrom(bv, b, y, c, k + 1)
        BY <2>2, <4>2
      <4>6. PointersSetFrom(bv, new, y, c, k)
        BY <1>0, <4>1, <4>4, <4>5, PointerStep
      <4> QED
        BY <4>3, <4>6
    <3> QED
      BY <3>1, <3>2, <3>3
  <2> QED
    BY <2>1, <2>3
<1>6. y - t \in 0 .. y /\ y - (y - t) = t
  OBVIOUS
<1> HIDE DEF Q
<1>7. y - t \in Q
  BY <1>4, <1>5, <1>6, InductionUpTo
<1> QED
  BY <1>6, <1>7 DEF Q

(* The zeros from z to y - 1, which come after c ones, get their pointers. *)
LEMMA ZerosSet ==
  ASSUME Given, NEW bv, Sized(bv), NEW c \in 0 .. n, NEW z \in Nat \ {0}, NEW y \in Nat \ {0},
         z <= y, y <= high(universe) + 2, ZeroPointers(bv, z),
         \A x \in Nat : z <= x /\ x < y => IsRank(x, c),
         NEW begin, NEW to, begin - c = z, to - c = y,
         NEW new, new = set_ptr0s(bv, begin, to, c)
  PROVE  /\ Sized(new) /\ ZeroPointers(new, y)
         /\ Alike(bv, new, 0, pointers0_offset) /\ Alike(bv, new, pointers1_offset, end)
<1>0. PICK p \in Nat \ {0} : p = power[log_sampling0]
  BY Offsets
<1>1. high(universe) \in Nat /\ num_pointers0 \in Nat
  BY Offsets
<1>2. PICK setting : setting = PointersFrom(bv, y, c)
  OBVIOUS
<1>3. PICK t : t = ceil_div(z, p)
  OBVIOUS
<1>4. new = setting[t]
  BY <1>0, <1>2, <1>3 DEF set_ptr0s, PointersFrom
<1>5. /\ t \in Nat /\ z <= p * t
      /\ \A k \in Nat : k < t => p * k < z
  <2>1. z \in Nat
    OBVIOUS
  <2> QED
    BY <1>3, <2>1, CeilDiv
<1>6. t \in 0 .. y
  <2>1. CASE t > y
    <3>1. p * y < z
      BY <1>5, <2>1
    <3>2. p * y = y + (p - 1) * y /\ (p - 1) * y \in Nat
      OBVIOUS
    <3>3. PICK a \in Nat : a = (p - 1) * y
      BY <3>2
    <3> QED
      BY <3>1, <3>2, <3>3
  <2> QED
    BY <1>5, <2>1
<1>7. PointersSetFrom(bv, new, y, c, t)
  BY <1>2, <1>4, <1>6, PointersFollow
<1>8. ASSUME NEW s \in Nat \ {0}, NEW d \in 0 .. n, s * p < y, IsRank(s * p, d)
      PROVE  Row(new, pointers0_offset, pointer_size, s - 1, s * p + d)
  <2>1. s * p \in Nat /\ s * p = p * s
    OBVIOUS
  <2>2. CASE s < t
    <3>1. s * p < z
      BY <1>5, <2>1, <2>2
    <3>2. Row(bv, pointers0_offset, pointer_size, s - 1, s * p + d)
      BY <1>0, <1>8, <3>1 DEF ZeroPointers
    <3>3. s - 1 \in 0 .. num_pointers0 - 1
      <4>1. s * power[log_sampling0] < high(universe) + 2
        BY <1>0, <1>1, <1>8, <2>1
      <4> QED
        BY <4>1, Slots
    <3> QED
      BY <1>7, <2>2, <3>2, <3>3 DEF PointersSetFrom
  <2>3. CASE s >= t
    <3>1. z <= s * p
      <4>1. p * t <= p * s
        BY <1>5, <2>3, MultiplesOrdered
      <4>2. p * t \in Nat /\ p * s \in Nat
        BY <1>5
      <4> QED
        BY <1>5, <2>1, <4>1, <4>2
    <3>2. IsRank(s * p, c)
      BY <1>8, <2>1, <3>1
    <3>3. d = c
      <4>1. PICK x \in Nat : x = s * p
        BY <2>1
      <4> QED
        BY <1>8, <3>2, <4>1, RankKnown
    <3> QED
      BY <1>0, <1>7, <1>8, <2>3, <3>3 DEF PointersSetFrom
  <2> QED
    BY <1>5, <2>2, <2>3
<1>9. ZeroPointers(new, y)
  BY <1>0, <1>8 DEF ZeroPointers
<1> QED
  BY <1>7, <1>9 DEF PointersSetFrom

(* The parts begin one after the other.                                    *)
LEMMA OffsetsOrdered ==
  ASSUME Given
  PROVE  /\ base_offset \in Nat /\ pointers0_offset = base_offset /\ pointers1_offset \in Nat
         /\ higher_bits_offset \in Nat /\ lower_bits_offset \in Nat /\ end \in Nat
         /\ base_offset <= pointers1_offset /\ pointers1_offset <= higher_bits_offset
         /\ higher_bits_offset <= lower_bits_offset /\ lower_bits_offset <= end
<1>1. /\ num_pointers0 * pointer_size \in Nat /\ num_pointers1 * pointer_size \in Nat
      /\ n * lower_bits \in Nat /\ higher_bits_length \in Nat
      /\ pointers0_offset \in Nat /\ pointers1_offset \in Nat /\ higher_bits_offset \in Nat
      /\ lower_bits_offset \in Nat /\ end \in Nat
      /\ pointers0_offset = base_offset
      /\ pointers1_offset = base_offset + num_pointers0 * pointer_size
      /\ higher_bits_offset = pointers1_offset + num_pointers1 * pointer_size
      /\ lower_bits_offset = higher_bits_offset + higher_bits_length
      /\ end = lower_bits_offset + n * lower_bits
  BY Offsets
<1>2. PICK a \in Nat, b \in Nat, c \in Nat :
        a = num_pointers0 * pointer_size /\ b = num_pointers1 * pointer_size /\ c = n * lower_bits
  BY <1>1
<1> QED
  BY <1>1, <1>2

(* How many zeros are passed by the first k ones.                          *)
Passing(k) == IF k = 0 THEN 1 ELSE HighAt(k - 1) + 1

(* With k ones come, up to the next one, the zeros of which that is the    *)
(* rank.                                                                   *)
LEMMA PassingKnown ==
  ASSUME Given, NEW k \in 0 .. n
  PROVE  /\ Passing(k) \in Nat \ {0} /\ Passing(k) <= high(universe) + 2
         /\ k < n => /\ Passing(k + 1) = HighAt(k) + 1 /\ Passing(k) <= Passing(k + 1)
                     /\ Rel(k) = Passing(k + 1) + k
         /\ \A x \in Nat : Passing(k) <= x /\ (k < n => x < Passing(k + 1)) => IsRank(x, k)
<1>1. /\ n \in Nat \ {0} /\ high(universe) \in Nat
      /\ \A j \in 0 .. n - 1 : HighAt(j) \in Nat /\ HighAt(j) <= high(universe) /\ Rel(j) = HighAt(j) + j + 1
      /\ \A j, m \in 0 .. n - 1 : j <= m => HighAt(j) <= HighAt(m)
  BY Numbers, OnesPlaced, Offsets
<1>2. k \in Nat /\ k <= n
  BY <1>1
<1>3. ASSUME k # 0 PROVE k - 1 \in 0 .. n - 1 /\ Passing(k) = HighAt(k - 1) + 1
  BY <1>1, <1>2, <1>3 DEF Passing
<1>4. Passing(k) \in Nat \ {0} /\ Passing(k) <= high(universe) + 2
  <2>1. CASE k = 0
    BY <1>1, <2>1 DEF Passing
  <2>2. CASE k # 0
    <3>1. HighAt(k - 1) \in Nat /\ HighAt(k - 1) <= high(universe)
      BY <1>1, <1>3, <2>2
    <3> QED
      BY <1>1, <1>3, <2>2, <3>1
  <2> QED
    BY <2>1, <2>2
<1>5. ASSUME k < n PROVE /\ k \in 0 .. n - 1 /\ Passing(k + 1) = HighAt(k) + 1 /\ HighAt(k) \in Nat
                         /\ Passing(k) <= Passing(k + 1) /\ Rel(k) = Passing(k + 1) + k
  <2>1. k \in 0 .. n - 1 /\ k + 1 # 0 /\ (k + 1) - 1 = k
    BY <1>1, <1>2, <1>5
  <2>2. Passing(k + 1) = HighAt(k) + 1 /\ HighAt(k) \in Nat
    BY <1>1, <2>1 DEF Passing
  <2>3. Passing(k) <= Passing(k + 1)
    <3>1. CASE k = 0
      BY <2>2, <3>1 DEF Passing
    <3>2. CASE k # 0
      <4>1. k - 1 <= k /\ k - 1 \in 0 .. n - 1
        BY <1>2, <1>3, <3>2
      <4>2. HighAt(k - 1) <= HighAt(k) /\ HighAt(k - 1) \in Nat
        BY <1>1, <2>1, <4>1
      <4> QED
        BY <1>3, <2>2, <3>2, <4>2
    <3> QED
      BY <3>1, <3>2
  <2> QED
    BY <1>1, <1>2, <2>1, <2>2, <2>3
<1>6. ASSUME NEW x \in Nat, Passing(k) <= x, k < n => x < Passing(k + 1) PROVE IsRank(x, k)
  <2>1. ASSUME NEW j \in 0 .. k - 1 PROVE HighAt(j) < x
    <3>1. k # 0 /\ j \in 0 .. n - 1 /\ j <= k - 1
      BY <1>1, <1>2
    <3>2. HighAt(j) <= HighAt(k - 1) /\ HighAt(j) \in Nat /\ HighAt(k - 1) \in Nat
          /\ HighAt(k - 1) + 1 <= x
      BY <1>1, <1>3, <1>6, <3>1
    <3> QED
      BY <3>2
  <2>2. ASSUME NEW j \in k .. n - 1 PROVE HighAt(j) >= x
    <3>1. k < n /\ j \in 0 .. n - 1 /\ k <= j /\ k \in 0 .. n - 1
      BY <1>1, <1>2
    <3>2. HighAt(k) <= HighAt(j) /\ HighAt(k) \in Nat /\ HighAt(j) \in Nat
      BY <1>1, <3>1
    <3>3. x < HighAt(k) + 1
      BY <1>5, <1>6, <3>1
    <3> QED
      BY <3>2, <3>3
  <2> QED
    BY <2>1, <2>2 DEF IsRank
<1> QED
  BY <1>4, <1>5, <1>6

(* A value is written, and the zeros before its one are passed.            *)
LEMMA ValueWritten ==
  ASSUME Given, NEW k \in 0 .. n - 1, NEW bv, Written(bv, k, Passing(k)),
         NEW a, a = set_bit(bv, BitOf(k)),
         NEW b, b = set_bits(a, lower_bits_offset + k * lower_bits,
                             bits_of(ValueAt(k) % power[lower_bits]), lower_bits),
         NEW c, c = IF sampled(k, log_sampling1)
                    THEN set_pointer(b, pointers1_offset, k \div power[log_sampling1], Rel(k))
                    ELSE b,
         NEW begin, begin = Passing(k) + k,
         NEW new, new = set_ptr0s(c, begin, Rel(k), k)
  PROVE  Written(new, k + 1, Passing(k + 1))
<1>1. /\ base_offset \in Nat /\ pointers0_offset = base_offset /\ pointers1_offset \in Nat
      /\ higher_bits_offset \in Nat /\ lower_bits_offset \in Nat /\ end \in Nat
      /\ base_offset <= pointers1_offset /\ pointers1_offset <= higher_bits_offset
      /\ higher_bits_offset <= lower_bits_offset /\ lower_bits_offset <= end
  BY OffsetsOrdered
<1>2. /\ n \in Nat /\ k \in 0 .. n /\ k + 1 \in 0 .. n /\ k < n /\ k \in Nat /\ 0 \in Nat
  BY Numbers
<1>3. PICK z \in Nat \ {0} : z = Passing(k) /\ z <= high(universe) + 2
  BY <1>2, PassingKnown
<1>4. PICK y \in Nat \ {0} : y = Passing(k + 1) /\ y <= high(universe) + 2 /\ z <= y /\ Rel(k) = y + k
  BY <1>2, <1>3, PassingKnown
<1>5. \A x \in Nat : z <= x /\ x < y => IsRank(x, k)
  BY <1>2, <1>3, <1>4, PassingKnown
<1>6. /\ Sized(bv) /\ Ahead(bv) /\ HighBits(bv, k) /\ LowParts(bv, k) /\ OnePointers(bv, k)
      /\ ZeroPointers(bv, z)
  BY <1>3 DEF Written
<1>7. /\ Sized(a) /\ HighBits(a, k + 1)
      /\ Alike(bv, a, 0, higher_bits_offset) /\ Alike(bv, a, lower_bits_offset, end)
  BY <1>6, HighSet
<1>8. Ahead(a) /\ LowParts(a, k) /\ OnePointers(a, k) /\ ZeroPointers(a, z)
  <2>1. /\ Alike(bv, a, 0, base_offset) /\ Alike(bv, a, pointers1_offset, higher_bits_offset)
        /\ Alike(bv, a, pointers0_offset, pointers1_offset)
    <3>1. base_offset <= higher_bits_offset
      BY <1>1
    <3> QED
      BY <1>1, <1>2, <1>7, <3>1, AlikeWithin
  <2> QED
    BY <1>2, <1>3, <1>6, <1>7, <2>1, PartsSame
<1>9. Sized(b) /\ LowParts(b, k + 1) /\ Alike(a, b, 0, lower_bits_offset)
  BY <1>7, <1>8, LowSet
<1>10. Ahead(b) /\ HighBits(b, k + 1) /\ OnePointers(b, k) /\ ZeroPointers(b, z)
  <2>1. /\ Alike(a, b, 0, base_offset) /\ Alike(a, b, pointers1_offset, higher_bits_offset)
        /\ Alike(a, b, pointers0_offset, pointers1_offset) /\ Alike(a, b, higher_bits_offset, lower_bits_offset)
    <3>1. base_offset <= lower_bits_offset /\ pointers1_offset <= lower_bits_offset
          /\ lower_bits_offset <= lower_bits_offset
      BY <1>1
    <3> QED
      BY <1>1, <1>2, <1>9, <3>1, AlikeWithin
  <2> QED
    BY <1>2, <1>3, <1>7, <1>8, <2>1, PartsSame
<1>11. /\ Sized(c) /\ OnePointers(c, k + 1)
       /\ Alike(b, c, 0, pointers1_offset) /\ Alike(b, c, higher_bits_offset, end)
  BY <1>9, <1>10, OneSet
<1>12. Ahead(c) /\ HighBits(c, k + 1) /\ LowParts(c, k + 1) /\ ZeroPointers(c, z)
  <2>1. /\ Alike(b, c, 0, base_offset) /\ Alike(b, c, lower_bits_offset, end)
        /\ Alike(b, c, pointers0_offset, pointers1_offset) /\ Alike(b, c, higher_bits_offset, lower_bits_offset)
    <3>1. end <= end /\ pointers1_offset <= pointers1_offset /\ higher_bits_offset <= higher_bits_offset
      BY <1>1
    <3> QED
      BY <1>1, <1>2, <1>11, <3>1, AlikeWithin
  <2> QED
    BY <1>2, <1>3, <1>9, <1>10, <2>1, PartsSame
<1>13. begin - k = z /\ Rel(k) - k = y
  BY <1>2, <1>3, <1>4
<1>14. /\ Sized(new) /\ ZeroPointers(new, y)
       /\ Alike(c, new, 0, pointers0_offset) /\ Alike(c, new, pointers1_offset, end)
  <2>1. PICK to : to = Rel(k)
    OBVIOUS
  <2>2. new = set_ptr0s(c, begin, to, k) /\ to - k = y
    BY <1>13, <2>1
  <2> QED
    BY <1>2, <1>4, <1>5, <1>11, <1>12, <1>13, <2>2, ZerosSet
<1>15. Ahead(new) /\ HighBits(new, k + 1) /\ LowParts(new, k + 1) /\ OnePointers(new, k + 1)
  <2>1. /\ Alike(c, new, 0, base_offset) /\ Alike(c, new, lower_bits_offset, end)
        /\ Alike(c, new, pointers1_offset, higher_bits_offset) /\ Alike(c, new, higher_bits_offset, lower_bits_offset)
    <3>1. end <= end /\ base_offset <= base_offset /\ pointers1_offset <= pointers1_offset
          /\ pointers1_offset <= lower_bits_offset /\ higher_bits_offset <= end
      BY <1>1
    <3> QED
      BY <1>1, <1>2, <1>14, <3>1, AlikeWithin
  <2> QED
    BY <1>2, <1>4, <1>11, <1>12, <2>1, PartsSame
<1> QED
  BY <1>4, <1>14, <1>15 DEF Written

(* The zeros after the last one are passed.                                *)
LEMMA LastZerosPassed ==
  ASSUME Given, NEW bv, Written(bv, n, Passing(n)), NEW begin, begin = Passing(n) + n,
         NEW new, new = set_ptr0s(bv, begin, higher_bits_length, n)
  PROVE  Written(new, n, high(universe) + 2)
<1>1. /\ base_offset \in Nat /\ pointers0_offset = base_offset /\ pointers1_offset \in Nat
      /\ higher_bits_offset \in Nat /\ lower_bits_offset \in Nat /\ end \in Nat
      /\ base_offset <= pointers1_offset /\ pointers1_offset <= higher_bits_offset
      /\ higher_bits_offset <= lower_bits_offset /\ lower_bits_offset <= end
  BY OffsetsOrdered
<1>2. n \in Nat /\ n \in 0 .. n /\ ~ n < n
  BY Numbers
<1>3. PICK z \in Nat \ {0} : z = Passing(n) /\ z <= high(universe) + 2
  BY <1>2, PassingKnown
<1>4. PICK y \in Nat \ {0} : y = high(universe) + 2 /\ y <= high(universe) + 2 /\ z <= y
                             /\ higher_bits_length - n = y /\ begin - n = z
  BY <1>2, <1>3, Offsets
<1>5. \A x \in Nat : z <= x /\ x < y => IsRank(x, n)
  BY <1>2, <1>3, PassingKnown
<1>6. /\ Sized(bv) /\ Ahead(bv) /\ HighBits(bv, n) /\ LowParts(bv, n) /\ OnePointers(bv, n)
      /\ ZeroPointers(bv, z)
  BY <1>3 DEF Written
<1>7. /\ Sized(new) /\ ZeroPointers(new, y)
      /\ Alike(bv, new, 0, pointers0_offset) /\ Alike(bv, new, pointers1_offset, end)
  <2>1. PICK to : to = higher_bits_length
    OBVIOUS
  <2>2. new = set_ptr0s(bv, begin, to, n) /\ to - n = y
    BY <1>4, <2>1
  <2>3. PICK c \in 0 .. n : c = n
    BY <1>2
  <2> QED
    BY <1>4, <1>5, <1>6, <2>2, <2>3, ZerosSet
<1>8. Ahead(new) /\ HighBits(new, n) /\ LowParts(new, n) /\ OnePointers(new, n)
  <2>1. /\ Alike(bv, new, 0, base_offset) /\ Alike(bv, new, lower_bits_offset, end)
        /\ Alike(bv, new, pointers1_offset, higher_bits_offset) /\ Alike(bv, new, higher_bits_offset, lower_bits_offset)
    <3>1. end <= end /\ base_offset <= base_offset /\ pointers1_offset <= pointers1_offset
          /\ pointers1_offset <= lower_bits_offset /\ higher_bits_offset <= end
      BY <1>1
    <3> QED
      BY <1>1, <1>7, <3>1, AlikeWithin
  <2> QED
    BY <1>2, <1>4, <1>6, <2>1, PartsSame
<1> QED
  BY <1>4, <1>7, <1>8 DEF Written

(* A bit vector of m ones, set in turn.                                    *)
OnesUpTo(m) ==
  CHOOSE setting : setting =
    [k \in 0 .. m |-> IF k = 0 THEN zeros(m) ELSE set_bit(setting[k - 1], k - 1)]

(* It has m ones.                                                          *)
LEMMA OnesSetInTurn ==
  ASSUME NEW m \in Nat, NEW setting, setting = OnesUpTo(m)
  PROVE  /\ WordsFit(setting[m]) /\ setting[m].size = m
         /\ \A p \in Nat : p < word_width * Len(setting[m].words) => (BitAt(setting[m].words, p) <=> p < m)
<1> DEFINE S == {x \in [size : Nat, words : Seq(Word)] : WordsFit(x) /\ x.size = m}
           Value(k, b) == IF k < m THEN set_bit(b, k) ELSE b
           step == [x \in Nat \X S |-> Value(x[1], x[2])]
<1>1. zeros(m) \in S
  BY ZerosFit DEF WordsFit
<1>2. ASSUME NEW b, WordsFit(b), b.size = m, NEW k \in Nat, k < m
      PROVE  /\ set_bit(b, k) \in S /\ WordsFit(set_bit(b, k)) /\ set_bit(b, k).size = m
             /\ Len(set_bit(b, k).words) = Len(b.words)
             /\ \A p \in 0 .. word_width * Len(b.words) - 1 :
                  BitAt(set_bit(b, k).words, p) <=> p = k \/ BitAt(b.words, p)
  <2>1. /\ b \in [size : Nat, words : Seq(Word)] /\ word_width * Len(b.words) \in Nat
        /\ b.size <= word_width * Len(b.words) /\ Len(b.words) = words_for(b.size)
    BY <1>2, WordsFitKnown DEF WordsFit
  <2>2. k < word_width * Len(b.words)
    BY <1>2, <2>1
  <2>3. PICK new : new = set_bit(b, k)
    OBVIOUS
  <2>4. /\ new \in [size : Nat, words : Seq(Word)] /\ new.size = b.size /\ Len(new.words) = Len(b.words)
        /\ \A p \in 0 .. word_width * Len(b.words) - 1 :
             BitAt(new.words, p) <=> p = k \/ BitAt(b.words, p)
    BY <2>1, <2>2, <2>3, BitGiven
  <2>5. WordsFit(new)
    BY <2>1, <2>4 DEF WordsFit
  <2> QED
    BY <1>2, <2>3, <2>4, <2>5
<1>3. ASSUME NEW k \in Nat, NEW b \in S PROVE Value(k, b) \in S
  BY <1>2
<1> HIDE DEF S, Value
<1>4. step \in [Nat \X S -> S] /\ \A k \in Nat, b \in S : step[<<k, b>>] = Value(k, b)
  <2>1. \A x \in Nat \X S : Value(x[1], x[2]) \in S
    BY <1>3
  <2> QED
    BY <2>1
<1> HIDE DEF step
<1>5. PICK g \in [Nat -> S] : g[0] = zeros(m) /\ \A k \in Nat : g[k + 1] = step[<<k, g[k]>>]
  <2>1. Steps(S, zeros(m), step)
    BY <1>1, <1>4 DEF Steps
  <2>2. HasRecursion(S, zeros(m), step)
    BY <2>1, Recursion
  <2> QED
    BY <2>2 DEF HasRecursion
<1> DEFINE f == [k \in 0 .. m |-> g[k]]
           Body(h, k) == IF k = 0 THEN zeros(m) ELSE set_bit(h[k - 1], k - 1)
<1>6. ASSUME NEW k \in 0 .. m PROVE f[k] = Body(f, k)
  <2>1. CASE k = 0
    BY <1>5, <2>1
  <2>2. CASE k # 0
    <3>1. PICK d \in Nat : d = k - 1 /\ d + 1 = k /\ d \in 0 .. m /\ d < m
      BY <2>2
    <3>2. g[d + 1] = Value(d, g[d])
      BY <1>4, <1>5
    <3>3. g[d + 1] = set_bit(g[d], d)
      BY <3>1, <3>2 DEF Value
    <3> QED
      BY <2>2, <3>1, <3>3
  <2> QED
    BY <2>1, <2>2
<1> HIDE DEF Body
<1>7. f = [k \in 0 .. m |-> Body(f, k)]
  BY <1>6
<1> HIDE DEF f
<1>8. OnesUpTo(m) = CHOOSE h : h = [k \in 0 .. m |-> Body(h, k)]
  BY DEF OnesUpTo, Body
<1>9. setting = [k \in 0 .. m |-> Body(setting, k)]
  BY <1>7, <1>8
<1>10. \A k \in 0 .. m : setting[k] = IF k = 0 THEN zeros(m) ELSE set_bit(setting[k - 1], k - 1)
  BY <1>9 DEF Body
<1> DEFINE Q == {k \in 0 .. m :
                   /\ WordsFit(setting[k]) /\ setting[k].size = m
                   /\ \A p \in Nat : p < word_width * Len(setting[k].words)
                                      => (BitAt(setting[k].words, p) <=> p < k)}
<1>11. 0 \in Q
  <2>1. setting[0] = zeros(m)
    BY <1>10
  <2>2. \A p \in Nat : ~ p < 0
    OBVIOUS
  <2> QED
    BY <2>1, <2>2, ZerosFit
<1>12. ASSUME NEW k \in 0 .. m - 1, k \in Q PROVE k + 1 \in Q
  <2>1. PICK b : b = setting[k]
    OBVIOUS
  <2>2. PICK new : new = setting[k + 1]
    OBVIOUS
  <2>3. /\ WordsFit(b) /\ b.size = m /\ k \in Nat /\ k < m
        /\ \A p \in Nat : p < word_width * Len(b.words) => (BitAt(b.words, p) <=> p < k)
    BY <1>12, <2>1
  <2>4. new = set_bit(b, k)
    BY <1>10, <2>1, <2>2, <2>3
  <2>5. /\ WordsFit(new) /\ new.size = m /\ Len(new.words) = Len(b.words)
        /\ \A p \in 0 .. word_width * Len(b.words) - 1 :
             BitAt(new.words, p) <=> p = k \/ BitAt(b.words, p)
    BY <1>2, <2>3, <2>4
  <2>6. ASSUME NEW p \in Nat, p < word_width * Len(new.words) PROVE BitAt(new.words, p) <=> p < k + 1
    <3>1. word_width * Len(b.words) \in Nat
      BY <2>3, WordsFitKnown
    <3>2. p \in 0 .. word_width * Len(b.words) - 1 /\ p < word_width * Len(b.words)
      BY <2>5, <2>6, <3>1
    <3> QED
      BY <2>3, <2>5, <3>2
  <2> QED
    BY <2>2, <2>3, <2>5, <2>6
<1> HIDE DEF Q
<1>13. m \in Q
  BY <1>11, <1>12, InductionUpTo
<1> QED
  BY <1>13 DEF Q

(* At first nothing of the partition is written.                           *)
LEMMA NothingWritten ==
  ASSUME Given, NEW setting, setting = OnesUpTo(base_offset),
         NEW bv, bv = zero_extend(setting[base_offset], end - base_offset)
  PROVE  Written(bv, 0, Passing(0))
<1>1. /\ base_offset \in Nat /\ pointers0_offset = base_offset /\ pointers1_offset \in Nat
      /\ higher_bits_offset \in Nat /\ lower_bits_offset \in Nat /\ end \in Nat
      /\ base_offset <= pointers1_offset /\ pointers1_offset <= higher_bits_offset
      /\ higher_bits_offset <= lower_bits_offset /\ lower_bits_offset <= end
  BY OffsetsOrdered
<1>2. PICK m \in Nat : m = base_offset
  BY <1>1
<1>3. PICK old : old = setting[m]
  OBVIOUS
<1>4. /\ WordsFit(old) /\ old.size = m
      /\ \A p \in Nat : p < word_width * Len(old.words) => (BitAt(old.words, p) <=> p < m)
  BY <1>2, <1>3, OnesSetInTurn
<1>5. PICK d \in Nat : d = end - base_offset /\ m + d = end
  BY <1>1, <1>2
<1>6. bv = zero_extend(old, d)
  BY <1>2, <1>3, <1>5
<1>7. \A p \in Nat : old.size <= p /\ p < word_width * Len(old.words) => ~ BitAt(old.words, p)
  BY <1>4
<1>8. /\ WordsFit(bv) /\ bv.size = end
      /\ \A p \in Nat : p < bv.size => (BitAt(bv.words, p) <=> p < old.size /\ BitAt(old.words, p))
  BY <1>4, <1>5, <1>6, <1>7, ZeroExtended, SMTT(30)
<1>9. ASSUME NEW p \in Nat, p < end PROVE BitAt(bv.words, p) <=> p < m
  <2>1. p < m => p < word_width * Len(old.words)
    <3>1. word_width * Len(old.words) \in Nat /\ old.size <= word_width * Len(old.words)
      BY <1>4, WordsFitKnown
    <3> QED
      BY <1>4, <3>1
  <2> QED
    BY <1>4, <1>8, <1>9, <2>1
<1>10. Sized(bv)
  BY <1>8 DEF Sized
<1>11. Ahead(bv)
  <2>1. \A p \in 0 .. base_offset - 1 : p \in Nat /\ p < end /\ p < m
    BY <1>1, <1>2
  <2> QED
    BY <1>9, <2>1 DEF Ahead
<1>12. HighBits(bv, 0)
  <2>1. \A p \in higher_bits_offset .. lower_bits_offset - 1 : p \in Nat /\ p < end /\ ~ p < m
    BY <1>1, <1>2
  <2>2. \A j : j \notin 0 .. 0 - 1
    OBVIOUS
  <2> QED
    BY <1>9, <2>1, <2>2 DEF HighBits
<1>13. LowParts(bv, 0)
  BY DEF LowParts
<1>14. \A t \in Nat \ {0} : ~ t * power[log_sampling1] < 0 /\ ~ t * power[log_sampling0] < 1
  <2> TAKE t \in Nat \ {0}
  <2>1. /\ t * power[log_sampling0] \in Nat /\ t * power[log_sampling1] \in Nat
        /\ t <= t * power[log_sampling0]
    BY Slots
  <2> QED
    BY <2>1
<1>15. OnePointers(bv, 0) /\ ZeroPointers(bv, Passing(0))
  <2>1. Passing(0) = 1
    BY DEF Passing
  <2> QED
    BY <1>14, <2>1 DEF OnePointers, ZeroPointers
<1> QED
  BY <1>10, <1>11, <1>12, <1>13, <1>15 DEF Written

(* All that is to be written has been.                                     *)
Complete == Given /\ Written(bvb, n, high(universe) + 2)

(* Where the ones of the high bits are.                                    *)
LEMMA OnesAre ==
  ASSUME Complete
  PROVE  /\ Given /\ BitVec(bvb) /\ bvb.size = end /\ bvb.words \in Seq(Word)
         /\ n \in Nat \ {0} /\ higher_bits_offset \in Nat /\ lower_bits_offset \in Nat /\ end \in Nat
         /\ higher_bits_offset <= lower_bits_offset /\ lower_bits_offset <= end
         /\ \A p \in Nat : higher_bits_offset <= p /\ p < lower_bits_offset
              => (p \in Places(bvb) <=> \E j \in 0 .. n - 1 : p = BitOf(j))
         /\ \A j \in 0 .. n - 1 : BitOf(j) \in Places(bvb)
<1>1. Given /\ Sized(bvb) /\ HighBits(bvb, n)
  BY DEF Complete, Written
<1>2. BitVec(bvb) /\ bvb.size = end /\ bvb.words \in Seq(Word)
  BY <1>1, SizedKnown DEF BitVec
<1>3. /\ higher_bits_offset \in Nat /\ lower_bits_offset \in Nat /\ end \in Nat
      /\ higher_bits_offset <= lower_bits_offset /\ lower_bits_offset <= end
  BY <1>1, OffsetsOrdered
<1>4. n \in Nat \ {0}
  BY <1>1, Numbers
<1>5. ASSUME NEW p \in Nat, higher_bits_offset <= p, p < lower_bits_offset
      PROVE  p \in Places(bvb) <=> \E j \in 0 .. n - 1 : p = BitOf(j)
  <2>1. p \in higher_bits_offset .. lower_bits_offset - 1 /\ p \in 0 .. bvb.size - 1
    BY <1>2, <1>3, <1>5
  <2>2. BitAt(bvb.words, p) <=> \E j \in 0 .. n - 1 : p = BitOf(j)
    BY <1>1, <2>1 DEF HighBits
  <2>3. p \in Places(bvb) <=> BitAt(bvb.words, p)
    BY <2>1 DEF Places
  <2> QED
    BY <2>2, <2>3
<1>6. ASSUME NEW j \in 0 .. n - 1 PROVE BitOf(j) \in Places(bvb)
  <2>1. PICK p \in Nat : p = BitOf(j) /\ higher_bits_offset <= p /\ p < lower_bits_offset
    <3>1. BitOf(j) \in Nat /\ higher_bits_offset < BitOf(j) /\ BitOf(j) < lower_bits_offset
      BY <1>1, OnesPlaced
    <3> QED
      BY <1>3, <3>1
  <2> QED
    BY <1>5, <2>1
<1> QED
  BY <1>1, <1>2, <1>3, <1>4, <1>5, <1>6

(* Of the ones of the partition, c come before p.                          *)
Splits(p, c) ==
  /\ p \in Nat /\ higher_bits_offset <= p /\ p <= lower_bits_offset /\ c \in 0 .. n
  /\ \A j \in 0 .. c - 1 : BitOf(j) < p
  /\ \A j \in c .. n - 1 : BitOf(j) >= p

(* They are counted on from those before the partition.                    *)
before == CountTo(Places(bvb), higher_bits_offset)

(* The count at p is theirs and c more.                                    *)
LEMMA OnesCounted ==
  ASSUME Complete, NEW p, NEW c, Splits(p, c)
  PROVE  before \in Nat /\ CountTo(Places(bvb), p) = before + c
<1> DEFINE Q == {d \in 0 .. n : \A q \in Nat : Splits(q, d) => CountTo(Places(bvb), q) = before + d}
<1>1. /\ Given /\ n \in Nat \ {0} /\ higher_bits_offset \in Nat /\ lower_bits_offset \in Nat
      /\ \A x \in Nat : higher_bits_offset <= x /\ x < lower_bits_offset
           => (x \in Places(bvb) <=> \E j \in 0 .. n - 1 : x = BitOf(j))
      /\ \A j \in 0 .. n - 1 : BitOf(j) \in Places(bvb)
  BY OnesAre
<1>2. before \in Nat
  BY <1>1, CountSteps DEF before
<1>3. /\ \A j \in 0 .. n - 1 : BitOf(j) \in Nat /\ higher_bits_offset < BitOf(j)
                               /\ BitOf(j) < lower_bits_offset
      /\ \A j, k \in 0 .. n - 1 : j < k => BitOf(j) < BitOf(k)
  BY <1>1, OnesPlaced
<1>4. 0 \in Q
  <2>1. ASSUME NEW q \in Nat, Splits(q, 0) PROVE CountTo(Places(bvb), q) = before
    <3>1. /\ higher_bits_offset <= q /\ q <= lower_bits_offset
          /\ \A j \in 0 .. n - 1 : BitOf(j) >= q
      BY <2>1 DEF Splits
    <3>2. \A x \in higher_bits_offset .. q - 1 : x \notin Places(bvb)
      BY <1>1, <1>3, <3>1
    <3> QED
      BY <1>1, <3>1, <3>2, NoneCounted DEF before
  <2>2. 0 \in 0 .. n
    BY <1>1
  <2> QED
    BY <1>2, <2>1, <2>2
<1>5. ASSUME NEW d \in 0 .. n - 1, d \in Q PROVE d + 1 \in Q
  <2>1. d \in Nat /\ d + 1 \in 0 .. n /\ d \in 0 .. n /\ d < n
    BY <1>1
  <2>2. PICK b \in Nat : b = BitOf(d)
    BY <1>3
  <2>3. Splits(b, d)
    <3>1. \A j \in 0 .. d - 1 : BitOf(j) < b
      <4> TAKE j \in 0 .. d - 1
      <4>1. j \in 0 .. n - 1 /\ j < d
        BY <1>1, <2>1
      <4> QED
        BY <1>3, <2>2, <4>1
    <3>2. \A j \in d .. n - 1 : BitOf(j) >= b
      <4> TAKE j \in d .. n - 1
      <4>1. j \in 0 .. n - 1 /\ (d < j \/ d = j)
        BY <2>1
      <4>2. CASE d = j
        BY <2>2, <4>2
      <4>3. CASE d < j
        BY <1>3, <2>2, <4>1, <4>3
      <4> QED
        BY <4>1, <4>2, <4>3
    <3> QED
      BY <1>1, <1>3, <2>1, <2>2, <3>1, <3>2 DEF Splits
  <2>4. CountTo(Places(bvb), b) = before + d
    BY <1>5, <2>3
  <2>5. CountTo(Places(bvb), b + 1) = before + (d + 1)
    <3>1. CountTo(Places(bvb), b + 1) = CountTo(Places(bvb), b) + 1
      BY <1>1, <2>2, CountSteps
    <3> QED
      BY <1>2, <2>1, <2>4, <3>1
  <2>6. ASSUME NEW q \in Nat, Splits(q, d + 1) PROVE CountTo(Places(bvb), q) = before + (d + 1)
    <3>1. /\ higher_bits_offset <= q /\ q <= lower_bits_offset
          /\ \A j \in 0 .. (d + 1) - 1 : BitOf(j) < q
          /\ \A j \in d + 1 .. n - 1 : BitOf(j) >= q
      BY <2>6 DEF Splits
    <3>2. b < q /\ higher_bits_offset < b
      BY <1>3, <2>1, <2>2, <3>1
    <3>3. ASSUME NEW x \in b + 1 .. q - 1, x \in Places(bvb) PROVE FALSE
      <4>1. x \in Nat /\ higher_bits_offset <= x /\ x < lower_bits_offset /\ b < x /\ x < q
        BY <1>1, <3>1, <3>2
      <4>2. PICK j \in 0 .. n - 1 : x = BitOf(j)
        BY <1>1, <3>3, <4>1
      <4>3. j < d \/ j = d \/ j \in d + 1 .. n - 1
        BY <2>1
      <4>4. CASE j < d
        BY <1>3, <2>1, <2>2, <4>1, <4>2, <4>4
      <4>5. CASE j = d
        BY <2>2, <4>1, <4>2, <4>5
      <4>6. CASE j \in d + 1 .. n - 1
        BY <3>1, <4>1, <4>2, <4>6
      <4> QED
        BY <4>3, <4>4, <4>5, <4>6
    <3>4. b + 1 \in Nat /\ b + 1 <= q
      BY <3>2
    <3>5. CountTo(Places(bvb), q) = CountTo(Places(bvb), b + 1)
      <4>1. PICK a \in Nat : a = b + 1
        BY <3>4
      <4> QED
        BY <3>3, <3>4, <4>1, NoneCounted
    <3> QED
      BY <2>5, <3>5
  <2> QED
    BY <2>1, <2>6
<1>6. c \in Q
  <2>1. c \in 0 .. n
    BY DEF Splits
  <2> HIDE DEF Q
  <2> QED
    BY <1>1, <1>4, <1>5, <2>1, InductionUpTo
<1> QED
  BY <1>2, <1>6 DEF Splits

(* The one of a value comes after those of the values before it.           *)
LEMMA OneSplits ==
  ASSUME Complete, NEW j \in 0 .. n - 1
  PROVE  /\ BitOf(j) \in Nat /\ BitOf(j) \in Places(bvb) /\ Splits(BitOf(j), j) /\ Splits(BitOf(j) + 1, j + 1)
         /\ CountTo(Places(bvb), BitOf(j)) = before + j
         /\ CountTo(Places(bvb), BitOf(j) + 1) = before + j + 1
<1>1. /\ Given /\ n \in Nat \ {0} /\ higher_bits_offset \in Nat /\ lower_bits_offset \in Nat
      /\ \A k \in 0 .. n - 1 : BitOf(k) \in Places(bvb)
  BY OnesAre
<1>3. /\ \A k \in 0 .. n - 1 : BitOf(k) \in Nat /\ higher_bits_offset < BitOf(k)
                               /\ BitOf(k) < lower_bits_offset
      /\ \A k, l \in 0 .. n - 1 : k < l => BitOf(k) < BitOf(l)
  BY <1>1, OnesPlaced
<1>4. j \in Nat /\ j \in 0 .. n /\ j + 1 \in 0 .. n
  BY <1>1
<1>5. \A k \in 0 .. j - 1 : BitOf(k) < BitOf(j)
  <2> TAKE k \in 0 .. j - 1
  <2>1. k \in 0 .. n - 1 /\ k < j
    BY <1>1, <1>4
  <2> QED
    BY <1>3, <2>1
<1>6. \A k \in j + 1 .. n - 1 : BitOf(j) < BitOf(k)
  BY <1>3, <1>4
<1>7. Splits(BitOf(j), j)
  <2>1. ASSUME NEW k \in j .. n - 1 PROVE BitOf(k) >= BitOf(j)
    <3>1. k = j \/ k \in j + 1 .. n - 1
      BY <1>4
    <3> QED
      BY <1>3, <1>6, <3>1
  <2> QED
    BY <1>1, <1>3, <1>4, <1>5, <2>1 DEF Splits
<1>8. Splits(BitOf(j) + 1, j + 1)
  <2>1. ASSUME NEW k \in 0 .. (j + 1) - 1 PROVE BitOf(k) < BitOf(j) + 1
    <3>1. k = j \/ k \in 0 .. j - 1
      BY <1>4
    <3>2. k \in 0 .. n - 1
      BY <1>1, <1>4
    <3> QED
      BY <1>3, <1>5, <3>1, <3>2
  <2>2. ASSUME NEW k \in j + 1 .. n - 1 PROVE BitOf(k) >= BitOf(j) + 1
    <3>1. k \in 0 .. n - 1
      BY <1>4
    <3> QED
      BY <1>3, <1>6, <3>1
  <2>3. BitOf(j) + 1 \in Nat /\ higher_bits_offset <= BitOf(j) + 1 /\ BitOf(j) + 1 <= lower_bits_offset
    BY <1>1, <1>3
  <2> QED
    BY <1>4, <2>1, <2>2, <2>3 DEF Splits
<1>9. before \in Nat /\ CountTo(Places(bvb), BitOf(j)) = before + j
  BY <1>7, OnesCounted
<1>10. CountTo(Places(bvb), BitOf(j) + 1) = before + (j + 1)
  BY <1>8, OnesCounted
<1> QED
  BY <1>1, <1>3, <1>4, <1>7, <1>8, <1>9, <1>10

(* A zero comes after its z zeros and the c ones before it.                *)
LEMMA ZeroSplits ==
  ASSUME Complete, NEW z \in Nat, z <= high(universe) + 1, NEW c \in 0 .. n, IsRank(z, c),
         NEW p, p = higher_bits_offset + z + c
  PROVE  /\ p \in Nat /\ higher_bits_offset <= p /\ p < lower_bits_offset /\ p < bvb.size
         /\ p \notin Places(bvb) /\ Splits(p, c) /\ CountTo(Places(bvb), p) = before + c
<1>1. /\ Given /\ n \in Nat \ {0} /\ higher_bits_offset \in Nat /\ lower_bits_offset \in Nat
      /\ bvb.size = end /\ end \in Nat /\ lower_bits_offset <= end
      /\ \A x \in Nat : higher_bits_offset <= x /\ x < lower_bits_offset
           => (x \in Places(bvb) <=> \E j \in 0 .. n - 1 : x = BitOf(j))
  BY OnesAre
<1>2. /\ lower_bits_offset = higher_bits_offset + higher_bits_length
      /\ higher_bits_length = n + high(universe) + 2 /\ high(universe) \in Nat
  BY <1>1, Offsets
<1>3. \A j \in 0 .. n - 1 : BitOf(j) = higher_bits_offset + Rel(j) /\ Rel(j) = HighAt(j) + j + 1
                            /\ HighAt(j) \in Nat
  BY <1>1, OnesPlaced
<1>4. p \in Nat /\ higher_bits_offset <= p /\ p < lower_bits_offset /\ p < bvb.size
  <2>1. PICK u \in Nat : u = high(universe)
    BY <1>2
  <2> QED
    BY <1>1, <1>2, <2>1
<1>5. ASSUME NEW j \in 0 .. c - 1 PROVE BitOf(j) < p
  <2>1. HighAt(j) < z /\ j \in 0 .. n - 1
    BY <1>1 DEF IsRank
  <2>2. PICK h \in Nat : h = HighAt(j)
    BY <1>3, <2>1
  <2>3. BitOf(j) = higher_bits_offset + (h + j + 1) /\ h < z
    BY <1>3, <2>1, <2>2
  <2> QED
    BY <1>1, <2>3
<1>6. ASSUME NEW j \in c .. n - 1 PROVE BitOf(j) > p
  <2>1. HighAt(j) >= z /\ j \in 0 .. n - 1
    BY <1>1 DEF IsRank
  <2>2. PICK h \in Nat : h = HighAt(j)
    BY <1>3, <2>1
  <2>3. BitOf(j) = higher_bits_offset + (h + j + 1) /\ h >= z
    BY <1>3, <2>1, <2>2
  <2> QED
    BY <1>1, <2>3
<1>7. Splits(p, c)
  <2>1. \A j \in c .. n - 1 : BitOf(j) >= p
    <3> TAKE j \in c .. n - 1
    <3>1. BitOf(j) \in Nat
      <4>1. j \in 0 .. n - 1
        BY <1>1
      <4> QED
        BY <1>1, <4>1, OnesPlaced
    <3> QED
      BY <1>4, <1>6, <3>1
  <2>2. p <= lower_bits_offset
    BY <1>1, <1>4
  <2> QED
    BY <1>4, <1>5, <2>1, <2>2 DEF Splits
<1>8. p \notin Places(bvb)
  <2> SUFFICES ASSUME p \in Places(bvb) PROVE FALSE
    OBVIOUS
  <2>1. PICK j \in 0 .. n - 1 : p = BitOf(j)
    BY <1>1, <1>4
  <2>2. j \in 0 .. c - 1 \/ j \in c .. n - 1
    BY <1>1
  <2> QED
    BY <1>4, <1>5, <1>6, <2>1, <2>2
<1> QED
  BY <1>4, <1>7, <1>8, OnesCounted

(* The low bits of a value are read.                                       *)
LEMMA LowRead ==
  ASSUME Complete, NEW k \in 0 .. n - 1
  PROVE  low(k) = ValueAt(k) % power[lower_bits]
<1>1. Given /\ BitVec(bvb) /\ bvb.size = end /\ n \in Nat \ {0} /\ lower_bits_offset \in Nat
  BY OnesAre
<1>2. /\ lower_bits \in Nat /\ lower_bits <= word_width - byte_width + 1
      /\ power[lower_bits] \in Nat \ {0}
  BY <1>1, Halves DEF read_width
<1>3. PICK v \in Nat : v = ValueAt(k) % power[lower_bits] /\ v < power[lower_bits]
  <2>1. ValueAt(k) \in Nat
    BY <1>1, Numbers
  <2> QED
    BY <1>1, <2>1, Halves
<1>4. LowParts(bvb, n)
  BY DEF Complete, Written
<1>5. PICK w \in Nat : w = lower_bits
  BY <1>2
<1>6. PICK o \in Nat : o = lower_bits_offset
  BY <1>1
<1>7. Row(bvb, o, w, k, v)
  BY <1>3, <1>4, <1>5, <1>6 DEF LowParts
<1>8. PICK pos : pos = o + k * w /\ pos + w <= bvb.size
  <2>1. k \in Nat /\ k < n /\ n \in Nat
    BY <1>1
  <2>2. k * w \in Nat /\ n * w \in Nat /\ k * w + w <= n * w
    BY <2>1, RowPlaces
  <2>3. bvb.size = o + n * w
    BY <1>1, <1>5, <1>6 DEF end
  <2> QED
    BY <2>2, <2>3
<1>9. number(get_word56(bvb, pos) \cap Mask(w)) = v
  BY <1>1, <1>2, <1>3, <1>5, <1>7, <1>8, RowRead
<1> QED
  BY <1>3, <1>5, <1>6, <1>8, <1>9 DEF low

(* A value is read from its one and its low bits.                          *)
LEMMA ValueRead ==
  ASSUME Complete, NEW k \in 0 .. n - 1, NEW p, p = BitOf(k)
  PROVE  /\ (p - higher_bits_offset - k - 1) * power[lower_bits] + low(k) = ValueAt(k)
         /\ \A he : he.position = p => read(k, he) = ValueAt(k)
<1>1. Given /\ n \in Nat \ {0} /\ higher_bits_offset \in Nat
  BY OnesAre
<1>2. low(k) = ValueAt(k) % power[lower_bits]
  BY LowRead
<1>3. PICK v \in Nat : v = ValueAt(k)
  BY <1>1, Numbers
<1>4. high(v) \in Nat /\ v = high(v) * power[lower_bits] + (v % power[lower_bits])
  BY <1>1, Halves
<1>5. PICK h \in Nat : h = high(v)
  BY <1>4
<1>6. p = higher_bits_offset + (h + k + 1) /\ k \in Nat
  BY <1>1, <1>3, <1>5, OnesPlaced DEF HighAt
<1>7. p - higher_bits_offset - k - 1 = h
  BY <1>1, <1>6
<1>8. (p - higher_bits_offset - k - 1) * power[lower_bits] + low(k) = ValueAt(k)
  BY <1>2, <1>3, <1>4, <1>5, <1>7
<1> QED
  BY <1>8 DEF read

(* A pointer is read as the number that was written.                       *)
LEMMA PointerRead ==
  ASSUME Complete, NEW offset \in Nat, NEW m \in Nat, offset + m * pointer_size <= end,
         NEW t \in Nat \ {0}, t - 1 \in 0 .. m - 1, NEW v \in Nat, v < power[pointer_size],
         Row(bvb, offset, pointer_size, t - 1, v)
  PROVE  pointer(offset, t) = v
<1>1. Given /\ BitVec(bvb) /\ bvb.size = end /\ end \in Nat
  BY OnesAre
<1>2. PICK w \in Nat : w = pointer_size /\ w <= word_width - byte_width + 1
  BY <1>1, Offsets DEF read_width
<1>3. PICK j \in Nat : j = t - 1 /\ j < m
  OBVIOUS
<1>4. PICK pos : pos = offset + j * w /\ pos + w <= bvb.size
  <2>1. j * w \in Nat /\ m * w \in Nat /\ j * w + w <= m * w
    BY <1>3, RowPlaces
  <2>2. offset + m * w <= bvb.size
    BY <1>1, <1>2
  <2> QED
    BY <1>1, <2>1, <2>2
<1>5. Row(bvb, offset, w, j, v) /\ v < power[w]
  BY <1>2, <1>3
<1>6. number(get_word56(bvb, pos) \cap Mask(w)) = v
  BY <1>1, <1>2, <1>3, <1>4, <1>5, RowRead
<1> QED
  BY <1>2, <1>3, <1>4, <1>6 DEF pointer

(* The pointer to a sampled one gives its place.                           *)
LEMMA OnePointed ==
  ASSUME Complete, NEW t \in Nat, NEW k \in 0 .. n - 1, k = t * power[log_sampling1]
  PROVE  t # 0 => pointer(pointers1_offset, t) = Rel(k)
<1> SUFFICES ASSUME t # 0 PROVE pointer(pointers1_offset, t) = Rel(k)
  OBVIOUS
<1>1. Given /\ n \in Nat \ {0}
  BY OnesAre
<1>2. /\ pointers1_offset \in Nat /\ num_pointers1 \in Nat /\ num_pointers1 * pointer_size \in Nat
      /\ higher_bits_offset = pointers1_offset + num_pointers1 * pointer_size
      /\ higher_bits_offset \in Nat /\ lower_bits_offset \in Nat /\ end \in Nat
      /\ \A v \in Nat : v < higher_bits_length => v < power[pointer_size]
      /\ higher_bits_length \in Nat
  BY <1>1, Offsets
<1>3. higher_bits_offset <= end
  BY <1>1, OffsetsOrdered
<1>4. t \in Nat \ {0} /\ k < n
  BY <1>1
<1>5. t - 1 \in 0 .. num_pointers1 - 1
  BY <1>1, <1>4, Slots
<1>6. Rel(k) \in Nat /\ Rel(k) < power[pointer_size]
  <2>1. Rel(k) \in Nat /\ Rel(k) + 1 < higher_bits_length
    BY <1>1, OnesPlaced
  <2> QED
    BY <1>2, <2>1
<1>7. Row(bvb, pointers1_offset, pointer_size, t - 1, Rel(k))
  <2>1. OnePointers(bvb, n)
    BY DEF Complete, Written
  <2> QED
    BY <1>4, <2>1 DEF OnePointers
<1>8. pointers1_offset + num_pointers1 * pointer_size <= end
  BY <1>2, <1>3
<1>9. PICK o \in Nat : o = pointers1_offset
  BY <1>2
<1>10. PICK m \in Nat : m = num_pointers1
  BY <1>2
<1>11. PICK v \in Nat : v = Rel(k)
  BY <1>6
<1> QED
  BY <1>4, <1>5, <1>6, <1>7, <1>8, <1>9, <1>10, <1>11, PointerRead

(* The pointer to a sampled zero gives the place of the zero before which  *)
(* there are as many zeros.                                                *)
LEMMA ZeroPointed ==
  ASSUME Complete, NEW t \in Nat, NEW z \in Nat, z = t * power[log_sampling0],
         z < high(universe) + 2, NEW c \in 0 .. n, IsRank(z, c)
  PROVE  t # 0 => pointer(pointers0_offset, t) = z + c
<1> SUFFICES ASSUME t # 0 PROVE pointer(pointers0_offset, t) = z + c
  OBVIOUS
<1>1. Given /\ n \in Nat \ {0}
  BY OnesAre
<1>2. /\ pointers0_offset \in Nat /\ num_pointers0 \in Nat /\ num_pointers0 * pointer_size \in Nat
      /\ pointers1_offset = pointers0_offset + num_pointers0 * pointer_size
      /\ pointers1_offset \in Nat /\ end \in Nat
      /\ \A v \in Nat : v < higher_bits_length => v < power[pointer_size]
      /\ higher_bits_length \in Nat /\ higher_bits_length = n + high(universe) + 2
      /\ high(universe) \in Nat
  BY <1>1, Offsets
<1>3. pointers1_offset <= end
  <2>1. /\ pointers1_offset <= higher_bits_offset /\ higher_bits_offset <= lower_bits_offset
        /\ lower_bits_offset <= end /\ higher_bits_offset \in Nat /\ lower_bits_offset \in Nat
    BY <1>1, OffsetsOrdered
  <2> QED
    BY <1>2, <2>1
<1>4. t \in Nat \ {0}
  OBVIOUS
<1>5. t - 1 \in 0 .. num_pointers0 - 1
  BY <1>1, <1>4, Slots
<1>6. PICK v \in Nat : v = z + c /\ v < power[pointer_size]
  <2>1. PICK u \in Nat : u = high(universe)
    BY <1>2
  <2>2. z + c \in Nat /\ z + c < higher_bits_length
    BY <1>1, <1>2, <2>1
  <2> QED
    BY <1>2, <2>2
<1>7. Row(bvb, pointers0_offset, pointer_size, t - 1, v)
  <2>1. ZeroPointers(bvb, high(universe) + 2)
    BY DEF Complete, Written
  <2> QED
    BY <1>4, <1>6, <2>1 DEF ZeroPointers
<1>8. pointers0_offset + num_pointers0 * pointer_size <= end
  BY <1>2, <1>3
<1>9. PICK o \in Nat : o = pointers0_offset
  BY <1>2
<1>10. PICK m \in Nat : m = num_pointers0
  BY <1>2
<1> QED
  BY <1>4, <1>5, <1>6, <1>7, <1>8, <1>9, <1>10, PointerRead

(* The iterator en has the bits of its word from start on.                  *)
Resumes(bv, en, start) ==
  \E base \in Nat : \E shift \in 0 .. word_width :
    /\ start = word_width * base + shift /\ en.position \div word_width = base
    /\ en.buf = WordAt(bv.words, base) \ Mask(shift)

(* So does the iterator of a place, and one that has passed it.            *)
LEMMA PlaceResumes ==
  ASSUME NEW bv, NEW p \in Nat
  PROVE  Resumes(bv, unary_iterator(bv, p), p) /\ Resumes(bv, Passed(bv, p), p + 1)
<1>1. PICK q \in Nat, r \in 0 .. word_width - 1 :
        q = p \div word_width /\ r = p % word_width /\ p = word_width * q + r
  BY BitPlace
<1>2. r \in 0 .. word_width /\ r + 1 \in 0 .. word_width /\ r \in Nat
  BY <1>1, WordsAssumption
<1>3. PICK x : x = unary_iterator(bv, p)
  OBVIOUS
<1>4. x.position \div word_width = q /\ x.buf = WordAt(bv.words, q) \ Mask(r)
  BY <1>1, <1>3 DEF unary_iterator
<1>5. PICK y : y = Passed(bv, p)
  OBVIOUS
<1>6. y.position \div word_width = q /\ y.buf = WordAt(bv.words, q) \ Mask(r + 1)
  BY <1>1, <1>5 DEF Passed
<1>7. p + 1 = word_width * q + (r + 1)
  <2>1. PICK a \in Nat : a = word_width * q
    BY <1>1, WordsAssumption
  <2> QED
    BY <1>1, <1>2, <2>1
<1>8. Resumes(bv, x, p)
  BY <1>1, <1>2, <1>4 DEF Resumes
<1>9. Resumes(bv, y, p + 1)
  BY <1>1, <1>2, <1>6, <1>7 DEF Resumes
<1> QED
  BY <1>3, <1>5, <1>8, <1>9

(* From a place before which there are c ones, the next one is that of the *)
(* value at c, and k ones are skipped to that of the value at c + k.       *)
LEMMA OneFrom ==
  ASSUME Complete, NEW start, NEW c \in 0 .. n - 1, Splits(start, c), NEW en, Resumes(bvb, en, start)
  PROVE  /\ next_one(bvb, en) = Passed(bvb, BitOf(c))
         /\ \A k \in Nat : c + k < n => skip(bvb, en, k) = unary_iterator(bvb, BitOf(c + k))
<1>1. BitVec(bvb) /\ n \in Nat
  BY OnesAre
<1>2. PICK base \in Nat, shift \in 0 .. word_width :
        /\ start = word_width * base + shift /\ en.position \div word_width = base
        /\ en.buf = WordAt(bvb.words, base) \ Mask(shift)
  BY DEF Resumes
<1>3. start \in Nat /\ \A j \in c .. n - 1 : BitOf(j) >= start
  BY DEF Splits
<1>4. before \in Nat /\ CountTo(Places(bvb), start) = before + c
  BY OnesCounted
<1>5. next_one(bvb, en) = Passed(bvb, BitOf(c))
  <2>1. PICK t \in Nat : t = BitOf(c) /\ t \in Places(bvb) /\ CountTo(Places(bvb), t) = before + c
    BY OneSplits
  <2>2. start <= t
    <3>1. c \in c .. n - 1
      BY <1>1
    <3> QED
      BY <1>3, <2>1, <3>1
  <2> QED
    BY <1>1, <1>2, <1>4, <2>1, <2>2, NextOneFound
<1>6. ASSUME NEW k \in Nat, c + k < n PROVE skip(bvb, en, k) = unary_iterator(bvb, BitOf(c + k))
  <2>1. c + k \in 0 .. n - 1 /\ c + k \in c .. n - 1 /\ c \in Nat
    BY <1>1, <1>6
  <2>2. PICK t \in Nat : t = BitOf(c + k) /\ t \in Places(bvb) /\ CountTo(Places(bvb), t) = before + (c + k)
    BY <2>1, OneSplits
  <2>3. start <= t
    BY <1>3, <2>1, <2>2
  <2>4. CountTo(Places(bvb), t) = CountTo(Places(bvb), start) + k
    BY <1>4, <2>1, <2>2
  <2> QED
    BY <1>1, <1>2, <2>2, <2>3, <2>4, SkipFinds
<1> QED
  BY <1>5, <1>6

(* The cursors of an enumerator.                                           *)
Cursors == [position : 0 .. end, buf : Word]

(* The iterators that calls leave are such cursors.                        *)
LEMMA CursorsKnown ==
  ASSUME Complete
  PROVE  nowhere \in Cursors /\ \A p \in 0 .. end : Passed(bvb, p) \in Cursors
<1>1. bvb.words \in Seq(Word) /\ end \in Nat
  BY OnesAre
<1>2. nowhere \in Cursors
  BY <1>1 DEF Cursors, nowhere, Word
<1>3. \A k \in Nat : WordAt(bvb.words, k) \in Word
  BY <1>1 DEF WordAt, Word
<1>4. ASSUME NEW p \in 0 .. end PROVE Passed(bvb, p) \in Cursors
  <2>1. p \in Nat
    BY <1>1
  <2>2. p \div word_width \in Nat
    BY <2>1, BitPlace
  <2>3. PICK w \in Word : w = WordAt(bvb.words, p \div word_width)
    BY <1>3, <2>2
  <2>4. PICK x : x = w \ Mask((p % word_width) + 1)
    OBVIOUS
  <2>5. x \in Word
    BY <2>3, <2>4 DEF Word
  <2> QED
    BY <2>3, <2>4, <2>5 DEF Passed, Cursors
<1> QED
  BY <1>2, <1>4

(* The enumerator at a value, its one just consumed; past the last value.  *)
Standing(p) == At(p, ValueAt(p), Passed(bvb, BitOf(p)))

PastEnd(he) == At(n, universe, he)

StandsAt(en, p) ==
  IF p < n THEN en = Standing(p) ELSE p = n /\ \E he \in Cursors : en = PastEnd(he)

(* What its fields are, and what its cursor goes on with.                  *)
LEMMA StandingKnown ==
  ASSUME Complete, NEW p \in 0 .. n, NEW en, StandsAt(en, p)
  PROVE  /\ en.position = p /\ en.he \in Cursors
         /\ en.value = IF p < n THEN ValueAt(p) ELSE universe
         /\ p < n => /\ en.he = Passed(bvb, BitOf(p)) /\ en.he.position = BitOf(p) /\ BitOf(p) \in Nat
                     /\ Resumes(bvb, en.he, BitOf(p) + 1) /\ Splits(BitOf(p) + 1, p + 1)
<1>1. Given /\ n \in Nat /\ end \in Nat /\ lower_bits_offset \in Nat /\ lower_bits_offset <= end
  BY OnesAre
<1>2. CASE p < n
  <2>1. p \in 0 .. n - 1
    BY <1>1, <1>2
  <2>2. PICK b \in Nat : b = BitOf(p) /\ Splits(b + 1, p + 1)
    BY <2>1, OneSplits
  <2>3. b \in 0 .. end
    <3>1. BitOf(p) < lower_bits_offset
      BY <1>1, <2>1, OnesPlaced
    <3> QED
      BY <1>1, <2>2, <3>1
  <2>4. PICK x : x = Passed(bvb, b)
    OBVIOUS
  <2>5. x \in Cursors /\ Resumes(bvb, x, b + 1) /\ x.position = b
    BY <2>2, <2>3, <2>4, CursorsKnown, PlaceResumes DEF Passed
  <2>6. en = [position |-> p, value |-> ValueAt(p), he |-> x]
    BY <1>2, <2>2, <2>4 DEF StandsAt, Standing, At
  <2> QED
    BY <1>2, <2>2, <2>4, <2>5, <2>6
<1>3. CASE ~ p < n
  <2>1. PICK he \in Cursors : en = [position |-> n, value |-> universe, he |-> he]
    BY <1>3 DEF StandsAt, PastEnd, At
  <2>2. p = n
    BY <1>3 DEF StandsAt
  <2> QED
    BY <1>3, <2>1, <2>2
<1> QED
  BY <1>2, <1>3

(* The next one that is read is that of the value.                         *)
LEMMA ReadStands ==
  ASSUME Complete, NEW p \in 0 .. n - 1
  PROVE  /\ ReadAt(p, Passed(bvb, BitOf(p))) = Standing(p)
         /\ \A en, start : Splits(start, p) /\ Resumes(bvb, en, start)
              => read_next_value(p, en) = Standing(p)
<1>1. PICK b \in Nat : b = BitOf(p)
  BY OneSplits
<1>2. PICK x : x = Passed(bvb, b)
  OBVIOUS
<1>3. x.position = b
  BY <1>2 DEF Passed
<1>4. read(p, x) = ValueAt(p)
  BY <1>1, <1>3, ValueRead
<1>5. ReadAt(p, x) = Standing(p)
  BY <1>1, <1>2, <1>4 DEF ReadAt, Standing
<1>6. ASSUME NEW en, NEW start, Splits(start, p), Resumes(bvb, en, start)
      PROVE  read_next_value(p, en) = Standing(p)
  <2>1. next_one(bvb, en) = x
    BY <1>1, <1>2, <1>6, OneFrom
  <2> QED
    BY <1>5, <2>1 DEF read_next_value
<1> QED
  BY <1>1, <1>2, <1>5, <1>6

(* Ones may be skipped before.                                             *)
LEMMA SkipStands ==
  ASSUME Complete, NEW c \in 0 .. n - 1, NEW start, Splits(start, c), NEW en, Resumes(bvb, en, start),
         NEW k \in Nat, NEW p \in 0 .. n - 1, p = c + k
  PROVE  read_next_value(p, skip(bvb, en, k)) = Standing(p)
<1>1. n \in Nat
  BY OnesAre
<1>2. skip(bvb, en, k) = unary_iterator(bvb, BitOf(p))
  <2>1. c + k < n
    BY <1>1
  <2> QED
    BY <2>1, OneFrom
<1>3. PICK b \in Nat : b = BitOf(p) /\ Splits(b, p)
  BY OneSplits
<1>4. PICK x : x = unary_iterator(bvb, b)
  OBVIOUS
<1>5. Resumes(bvb, x, b)
  BY <1>4, PlaceResumes
<1> QED
  BY <1>2, <1>3, <1>4, <1>5, ReadStands

(* Ones are given one after the other, as often as next is called.         *)
NextsFrom(first, m) ==
  CHOOSE he : he = [k \in 0 .. m |-> IF k = 0 THEN first ELSE next_one(bvb, he[k - 1])]

(* The m-th time it gives the one of m values further on.                  *)
LEMMA NextsGiven ==
  ASSUME Complete, NEW p \in 0 .. n - 1, NEW m \in Nat, p + m <= n - 1,
         NEW f, f = NextsFrom(Passed(bvb, BitOf(p)), m)
  PROVE  f[m] = Passed(bvb, BitOf(p + m))
<1> DEFINE Body(h, k) == IF k = 0 THEN Passed(bvb, BitOf(p)) ELSE next_one(bvb, h[k - 1])
           w == [k \in 0 .. m |-> Passed(bvb, BitOf(p + k))]
<1>0. n \in Nat
  BY OnesAre
<1>1. ASSUME NEW k \in Nat, k < m
      PROVE  next_one(bvb, Passed(bvb, BitOf(p + k))) = Passed(bvb, BitOf(p + (k + 1)))
  <2>1. PICK q \in 0 .. n - 1 : q = p + k
    BY <1>0, <1>1
  <2>2. PICK r \in 0 .. n - 1 : r = q + 1 /\ r = p + (k + 1)
    BY <1>0, <1>1, <2>1
  <2>3. PICK b \in Nat : b = BitOf(q) /\ Splits(b + 1, r)
    BY <2>1, <2>2, OneSplits
  <2>4. PICK x : x = Passed(bvb, b)
    OBVIOUS
  <2>5. Resumes(bvb, x, b + 1)
    BY <2>4, PlaceResumes
  <2>6. next_one(bvb, x) = Passed(bvb, BitOf(r))
    <3>1. PICK s : s = b + 1
      OBVIOUS
    <3> QED
      BY <2>3, <2>5, <3>1, OneFrom
  <2> QED
    BY <2>1, <2>2, <2>3, <2>4, <2>6
<1>2. ASSUME NEW k \in 0 .. m PROVE w[k] = Body(w, k)
  <2>1. CASE k = 0
    <3>1. p + 0 = p
      BY <1>0
    <3> QED
      BY <2>1, <3>1
  <2>2. CASE k # 0
    <3>1. PICK d \in Nat : d = k - 1 /\ d + 1 = k /\ d < m /\ d \in 0 .. m
      BY <2>2
    <3>2. w[k - 1] = Passed(bvb, BitOf(p + d))
      BY <3>1
    <3>3. w[k] = Passed(bvb, BitOf(p + (d + 1)))
      BY <3>1
    <3> HIDE DEF w
    <3> QED
      BY <1>1, <2>2, <3>1, <3>2, <3>3
  <2> HIDE DEF w, Body
  <2> QED
    BY <2>1, <2>2
<1>3. w = [k \in 0 .. m |-> w[k]]
  OBVIOUS
<1> HIDE DEF w, Body
<1>4. w = [k \in 0 .. m |-> Body(w, k)]
  BY <1>2, <1>3
<1>5. NextsFrom(Passed(bvb, BitOf(p)), m) = CHOOSE h : h = [k \in 0 .. m |-> Body(h, k)]
  BY DEF NextsFrom, Body
<1>6. f = [k \in 0 .. m |-> Body(f, k)]
  BY <1>4, <1>5
<1>7. /\ f[0] = Passed(bvb, BitOf(p))
      /\ \A k \in 0 .. m - 1 : f[k + 1] = next_one(bvb, f[k])
  <2>1. \A k \in 0 .. m : f[k] = Body(f, k)
    BY <1>6
  <2>2. 0 \in 0 .. m
    OBVIOUS
  <2>3. ASSUME NEW k \in 0 .. m - 1 PROVE f[k + 1] = next_one(bvb, f[k])
    <3>1. k + 1 \in 0 .. m /\ k + 1 # 0 /\ (k + 1) - 1 = k
      OBVIOUS
    <3> QED
      BY <2>1, <3>1 DEF Body
  <2> QED
    BY <2>1, <2>2, <2>3 DEF Body
<1> DEFINE Q == {k \in 0 .. m : f[k] = Passed(bvb, BitOf(p + k))}
<1>8. 0 \in Q
  <2>1. p + 0 = p
    BY <1>0
  <2> QED
    BY <1>7, <2>1
<1>9. ASSUME NEW k \in 0 .. m - 1, k \in Q PROVE k + 1 \in Q
  <2>1. k \in Nat /\ k < m /\ k + 1 \in 0 .. m
    OBVIOUS
  <2> QED
    BY <1>1, <1>7, <1>9, <2>1
<1> HIDE DEF Q
<1>10. m \in Q
  BY <1>8, <1>9, InductionUpTo
<1> QED
  BY <1>10 DEF Q

(* A pointer gives a place before which there are as many ones as values.  *)
LEMMA PointedStands ==
  ASSUME Complete, NEW p \in 0 .. n - 1, NEW t, t = p \div power[log_sampling1]
  PROVE  read_next_value(p, skip(bvb, pointed(pointers1_offset, t),
                                 p - t * power[log_sampling1])) = Standing(p)
<1>1. /\ Given /\ n \in Nat \ {0} /\ higher_bits_offset \in Nat /\ lower_bits_offset \in Nat
      /\ higher_bits_offset <= lower_bits_offset
  BY OnesAre
<1>2. PICK P \in Nat \ {0} : P = power[log_sampling1]
  BY <1>1, Offsets
<1>3. t \in Nat /\ p % P \in Nat /\ p = P * t + (p % P)
  <2>1. PICK q \in Nat : q = p /\ t = q \div P
    BY <1>1, <1>2
  <2>2. q \div P \in Nat /\ q % P \in 0 .. P - 1 /\ q = P * (q \div P) + (q % P)
    BY Division
  <2>3. q % P \in Nat
    BY <2>2
  <2> QED
    BY <2>1, <2>2, <2>3, Zenon
<1>4. PICK c \in Nat : c = t * P /\ c = P * t
  BY <1>3
<1>5. PICK k \in Nat : k = p - c /\ p = c + k
  <2>1. PICK r \in Nat : r = p % P
    BY <1>3
  <2> QED
    BY <1>1, <1>3, <1>4, <2>1
<1>6. c \in 0 .. n - 1
  BY <1>1, <1>5
<1>7. PICK start \in Nat : start = higher_bits_offset + pointer(pointers1_offset, t) /\ Splits(start, c)
  <2>1. CASE t = 0
    <3>1. c = 0 /\ pointer(pointers1_offset, t) = 0
      BY <1>4, <2>1 DEF pointer
    <3>2. \A j \in 0 .. n - 1 : BitOf(j) \in Nat /\ BitOf(j) >= higher_bits_offset
      <4> TAKE j \in 0 .. n - 1
      <4>1. BitOf(j) \in Nat /\ higher_bits_offset < BitOf(j)
        BY <1>1, OnesPlaced
      <4> QED
        BY <1>1, <4>1
    <3>3. Splits(higher_bits_offset, 0)
      BY <1>1, <3>2 DEF Splits
    <3> QED
      BY <1>1, <3>1, <3>3
  <2>2. CASE t # 0
    <3>1. pointer(pointers1_offset, t) = Rel(c)
      BY <1>2, <1>3, <1>4, <1>6, <2>2, OnePointed
    <3>2. BitOf(c) = higher_bits_offset + Rel(c)
      BY <1>1, <1>6, OnesPlaced
    <3>3. Splits(BitOf(c), c) /\ BitOf(c) \in Nat
      BY <1>6, OneSplits
    <3> QED
      BY <3>1, <3>2, <3>3
  <2> QED
    BY <2>1, <2>2
<1>8. PICK x : x = unary_iterator(bvb, start)
  OBVIOUS
<1>9. Resumes(bvb, x, start)
  BY <1>8, PlaceResumes
<1>10. pointed(pointers1_offset, t) = x
  BY <1>7, <1>8 DEF pointed
<1>11. read_next_value(p, skip(bvb, x, k)) = Standing(p)
  BY <1>5, <1>6, <1>7, <1>9, SkipStands
<1> QED
  BY <1>2, <1>4, <1>5, <1>10, <1>11

(* A long skip arrives, from the cursor or from a pointer.                 *)
LEMMA SlowMoveArrives ==
  ASSUME Complete, NEW a \in 0 .. n, NEW en, StandsAt(en, a), NEW p \in 0 .. n - 1, p # a
  PROVE  slow_move(en, p) = Standing(p)
<1>1. Given /\ n \in Nat
  BY OnesAre
<1>2. en.position = a
  BY StandingKnown
<1>3. CASE p > a /\ (p - a) \div power[log_sampling1] = 0
  <2>1. PICK k \in Nat : k = p - a - 1 /\ p = (a + 1) + k
    BY <1>1, <1>3
  <2>2. PICK c \in 0 .. n - 1 : c = a + 1 /\ p = c + k /\ a < n
    BY <1>1, <1>3, <2>1
  <2>3. PICK start : start = BitOf(a) + 1 /\ Splits(start, c) /\ Resumes(bvb, en.he, start)
    BY <2>2, StandingKnown
  <2>4. read_next_value(p, skip(bvb, en.he, k)) = Standing(p)
    BY <2>2, <2>3, SkipStands
  <2> QED
    BY <1>2, <1>3, <2>1, <2>4 DEF slow_move
<1>4. CASE ~ (p > a /\ (p - a) \div power[log_sampling1] = 0)
  <2>1. PICK t : t = p \div power[log_sampling1]
    OBVIOUS
  <2>2. read_next_value(p, skip(bvb, pointed(pointers1_offset, t), p - t * power[log_sampling1])) = Standing(p)
    BY <2>1, PointedStands
  <2> QED
    BY <1>2, <1>4, <2>1, <2>2 DEF slow_move
<1> QED
  BY <1>3, <1>4

(* move arrives from anywhere.                                             *)
LEMMA MoveArrives ==
  ASSUME Complete, NEW a \in 0 .. n, NEW en, StandsAt(en, a), NEW p \in 0 .. n
  PROVE  StandsAt(move(en, p), p)
<1>1. Given /\ n \in Nat
  BY OnesAre
<1>2. en.position = a /\ en.he \in Cursors
  BY StandingKnown
<1>3. CASE p = a
  <2>1. move(en, p) = en
    BY <1>2, <1>3 DEF move
  <2> QED
    BY <1>3, <2>1
<1>4. CASE p # a /\ p = n
  <2>1. move(en, p) = PastEnd(en.he)
    BY <1>2, <1>4 DEF move, PastEnd
  <2>2. ~ p < n
    BY <1>1, <1>4
  <2> QED
    BY <1>2, <1>4, <2>1, <2>2 DEF StandsAt
<1>5. CASE p # a /\ p # n
  <2>0. p \in 0 .. n - 1 /\ p < n
    BY <1>1, <1>5
  <2>1. CASE p > a /\ p - a <= linear_scan_threshold
    <3>1. PICK m \in Nat : m = p - a /\ a + m = p /\ a + m <= n - 1 /\ a \in 0 .. n - 1 /\ a < n
      BY <1>1, <2>0, <2>1
    <3>2. PICK f : f = NextsFrom(en.he, m)
      OBVIOUS
    <3>3. en.he = Passed(bvb, BitOf(a))
      BY <3>1, StandingKnown
    <3>4. f[m] = Passed(bvb, BitOf(p))
      BY <3>1, <3>2, <3>3, NextsGiven
    <3>5. move(en, p) = ReadAt(p, f[m])
      BY <1>2, <1>5, <2>1, <3>1, <3>2 DEF move, NextsFrom
    <3>6. move(en, p) = Standing(p)
      BY <2>0, <3>4, <3>5, ReadStands
    <3> QED
      BY <2>0, <3>6 DEF StandsAt
  <2>2. CASE ~ (p > a /\ p - a <= linear_scan_threshold)
    <3>1. move(en, p) = slow_move(en, p)
      BY <1>2, <1>5, <2>2 DEF move
    <3>2. slow_move(en, p) = Standing(p)
      BY <1>5, <2>0, SlowMoveArrives
    <3> QED
      BY <2>0, <3>1, <3>2 DEF StandsAt
  <2> QED
    BY <2>1, <2>2
<1> QED
  BY <1>3, <1>4, <1>5

(* next goes to the next value, and then past the end.                     *)
LEMMA NextArrives ==
  ASSUME Complete, NEW a \in 0 .. n - 1, NEW en, StandsAt(en, a)
  PROVE  a + 1 \in 0 .. n /\ StandsAt(next(en), a + 1)
<1>1. Given /\ n \in Nat
  BY OnesAre
<1>2. a \in 0 .. n /\ a < n /\ a + 1 \in 0 .. n
  BY <1>1
<1>3. en.position = a /\ en.he \in Cursors
  BY <1>2, StandingKnown
<1>4. PICK start : start = BitOf(a) + 1 /\ Splits(start, a + 1) /\ Resumes(bvb, en.he, start)
  BY <1>2, StandingKnown
<1>5. CASE a + 1 < n
  <2>1. PICK c \in 0 .. n - 1 : c = a + 1
    BY <1>1, <1>2, <1>5
  <2>2. next(en) = read_next_value(c, en.he)
    BY <1>3, <1>5, <2>1 DEF next
  <2>3. next(en) = Standing(c)
    BY <1>4, <2>1, <2>2, ReadStands
  <2> QED
    BY <1>2, <1>5, <2>1, <2>3 DEF StandsAt
<1>6. CASE ~ a + 1 < n
  <2>1. a + 1 = n
    BY <1>1, <1>6
  <2>2. next(en) = PastEnd(en.he)
    BY <1>3, <1>6, <2>1 DEF next, PastEnd
  <2> QED
    BY <1>2, <1>3, <1>6, <2>1, <2>2 DEF StandsAt
<1> QED
  BY <1>2, <1>5, <1>6

(* The first value that is not below a bound is one, and only one.         *)
FirstFrom(p, b, g) ==
  /\ g \in p .. n
  /\ g < n => ValueAt(g) >= b
  /\ \A q \in p .. g - 1 : ValueAt(q) < b

LEMMA FirstKnown ==
  ASSUME Given, NEW b \in Nat, NEW p \in 0 .. n
  PROVE  /\ \E g \in p .. n : FirstFrom(p, b, g)
         /\ \A g, h \in p .. n : FirstFrom(p, b, g) /\ FirstFrom(p, b, h) => g = h
<1>1. n \in Nat \ {0} /\ \A j \in 0 .. n - 1 : ValueAt(j) \in Nat
  BY Numbers
<1>2. \E g \in p .. n : FirstFrom(p, b, g)
  <2> DEFINE T == {q \in p .. n : q < n => ValueAt(q) >= b}
  <2>1. n \in T /\ T \subseteq Nat
    BY <1>1
  <2>2. PICK g \in T : \A q \in T : g <= q
    <3> HIDE DEF T
    <3> QED
      BY <2>1, LeastNatural
  <2>3. \A q \in p .. g - 1 : ValueAt(q) < b
    <3> TAKE q \in p .. g - 1
    <3>1. q \in p .. n /\ q \in 0 .. n - 1 /\ q < g /\ g \in p .. n
      BY <1>1, <2>2
    <3>2. q \notin T
      <4> HIDE DEF T
      <4> QED
        BY <1>1, <2>2, <3>1
    <3> QED
      BY <1>1, <3>1, <3>2
  <2> QED
    BY <2>2, <2>3 DEF FirstFrom
<1>3. ASSUME NEW g \in p .. n, NEW h \in p .. n, FirstFrom(p, b, g), FirstFrom(p, b, h), g < h
      PROVE  FALSE
  <2>1. g \in p .. h - 1 /\ g < n /\ g \in 0 .. n - 1
    BY <1>1, <1>3
  <2> QED
    BY <1>1, <1>3, <2>1 DEF FirstFrom
<1>4. ASSUME NEW g \in p .. n, NEW h \in p .. n, FirstFrom(p, b, g), FirstFrom(p, b, h)
      PROVE  g = h
  <2>1. g < h \/ h < g \/ g = h
    BY <1>1
  <2> QED
    BY <1>3, <1>4, <2>1
<1> QED
  BY <1>2, <1>4

(* Where all values before are below the bound it is the promised one.     *)
LEMMA FirstPromised ==
  ASSUME Given, NEW b \in Nat, NEW p \in 0 .. n, \A q \in 0 .. p - 1 : ValueAt(q) < b,
         NEW g, FirstFrom(p, b, g)
  PROVE  /\ g \in 0 .. n /\ Promise!FirstGeq(list, b) = g
         /\ Promise!moved(list, universe, g)
              = [position |-> g, value |-> IF g < n THEN ValueAt(g) ELSE universe]
<1>1. n \in Nat \ {0} /\ \A j \in 0 .. n - 1 : ValueAt(j) \in Nat
  BY Numbers
<1>2. g \in 0 .. n /\ FirstFrom(0, b, g)
  <2>1. \A q \in 0 .. g - 1 : ValueAt(q) < b
    <3> TAKE q \in 0 .. g - 1
    <3>1. q \in 0 .. p - 1 \/ q \in p .. g - 1
      BY <1>1 DEF FirstFrom
    <3> QED
      BY <3>1 DEF FirstFrom
  <2>2. g \in 0 .. n
    BY <1>1 DEF FirstFrom
  <2> QED
    BY <2>1, <2>2 DEF FirstFrom
<1>3. \A x, y \in 0 .. n : FirstFrom(0, b, x) /\ FirstFrom(0, b, y) => x = y
  <2>1. 0 \in 0 .. n
    BY <1>1
  <2> QED
    BY <2>1, FirstKnown
<1>4. \A x \in 0 .. n : FirstFrom(0, b, x) <=> /\ x < n => list[x + 1] >= b
                                               /\ \A q \in 0 .. x - 1 : list[q + 1] < b
  BY DEF FirstFrom, ValueAt
<1>5. Promise!FirstGeq(list, b) = CHOOSE x \in 0 .. n : FirstFrom(0, b, x)
  BY <1>4 DEF Promise!FirstGeq, n
<1>6. Promise!FirstGeq(list, b) = g
  BY <1>2, <1>3, <1>5
<1>7. Promise!moved(list, universe, g)
        = [position |-> g, value |-> IF g < n THEN ValueAt(g) ELSE universe]
  BY DEF Promise!moved, Promise!enumerator, n, ValueAt
<1> QED
  BY <1>2, <1>6, <1>7

(* The recursion of a scan from position p with the cursor he.             *)
Reader(he, p) ==
  CHOOSE reader : reader =
    [q \in p .. n |->
       IF q = n THEN At(n, universe, IF q = p THEN he ELSE reader[q - 1].he)
       ELSE read_next_value(q, IF q = p THEN he ELSE reader[q - 1].he)]

(* A cursor from which a scan from p may begin.                            *)
Begins(he, p) ==
  IF p < n THEN \E start : Splits(start, p) /\ Resumes(bvb, he, start) ELSE he \in Cursors

(* It reads every value from p on.                                         *)
LEMMA ReaderStands ==
  ASSUME Complete, NEW p \in 0 .. n, NEW he, Begins(he, p), NEW f, f = Reader(he, p)
  PROVE  \A q \in p .. n : StandsAt(f[q], q)
<1> DEFINE Body(h, q) ==
             IF q = n THEN At(n, universe, IF q = p THEN he ELSE h[q - 1].he)
             ELSE read_next_value(q, IF q = p THEN he ELSE h[q - 1].he)
           last == IF p = n THEN he ELSE Standing(n - 1).he
           w == [q \in p .. n |-> IF q < n THEN Standing(q) ELSE PastEnd(last)]
<1>0. Given /\ n \in Nat \ {0}
  BY OnesAre
<1>1. \A q \in 0 .. n - 1 : StandsAt(Standing(q), q)
  BY <1>0 DEF StandsAt
<1>2. ASSUME NEW q \in 0 .. n - 1, q + 1 < n
      PROVE  read_next_value(q + 1, Standing(q).he) = Standing(q + 1)
  <2>1. PICK x : x = Standing(q)
    OBVIOUS
  <2>2. PICK c \in 0 .. n - 1 : c = q + 1
    BY <1>0, <1>2
  <2>3. q \in 0 .. n /\ q < n
    BY <1>0
  <2>4. PICK start : start = BitOf(q) + 1 /\ Splits(start, c) /\ Resumes(bvb, x.he, start)
    BY <1>1, <2>1, <2>2, <2>3, StandingKnown
  <2> QED
    BY <2>1, <2>2, <2>4, ReadStands
<1>3. last \in Cursors
  <2>1. CASE p = n
    BY <1>0, <2>1 DEF Begins
  <2>2. CASE p # n
    <3>1. PICK c \in 0 .. n : c = n - 1 /\ c \in 0 .. n - 1
      BY <1>0
    <3> QED
      BY <1>1, <2>2, <3>1, StandingKnown
  <2> QED
    BY <2>1, <2>2
<1>4. ASSUME NEW q \in p .. n PROVE w[q] = Body(w, q)
  <2>1. w[q] = IF q < n THEN Standing(q) ELSE PastEnd(last)
    OBVIOUS
  <2>2. ASSUME q # p PROVE w[q - 1] = Standing(q - 1) /\ q - 1 \in 0 .. n - 1 /\ (q - 1) + 1 = q
    BY <1>0, <2>2
  <2> HIDE DEF w
  <2>3. CASE q = n /\ q = p
    <3>1. w[q] = PastEnd(he)
      BY <1>0, <2>1, <2>3
    <3> QED
      BY <2>3, <3>1 DEF PastEnd
  <2>4. CASE q = n /\ q # p
    <3>1. w[q] = PastEnd(Standing(n - 1).he)
      BY <1>0, <2>1, <2>4
    <3> QED
      BY <2>2, <2>4, <3>1 DEF PastEnd
  <2>5. CASE q # n /\ q = p
    <3>1. q < n /\ q \in 0 .. n - 1
      BY <1>0, <2>5
    <3>2. read_next_value(q, he) = Standing(q)
      BY <2>5, <3>1, ReadStands DEF Begins
    <3> QED
      BY <2>1, <2>5, <3>1, <3>2
  <2>6. CASE q # n /\ q # p
    <3>1. q < n /\ q \in 0 .. n - 1
      BY <1>0, <2>6
    <3>2. PICK d \in 0 .. n - 1 : d = q - 1 /\ d + 1 = q
      BY <2>2, <2>6
    <3>3. read_next_value(d + 1, Standing(d).he) = Standing(d + 1)
      BY <1>2, <3>1, <3>2
    <3> QED
      BY <2>1, <2>2, <2>6, <3>1, <3>2, <3>3
  <2> QED
    BY <2>3, <2>4, <2>5, <2>6
<1>5. w = [q \in p .. n |-> w[q]]
  OBVIOUS
<1>6. ASSUME NEW q \in p .. n PROVE StandsAt(w[q], q)
  <2>1. CASE q < n
    BY <2>1 DEF StandsAt
  <2>2. CASE ~ q < n
    <3>1. q = n /\ w[q] = PastEnd(last)
      BY <1>0, <2>2
    <3> HIDE DEF w, last
    <3> QED
      BY <1>3, <2>2, <3>1 DEF StandsAt
  <2> QED
    BY <2>1, <2>2
<1> HIDE DEF w, Body, last
<1>7. w = [q \in p .. n |-> Body(w, q)]
  BY <1>4, <1>5
<1>8. Reader(he, p) = CHOOSE h : h = [q \in p .. n |-> Body(h, q)]
  BY DEF Reader, Body
<1>9. f = [q \in p .. n |-> Body(f, q)]
  BY <1>7, <1>8
<1>10. \A q \in p .. n : f[q] = Body(f, q) /\ w[q] = Body(w, q)
  BY <1>4, <1>9
<1> DEFINE Q == {k \in 0 .. n - p : f[p + k] = w[p + k]}
<1>11. 0 \in Q
  <2>1. p \in p .. n /\ p + 0 = p /\ 0 \in 0 .. n - p
    BY <1>0
  <2>2. Body(f, p) = Body(w, p)
    BY DEF Body
  <2> QED
    BY <1>10, <2>1, <2>2
<1>12. ASSUME NEW k \in 0 .. (n - p) - 1, k \in Q PROVE k + 1 \in Q
  <2>1. PICK q \in p .. n : q = p + (k + 1) /\ q - 1 = p + k /\ q # p
    BY <1>0
  <2>2. f[q - 1] = w[q - 1]
    BY <1>12, <2>1
  <2>3. Body(f, q) = Body(w, q)
    BY <2>1, <2>2 DEF Body
  <2>4. k + 1 \in 0 .. n - p
    BY <1>0
  <2> QED
    BY <1>10, <2>1, <2>3, <2>4
<1>13. \A k \in 0 .. n - p : k \in Q
  <2>1. PICK m \in Nat : m = n - p
    BY <1>0
  <2> HIDE DEF Q
  <2> QED
    BY <1>11, <1>12, <2>1, InductionUpTo
<1>14. ASSUME NEW q \in p .. n PROVE f[q] = w[q]
  <2>1. PICK k \in 0 .. n - p : k = q - p /\ q = p + k
    BY <1>0
  <2>2. k \in Q
    BY <1>13
  <2> QED
    BY <2>1, <2>2
<1> QED
  BY <1>6, <1>14

(* A scan stops at the first value that is not below the bound.            *)
LEMMA ScanStands ==
  ASSUME Complete, NEW p \in 0 .. n, NEW he, Begins(he, p), NEW b \in Nat
  PROVE  \E g \in p .. n : FirstFrom(p, b, g) /\ StandsAt(scan_geq(he, p, b), g)
<1>0. Given /\ n \in Nat \ {0}
  BY OnesAre
<1>1. PICK f : f = Reader(he, p)
  OBVIOUS
<1>2. \A q \in p .. n : StandsAt(f[q], q)
  BY <1>1, ReaderStands
<1>3. \A q \in p .. n : q < n => f[q].value = ValueAt(q)
  <2> TAKE q \in p .. n
  <2>1. q \in 0 .. n
    BY <1>0
  <2>2. PICK x : x = f[q]
    OBVIOUS
  <2> QED
    BY <1>2, <2>1, <2>2, StandingKnown
<1>4. \A g \in p .. n : FirstFrom(p, b, g) <=> /\ g < n => f[g].value >= b
                                               /\ \A q \in p .. g - 1 : f[q].value < b
  <2> TAKE g \in p .. n
  <2>1. \A q \in p .. g - 1 : q \in p .. n /\ q < n
    BY <1>0
  <2> QED
    BY <1>3, <2>1 DEF FirstFrom
<1>5. scan_geq(he, p, b) = f[CHOOSE g \in p .. n : /\ g < n => f[g].value >= b
                                                   /\ \A q \in p .. g - 1 : f[q].value < b]
  BY <1>1 DEF scan_geq, Reader
<1>6. PICK g \in p .. n : FirstFrom(p, b, g) /\ scan_geq(he, p, b) = f[g]
  <2>1. \E g \in p .. n : FirstFrom(p, b, g)
    BY <1>0, FirstKnown
  <2>2. PICK g : g = CHOOSE c \in p .. n : /\ c < n => f[c].value >= b
                                           /\ \A q \in p .. c - 1 : f[q].value < b
    OBVIOUS
  <2>3. g \in p .. n /\ FirstFrom(p, b, g)
    BY <1>4, <2>1, <2>2
  <2> QED
    BY <1>5, <2>2, <2>3
<1> QED
  BY <1>2, <1>6

(* Both ways lead to the zero with as many zeros before it as the high     *)
(* bits of the bound say.                                                  *)
ZeroOf(h, c) == unary_iterator(bvb, higher_bits_offset + h + c)

(* From the pointer to the sampled zero before it,                         *)
LEMMA ZeroFromPointer ==
  ASSUME Complete, NEW h \in Nat, h <= high(universe), NEW c \in 0 .. n, IsRank(h, c),
         NEW t, t = h \div power[log_sampling0]
  PROVE  skip0(bvb, pointed(pointers0_offset, t), h - t * power[log_sampling0]) = ZeroOf(h, c)
<1>1. /\ Given /\ n \in Nat \ {0} /\ higher_bits_offset \in Nat /\ BitVec(bvb)
  BY OnesAre
<1>2. PICK P \in Nat \ {0} : P = power[log_sampling0]
  BY <1>1, Offsets
<1>3. t \in Nat /\ h % P \in Nat /\ h = P * t + (h % P)
  <2>1. h \div P \in Nat /\ h % P \in 0 .. P - 1 /\ h = P * (h \div P) + (h % P)
    BY Division
  <2>2. h % P \in Nat /\ t = h \div P
    BY <1>2, <2>1
  <2> QED
    BY <2>1, <2>2, Zenon
<1>4. PICK z \in Nat : z = t * P /\ z = P * t
  BY <1>3
<1>5. PICK k \in Nat : k = h - z /\ h = z + k
  <2>1. PICK r \in Nat : r = h % P
    BY <1>3
  <2> QED
    BY <1>3, <1>4, <2>1
<1>6. PICK u \in Nat : u = high(universe)
  BY <1>1, Offsets
<1>7. z <= u + 1 /\ h <= u + 1 /\ z < u + 2 /\ z <= h
  BY <1>5, <1>6
<1>8. PICK d \in 0 .. n : IsRank(z, d)
  BY <1>1, RankKnown
<1>9. d <= c
  BY <1>1, <1>7, <1>8, RankKnown
<1>10. PICK s \in Nat : /\ s = higher_bits_offset + z + d /\ s \notin Places(bvb)
                        /\ CountTo(Places(bvb), s) = before + d /\ Splits(s, d)
  BY <1>6, <1>7, <1>8, ZeroSplits
<1>11. PICK dest \in Nat : /\ dest = higher_bits_offset + h + c /\ dest < bvb.size /\ dest \notin Places(bvb)
                         /\ CountTo(Places(bvb), dest) = before + c
  BY <1>6, <1>7, ZeroSplits
<1>12. before \in Nat
  BY <1>10, OnesCounted
<1>13. s <= dest /\ k = (dest - s) - (CountTo(Places(bvb), dest) - CountTo(Places(bvb), s))
  BY <1>1, <1>5, <1>9, <1>10, <1>11, <1>12
<1>14. skip0(bvb, unary_iterator(bvb, s), k) = unary_iterator(bvb, dest)
  BY <1>1, <1>11, <1>13, ZeroFromPlace
<1>15. pointer(pointers0_offset, t) = z + d
  <2>1. CASE t = 0
    <3>1. z = 0
      BY <1>4, <2>1
    <3>2. IsRank(0, 0)
      <4>1. \A j \in 0 .. n - 1 : HighAt(j) \in Nat
        BY <1>1, OnesPlaced
      <4>2. \A j \in 0 .. n - 1 : HighAt(j) >= 0
        <5> TAKE j \in 0 .. n - 1
        <5>1. HighAt(j) \in Nat
          BY <4>1
        <5> QED
          BY <5>1
      <4> QED
        BY <1>1, <4>2 DEF IsRank
    <3>3. 0 \in 0 .. n
      BY <1>1
    <3>4. d = 0
      BY <1>1, <1>8, <3>1, <3>2, <3>3, RankKnown
    <3> QED
      BY <2>1, <3>1, <3>4 DEF pointer
  <2>2. CASE t # 0
    BY <1>2, <1>3, <1>4, <1>6, <1>7, <1>8, <2>2, ZeroPointed
  <2> QED
    BY <2>1, <2>2
<1>16. pointed(pointers0_offset, t) = unary_iterator(bvb, s)
  <2>1. higher_bits_offset + (z + d) = s
    BY <1>1, <1>10
  <2> QED
    BY <1>15, <2>1 DEF pointed
<1> QED
  BY <1>2, <1>4, <1>5, <1>11, <1>14, <1>16 DEF ZeroOf

(* and from the one of a value with fewer zeros before it.                 *)
LEMMA ZeroFromCursor ==
  ASSUME Complete, NEW h \in Nat, h <= high(universe), NEW c \in 0 .. n, IsRank(h, c),
         NEW a \in 0 .. n - 1, HighAt(a) < h
  PROVE  skip0(bvb, Passed(bvb, BitOf(a)), h - HighAt(a)) = ZeroOf(h, c)
<1>1. /\ Given /\ n \in Nat \ {0} /\ higher_bits_offset \in Nat /\ BitVec(bvb)
  BY OnesAre
<1>2. PICK u \in Nat : u = high(universe)
  BY <1>1, Offsets
<1>3. PICK g \in Nat : g = HighAt(a) /\ BitOf(a) = higher_bits_offset + (g + a + 1)
  <2>1. HighAt(a) \in Nat /\ Rel(a) = HighAt(a) + a + 1 /\ BitOf(a) = higher_bits_offset + Rel(a)
    BY <1>1, OnesPlaced
  <2> QED
    BY <2>1
<1>4. a < c
  <2> SUFFICES ASSUME ~ a < c PROVE FALSE
    OBVIOUS
  <2>1. a \in c .. n - 1
    BY <1>1
  <2>2. HighAt(a) >= h
    BY <2>1 DEF IsRank
  <2> QED
    BY <1>3, <2>2
<1>5. PICK s \in Nat : s = BitOf(a) /\ s \in Places(bvb) /\ CountTo(Places(bvb), s) = before + a
                       /\ Splits(s, a)
  BY OneSplits
<1>6. before \in Nat
  BY <1>5, OnesCounted
<1>7. h <= u + 1
  BY <1>2
<1>8. PICK dest \in Nat : /\ dest = higher_bits_offset + h + c /\ dest < bvb.size /\ dest \notin Places(bvb)
                        /\ CountTo(Places(bvb), dest) = before + c
  BY <1>2, <1>7, ZeroSplits
<1>9. PICK k \in Nat : k = h - g
  BY <1>3
<1>10. s < dest /\ k = (dest - s) - (CountTo(Places(bvb), dest) - CountTo(Places(bvb), s)) + 1
  <2>1. s = higher_bits_offset + (g + a + 1) /\ g < h /\ a < c /\ a \in Nat /\ c \in Nat
    BY <1>1, <1>3, <1>4, <1>5
  <2> QED
    BY <1>1, <1>5, <1>6, <1>8, <1>9, <2>1
<1>11. skip0(bvb, Passed(bvb, s), k) = unary_iterator(bvb, dest)
  BY <1>1, <1>5, <1>8, <1>10, ZeroFromOne
<1> QED
  BY <1>3, <1>5, <1>8, <1>9, <1>11 DEF ZeroOf

(* From there a scan finds the first value that is not below the bound.    *)
LEMMA ZeroScanned ==
  ASSUME Complete, NEW b \in 0 .. universe - 1, NEW c \in 0 .. n, IsRank(high(b), c),
         NEW he, he = ZeroOf(high(b), c)
  PROVE  /\ he.position - higher_bits_offset - high(b) = c
         /\ \E g \in 0 .. n : /\ StandsAt(scan_geq(he, c, b), g)
                              /\ FirstFrom(c, b, g) /\ \A q \in 0 .. c - 1 : ValueAt(q) < b
<1>1. /\ Given /\ n \in Nat \ {0} /\ higher_bits_offset \in Nat /\ BitVec(bvb) /\ bvb.size = end
      /\ bvb.words \in Seq(Word) /\ end \in Nat
  BY OnesAre
<1>2. b \in Nat /\ universe \in Nat /\ b <= universe
  BY <1>1, Numbers
<1>3. PICK h \in Nat : h = high(b) /\ h <= high(universe)
  BY <1>1, <1>2, Halves
<1>4. PICK u \in Nat : u = high(universe)
  BY <1>1, Offsets
<1>5. h <= u + 1
  BY <1>3, <1>4
<1>6. PICK t \in Nat : t = higher_bits_offset + h + c /\ t < bvb.size /\ Splits(t, c)
  BY <1>3, <1>4, <1>5, ZeroSplits
<1>7. he = unary_iterator(bvb, t)
  BY <1>3, <1>6 DEF ZeroOf
<1>8. he.position = t
  BY <1>7 DEF unary_iterator
<1>9. he.position - higher_bits_offset - high(b) = c
  BY <1>1, <1>3, <1>6, <1>8
<1>10. he \in Cursors
  <2>1. t \div word_width \in Nat
    BY BitPlace
  <2>2. PICK w \in Word : w = WordAt(bvb.words, t \div word_width)
    BY <1>1, <2>1 DEF WordAt, Word
  <2>3. PICK x : x = w \ Mask(t % word_width)
    OBVIOUS
  <2>4. x \in Word
    BY <2>2, <2>3 DEF Word
  <2>5. t \in 0 .. end
    BY <1>1, <1>6
  <2> QED
    BY <1>7, <2>2, <2>3, <2>4, <2>5 DEF unary_iterator, Cursors
<1>11. Begins(he, c)
  BY <1>6, <1>7, <1>10, PlaceResumes DEF Begins
<1>12. PICK g \in c .. n : FirstFrom(c, b, g) /\ StandsAt(scan_geq(he, c, b), g)
  BY <1>2, <1>11, ScanStands
<1>13. ASSUME NEW q \in 0 .. c - 1 PROVE ValueAt(q) < b
  <2>1. q \in 0 .. n - 1 /\ HighAt(q) < h
    BY <1>1, <1>3 DEF IsRank
  <2>2. PICK v \in Nat : v = ValueAt(q)
    BY <1>1, <2>1, Numbers
  <2>3. high(v) \in Nat /\ high(v) < h
    BY <1>1, <2>1, <2>2, Halves DEF HighAt
  <2>4. b <= v => h <= high(v)
    BY <1>1, <1>2, <1>3, Halves
  <2> QED
    BY <1>2, <2>2, <2>3, <2>4
<1>14. g \in 0 .. n
  BY <1>1
<1> QED
  BY <1>9, <1>12, <1>13, <1>14

(* What next_geq is to arrive at.                                          *)
ArrivesGeq(en, b) ==
  \E p \in 0 .. n, g \in 0 .. n :
    StandsAt(en, g) /\ FirstFrom(p, b, g) /\ \A q \in 0 .. p - 1 : ValueAt(q) < b

(* A long search arrives, if the bound is not among the high bits of the   *)
(* value where it begins,                                                  *)
LEMMA SlowNextGeqArrives ==
  ASSUME Complete, NEW a \in 0 .. n, NEW en, StandsAt(en, a), NEW b \in 0 .. universe,
         b > en.value => high(b) - high(en.value) >= 1
  PROVE  ArrivesGeq(slow_next_geq(en, b), b)
<1>1. /\ Given /\ n \in Nat \ {0}
  BY OnesAre
<1>2. universe \in Nat /\ \A j \in 0 .. n - 1 : ValueAt(j) \in Nat /\ ValueAt(j) < universe
  BY <1>1, Numbers
<1>3. CASE b >= universe
  <2>1. slow_next_geq(en, b) = move(en, n)
    BY <1>3 DEF slow_next_geq
  <2>2. PICK m \in 0 .. n : m = n
    BY <1>1
  <2>3. StandsAt(slow_next_geq(en, b), m)
    BY <2>1, <2>2, MoveArrives
  <2>4. \A q \in 0 .. m - 1 : ValueAt(q) < b
    BY <1>2, <1>3, <2>2
  <2>5. FirstFrom(m, b, m)
    BY <1>1, <2>2 DEF FirstFrom
  <2> QED
    BY <2>3, <2>4, <2>5 DEF ArrivesGeq
<1>4. CASE ~ b >= universe
  <2>1. b \in 0 .. universe - 1 /\ b \in Nat
    BY <1>2, <1>4
  <2>2. PICK h \in Nat : h = high(b) /\ h <= high(universe)
    BY <1>1, <1>2, <2>1, Halves
  <2>3. PICK c \in 0 .. n : IsRank(h, c)
    BY <1>1, RankKnown
  <2>4. PICK he : he = ZeroOf(h, c)
    OBVIOUS
  <2>5. slow_next_geq(en, b) = scan_geq(he, he.position - higher_bits_offset - h, b)
    <3>1. CASE b > en.value /\ (h - high(en.value)) \div power[log_sampling0] = 0
      <4>1. a \in 0 .. n - 1 /\ en.value = ValueAt(a) /\ en.he = Passed(bvb, BitOf(a))
        <5>1. en.value = IF a < n THEN ValueAt(a) ELSE universe
          BY StandingKnown
        <5>2. a < n
          BY <1>2, <1>4, <2>1, <3>1, <5>1
        <5> QED
          BY <1>1, <5>1, <5>2, StandingKnown
      <4>2. HighAt(a) < h /\ high(en.value) = HighAt(a)
        <5>1. PICK g \in Nat : g = HighAt(a)
          BY <1>1, <4>1, OnesPlaced
        <5>2. h - g >= 1
          BY <2>2, <3>1, <4>1, <5>1 DEF HighAt
        <5> QED
          BY <4>1, <5>1, <5>2 DEF HighAt
      <4>3. skip0(bvb, en.he, h - high(en.value)) = he
        BY <2>2, <2>3, <2>4, <4>1, <4>2, ZeroFromCursor
      <4> QED
        BY <1>4, <2>2, <3>1, <4>3 DEF slow_next_geq
    <3>2. CASE ~ (b > en.value /\ (h - high(en.value)) \div power[log_sampling0] = 0)
      <4>1. PICK t : t = h \div power[log_sampling0]
        OBVIOUS
      <4>2. skip0(bvb, pointed(pointers0_offset, t), h - t * power[log_sampling0]) = he
        BY <2>2, <2>3, <2>4, <4>1, ZeroFromPointer
      <4> QED
        BY <1>4, <2>2, <3>2, <4>1, <4>2 DEF slow_next_geq
    <3> QED
      BY <3>1, <3>2
  <2>6. /\ he.position - higher_bits_offset - h = c
        /\ \E g \in 0 .. n : /\ StandsAt(scan_geq(he, c, b), g)
                             /\ FirstFrom(c, b, g) /\ \A q \in 0 .. c - 1 : ValueAt(q) < b
    BY <2>1, <2>2, <2>3, <2>4, ZeroScanned
  <2> QED
    BY <2>5, <2>6 DEF ArrivesGeq
<1> QED
  BY <1>3, <1>4

(* and so does next_geq, which makes a short one there.                    *)
LEMMA NextGeqArrives ==
  ASSUME Complete, NEW a \in 0 .. n, NEW en, StandsAt(en, a), NEW b \in 0 .. universe
  PROVE  IF b = en.value THEN next_geq(en, b) = en ELSE ArrivesGeq(next_geq(en, b), b)
<1>1. /\ Given /\ n \in Nat \ {0}
  BY OnesAre
<1>2. /\ universe \in Nat /\ b \in Nat
      /\ \A j \in 0 .. n - 1 : ValueAt(j) \in Nat /\ ValueAt(j) < universe
      /\ \A j, k \in 0 .. n - 1 : j <= k => ValueAt(j) <= ValueAt(k)
  BY <1>1, Numbers
<1>3. /\ en.position = a /\ en.he \in Cursors
      /\ en.value = IF a < n THEN ValueAt(a) ELSE universe
  BY StandingKnown
<1>4. CASE b = en.value
  BY <1>4 DEF next_geq
<1>5. CASE b # en.value /\ b > en.value /\ high(b) - high(en.value) <= linear_scan_threshold
  <2>1. next_geq(en, b) = scan_geq(en.he, a + 1, b)
    BY <1>3, <1>5 DEF next_geq
  <2>2. a < n /\ en.value = ValueAt(a) /\ a \in 0 .. n - 1
    BY <1>1, <1>2, <1>3, <1>5
  <2>3. PICK p \in 0 .. n : p = a + 1
    BY <1>1, <2>2
  <2>4. Begins(en.he, p)
    <3>1. Resumes(bvb, en.he, BitOf(a) + 1) /\ Splits(BitOf(a) + 1, p)
      BY <2>2, <2>3, StandingKnown
    <3> QED
      BY <1>3, <3>1 DEF Begins
  <2>5. PICK g \in p .. n : FirstFrom(p, b, g) /\ StandsAt(scan_geq(en.he, p, b), g)
    BY <1>2, <2>4, ScanStands
  <2>6. ASSUME NEW q \in 0 .. p - 1 PROVE ValueAt(q) < b
    <3>1. q \in 0 .. n - 1 /\ q <= a
      BY <1>1, <2>2, <2>3
    <3>2. ValueAt(q) <= ValueAt(a) /\ ValueAt(q) \in Nat /\ ValueAt(a) \in Nat /\ ValueAt(a) < b
      BY <1>2, <1>5, <2>2, <3>1
    <3> QED
      BY <1>2, <3>2
  <2>7. g \in 0 .. n
    BY <1>1
  <2>8. ArrivesGeq(next_geq(en, b), b)
    BY <2>1, <2>3, <2>5, <2>6, <2>7 DEF ArrivesGeq
  <2> QED
    BY <1>5, <2>8
<1>6. CASE b # en.value /\ ~ (b > en.value /\ high(b) - high(en.value) <= linear_scan_threshold)
  <2>1. next_geq(en, b) = slow_next_geq(en, b)
    BY <1>6 DEF next_geq
  <2>2. b > en.value => high(b) - high(en.value) >= 1
    <3>1. high(b) \in Nat /\ high(en.value) \in Nat
      <4>1. en.value \in Nat
        BY <1>1, <1>2, <1>3
      <4> QED
        BY <1>1, <1>2, <4>1, Halves
    <3>2. linear_scan_threshold \in Nat
      BY CompactEfAssumption
    <3> QED
      BY <1>6, <3>1, <3>2
  <2>3. ArrivesGeq(slow_next_geq(en, b), b)
    BY <2>2, SlowNextGeqArrives
  <2> QED
    BY <1>6, <2>1, <2>3
<1> QED
  BY <1>4, <1>5, <1>6

(* The value before is read from the one before.                           *)
LEMMA PrevValueRead ==
  ASSUME Complete, NEW a \in 0 .. n, NEW en, StandsAt(en, a)
  PROVE  prev_value(en) = IF a = 0 THEN 0 ELSE list[a]
<1>1. /\ Given /\ n \in Nat \ {0} /\ higher_bits_offset \in Nat /\ lower_bits_offset \in Nat
      /\ BitVec(bvb) /\ bvb.size = end /\ end \in Nat /\ lower_bits_offset <= end
      /\ \A x \in Nat : higher_bits_offset <= x /\ x < lower_bits_offset
           => (x \in Places(bvb) <=> \E j \in 0 .. n - 1 : x = BitOf(j))
  BY OnesAre
<1>2. en.position = a
  BY StandingKnown
<1>3. CASE a = 0
  BY <1>2, <1>3 DEF prev_value
<1>4. CASE a # 0
  <2>1. PICK j \in 0 .. n - 1 : j = a - 1 /\ j + 1 = a
    BY <1>1, <1>4
  <2>2. PICK t \in Nat : t = BitOf(j) /\ t \in Places(bvb) /\ Splits(t + 1, a)
    BY <2>1, OneSplits
  <2>3. higher_bits_offset < t /\ t < lower_bits_offset
    BY <1>1, <2>1, <2>2, OnesPlaced
  <2>4. PICK p \in Nat : /\ p = (IF a < n THEN en.he.position - 1 ELSE lower_bits_offset - 1)
                         /\ t <= p /\ p < lower_bits_offset
                         /\ \A k \in a .. n - 1 : p < BitOf(k)
    <3>1. CASE a < n
      <4>1. PICK b \in Nat : b = BitOf(a) /\ en.he.position = b
        BY <3>1, StandingKnown
      <4>2. a \in 0 .. n - 1 /\ j < a
        BY <1>1, <2>1, <3>1
      <4>3. t < b /\ b < lower_bits_offset
        BY <1>1, <2>1, <2>2, <4>1, <4>2, OnesPlaced
      <4>4. ASSUME NEW k \in a .. n - 1 PROVE b - 1 < BitOf(k)
        <5>1. k \in 0 .. n - 1 /\ (k = a \/ a < k)
          BY <1>1
        <5>2. BitOf(k) \in Nat /\ (a < k => b < BitOf(k))
          BY <1>1, <4>1, <4>2, <5>1, OnesPlaced
        <5> QED
          BY <4>1, <5>1, <5>2
      <4>5. PICK q \in Nat : q = b - 1 /\ t <= q /\ q < lower_bits_offset
        BY <1>1, <4>3
      <4> QED
        BY <3>1, <4>1, <4>4, <4>5
    <3>2. CASE ~ a < n
      <4>1. PICK q \in Nat : q = lower_bits_offset - 1 /\ t <= q /\ q < lower_bits_offset
        BY <1>1, <2>3
      <4>2. \A k \in a .. n - 1 : q < BitOf(k)
        BY <1>1, <3>2
      <4> QED
        BY <3>2, <4>1, <4>2
    <3> QED
      BY <3>1, <3>2
  <2>5. predecessor1(bvb, p) = t
    <3>1. p \in 0 .. bvb.size - 1
      BY <1>1, <2>4
    <3>2. ASSUME NEW x \in t + 1 .. p, x \in Places(bvb) PROVE FALSE
      <4>1. x \in Nat /\ higher_bits_offset <= x /\ x < lower_bits_offset
        BY <1>1, <2>3, <2>4
      <4>2. PICK k \in 0 .. n - 1 : x = BitOf(k)
        BY <1>1, <3>2, <4>1
      <4>3. CASE k \in 0 .. a - 1
        <5>1. BitOf(k) < t + 1
          BY <2>2, <4>3 DEF Splits
        <5> QED
          BY <4>1, <4>2, <5>1
      <4>4. CASE k \in a .. n - 1
        BY <2>4, <4>1, <4>2, <4>4
      <4> QED
        BY <1>1, <4>3, <4>4
    <3> QED
      BY <1>1, <2>2, <2>4, <3>1, <3>2, PredecessorFound
  <2>6. prev_value(en) = (t - higher_bits_offset - j - 1) * power[lower_bits] + low(j)
    BY <1>2, <1>4, <2>1, <2>4, <2>5 DEF prev_value
  <2>7. prev_value(en) = ValueAt(j)
    BY <2>1, <2>2, <2>6, ValueRead
  <2> QED
    BY <1>4, <2>1, <2>7 DEF ValueAt
<1> QED
  BY <1>3, <1>4

(* What next_geq arrives at is what is promised.                           *)
LEMMA GeqPromised ==
  ASSUME Complete, NEW a \in 0 .. n, NEW en, StandsAt(en, a), NEW b \in 0 .. universe
  PROVE  Plain(next_geq(en, b)) = Promise!found_geq(list, universe, Plain(en), b)
<1>1. Given /\ universe \in Nat /\ b \in Nat
  BY OnesAre, Numbers
<1>2. CASE b = en.value
  <2>1. next_geq(en, b) = en
    BY <1>2, NextGeqArrives
  <2>2. PICK x : x = Plain(en)
    OBVIOUS
  <2>3. x.value = en.value
    BY <2>2 DEF Plain
  <2>4. Promise!found_geq(list, universe, x, b) = x
    BY <1>2, <2>3 DEF Promise!found_geq
  <2> QED
    BY <2>1, <2>2, <2>4
<1>3. CASE b # en.value
  <2>1. ArrivesGeq(next_geq(en, b), b)
    BY <1>3, NextGeqArrives
  <2>2. PICK p \in 0 .. n, g \in 0 .. n :
          /\ StandsAt(next_geq(en, b), g) /\ FirstFrom(p, b, g)
          /\ \A q \in 0 .. p - 1 : ValueAt(q) < b
    BY <2>1 DEF ArrivesGeq
  <2>3. PICK y : y = next_geq(en, b)
    OBVIOUS
  <2>4. y.position = g /\ y.value = IF g < n THEN ValueAt(g) ELSE universe
    BY <2>2, <2>3, StandingKnown
  <2>5. /\ Promise!FirstGeq(list, b) = g
        /\ Promise!moved(list, universe, g)
             = [position |-> g, value |-> IF g < n THEN ValueAt(g) ELSE universe]
    BY <1>1, <2>2, FirstPromised
  <2>6. PICK x : x = Plain(en)
    OBVIOUS
  <2>7. x.value = en.value
    BY <2>6 DEF Plain
  <2>8. Promise!found_geq(list, universe, x, b) = Promise!moved(list, universe, g)
    BY <1>3, <2>5, <2>7 DEF Promise!found_geq
  <2>9. Plain(y) = Promise!moved(list, universe, g)
    BY <2>4, <2>5 DEF Plain
  <2> QED
    BY <2>3, <2>6, <2>8, <2>9
<1> QED
  BY <1>2, <1>3

(* Nothing of the partition is written over.                               *)
LEMMA CompleteIntact ==
  ASSUME Complete
  PROVE  /\ bvb.size = end /\ Len(bvb.words) = words_for(end)
         /\ Ones \cap 0 .. base_offset - 1 = 0 .. base_offset - 1
         /\ Ones \cap higher_bits_offset .. lower_bits_offset - 1 = {BitOf(k) : k \in 0 .. n - 1}
         /\ \A k \in 0 .. n - 1 : low(k) = list[k + 1] % power[lower_bits]
<1>1. /\ Given /\ n \in Nat \ {0} /\ higher_bits_offset \in Nat /\ lower_bits_offset \in Nat
      /\ BitVec(bvb) /\ bvb.size = end /\ end \in Nat /\ lower_bits_offset <= end
      /\ \A x \in Nat : higher_bits_offset <= x /\ x < lower_bits_offset
           => (x \in Places(bvb) <=> \E j \in 0 .. n - 1 : x = BitOf(j))
      /\ bvb.words \in Seq(Word)
  BY OnesAre
<1>2. Sized(bvb) /\ Ahead(bvb)
  BY DEF Complete, Written
<1>3. Len(bvb.words) = words_for(end)
  BY <1>1, <1>2 DEF Sized, WordsFit
<1>4. Ones = Places(bvb)
  <2>1. ASSUME NEW b \in 0 .. bvb.size - 1 PROVE get_bits(bvb, b, 1) # {} <=> BitAt(bvb.words, b)
    <3>1. PICK p \in Nat : p = b /\ p + 1 <= word_width * Len(bvb.words)
      <4>1. word_width * Len(bvb.words) \in Nat /\ bvb.size <= word_width * Len(bvb.words)
        BY <1>2, SizedKnown DEF BitVec
      <4> QED
        BY <1>1, <4>1
    <3>2. 1 \in 1 .. word_width
      BY WordsAssumption
    <3>3. PICK m : m = {0}
      OBVIOUS
    <3>4. m \in SUBSET (0 .. 1 - 1) /\ m = 0 .. 1 - 1 /\ Mask(1) = m
      BY <3>3 DEF Mask
    <3>5. read_bits(bvb.words, p, 1, m) = {x \in m : BitAt(bvb.words, p + x)}
      BY <1>1, <3>1, <3>2, <3>4, BitsRead
    <3>6. get_bits(bvb, p, 1) = {x \in m : BitAt(bvb.words, p + x)}
      BY <3>4, <3>5 DEF get_bits
    <3>7. p + 0 = p
      OBVIOUS
    <3> QED
      BY <3>1, <3>3, <3>6, <3>7
  <2> QED
    BY <2>1 DEF Ones, Places
<1>5. Ones \cap 0 .. base_offset - 1 = 0 .. base_offset - 1
  <2>1. base_offset \in Nat /\ base_offset <= end
    <3>1. /\ base_offset \in Nat /\ pointers1_offset \in Nat /\ base_offset <= pointers1_offset
          /\ pointers1_offset <= higher_bits_offset /\ higher_bits_offset <= lower_bits_offset
      BY <1>1, OffsetsOrdered
    <3> QED
      BY <1>1, <3>1
  <2>2. ASSUME NEW p \in 0 .. base_offset - 1 PROVE p \in Places(bvb)
    <3>1. p \in 0 .. bvb.size - 1
      BY <1>1, <2>1
    <3> QED
      BY <1>2, <3>1 DEF Ahead, Places
  <2> QED
    BY <1>4, <2>2
<1>6. Ones \cap higher_bits_offset .. lower_bits_offset - 1 = {BitOf(k) : k \in 0 .. n - 1}
  <2>1. ASSUME NEW k \in 0 .. n - 1
        PROVE  BitOf(k) \in Places(bvb) /\ BitOf(k) \in higher_bits_offset .. lower_bits_offset - 1
    <3>1. BitOf(k) \in Nat /\ BitOf(k) \in Places(bvb)
      BY OneSplits
    <3>2. higher_bits_offset < BitOf(k) /\ BitOf(k) < lower_bits_offset
      BY <1>1, OnesPlaced
    <3> QED
      BY <1>1, <3>1, <3>2
  <2>2. ASSUME NEW p \in higher_bits_offset .. lower_bits_offset - 1, p \in Places(bvb)
        PROVE  \E k \in 0 .. n - 1 : p = BitOf(k)
    BY <1>1, <2>2
  <2> QED
    BY <1>4, <2>1, <2>2
<1>7. \A k \in 0 .. n - 1 : low(k) = list[k + 1] % power[lower_bits]
  BY LowRead DEF ValueAt
<1> QED
  BY <1>1, <1>3, <1>5, <1>6, <1>7

(* While values are written, those before i are; the first ones of all     *)
(* that are to be are passed.                                              *)
BeingWritten ==
  /\ i \in 0 .. n /\ Written(bvb, i, Passing(i)) /\ last_high = Passing(i) + i - 1
  /\ e = [position |-> 0, value |-> 0, he |-> nowhere]

(* Then all are, and the enumerator stands somewhere.                      *)
Enumerating == Complete /\ \E p \in 0 .. n : StandsAt(e, p)

(* The inductive invariant.                                                *)
Inv ==
  /\ Given /\ pc \in {"writing", "written"}
  /\ pc = "writing" => BeingWritten
  /\ pc = "written" => Enumerating

(* What is said of the bits depends on the list and its place.             *)
LEMMA SameList ==
  ASSUME list' = list, base_offset' = base_offset
  PROVE  /\ n' = n /\ (Given' <=> Given) /\ universe' = universe /\ end' = end
         /\ (\A v : high(v)' = high(v)) /\ (\A k : Passing(k)' = Passing(k))
         /\ (\A j : ValueAt(j)' = ValueAt(j)) /\ (\A j : BitOf(j)' = BitOf(j))
         /\ \A bv, k, z : Written(bv, k, z)' <=> Written(bv, k, z)
<1>1. n' = n /\ (Given' <=> Given)
  BY DEF n, Given
<1>2. universe' = universe
  BY <1>1 DEF universe
<1>3. lower_bits' = lower_bits
  BY <1>1, <1>2 DEF lower_bits
<1>4. \A v : high(v)' = high(v)
  BY <1>3 DEF high
<1>5. \A j : ValueAt(j)' = ValueAt(j)
  BY DEF ValueAt
<1>6. \A j : HighAt(j)' = HighAt(j)
  BY <1>3 DEF HighAt, high, ValueAt
<1>7. \A j : Rel(j)' = Rel(j)
  BY <1>6 DEF Rel
<1>8. \A k : Passing(k)' = Passing(k)
  BY <1>6 DEF Passing
<1>9. higher_bits_length' = higher_bits_length
  BY <1>1, <1>2, <1>3 DEF higher_bits_length, high
<1>10. pointer_size' = pointer_size
  BY <1>9 DEF pointer_size
<1>11. num_pointers0' = num_pointers0 /\ num_pointers1' = num_pointers1
  BY <1>1, <1>9 DEF num_pointers0, num_pointers1
<1>12. pointers0_offset' = pointers0_offset
  BY DEF pointers0_offset
<1>13. pointers1_offset' = pointers1_offset
  BY <1>10, <1>11, <1>12 DEF pointers1_offset
<1>14. higher_bits_offset' = higher_bits_offset
  BY <1>10, <1>11, <1>13 DEF higher_bits_offset
<1>15. lower_bits_offset' = lower_bits_offset
  BY <1>9, <1>14 DEF lower_bits_offset
<1>16. end' = end
  BY <1>1, <1>3, <1>15 DEF end
<1>17. \A j : BitOf(j)' = BitOf(j)
  BY <1>3, <1>14 DEF BitOf, high
<1>18. \A z, c : IsRank(z, c)' <=> IsRank(z, c)
  BY <1>1, <1>6 DEF IsRank
<1>19. \A bv : Sized(bv)' <=> Sized(bv)
  BY <1>16 DEF Sized
<1>20. \A bv : Ahead(bv)' <=> Ahead(bv)
  BY DEF Ahead
<1>21. \A bv, k : HighBits(bv, k)' <=> HighBits(bv, k)
  BY <1>14, <1>15, <1>17 DEF HighBits
<1>22. \A bv, k : LowParts(bv, k)' <=> LowParts(bv, k)
  BY <1>3, <1>5, <1>15 DEF LowParts
<1>23. \A bv, k : OnePointers(bv, k)' <=> OnePointers(bv, k)
  BY <1>7, <1>10, <1>13 DEF OnePointers
<1>24. \A bv, z : ZeroPointers(bv, z)' <=> ZeroPointers(bv, z)
  BY <1>1, <1>10, <1>12, <1>18 DEF ZeroPointers
<1>25. \A bv, k, z : Written(bv, k, z)' <=> Written(bv, k, z)
  BY <1>19, <1>20, <1>21, <1>22, <1>23, <1>24 DEF Written
<1> QED
  BY <1>1, <1>2, <1>4, <1>5, <1>8, <1>16, <1>17, <1>25

(* And of the enumerator on the vector too.                                *)
LEMMA SameBits ==
  ASSUME list' = list, base_offset' = base_offset, bvb' = bvb
  PROVE  (Complete' <=> Complete) /\ \A en, p : StandsAt(en, p)' <=> StandsAt(en, p)
<1>1. /\ n' = n /\ (Given' <=> Given) /\ universe' = universe /\ end' = end
      /\ (\A v : high(v)' = high(v))
      /\ (\A j : ValueAt(j)' = ValueAt(j)) /\ (\A j : BitOf(j)' = BitOf(j))
      /\ \A bv, k, z : Written(bv, k, z)' <=> Written(bv, k, z)
  BY SameList
<1>2. Complete' <=> Complete
  BY <1>1 DEF Complete
<1>3. \A p : Standing(p)' = Standing(p)
  BY <1>1 DEF Standing
<1>4. \A he : PastEnd(he)' = PastEnd(he)
  BY <1>1 DEF PastEnd
<1>5. Cursors' = Cursors
  BY <1>1 DEF Cursors
<1>6. \A en, p : StandsAt(en, p)' <=> StandsAt(en, p)
  BY <1>1, <1>3, <1>4, <1>5 DEF StandsAt
<1> QED
  BY <1>2, <1>6

(* It holds at first,                                                      *)
LEMMA InitInv == Init => Inv
<1> SUFFICES ASSUME Init PROVE Inv
  OBVIOUS
<1>1. /\ Given /\ pc = "writing" /\ i = 0 /\ last_high = 0
      /\ e = [position |-> 0, value |-> 0, he |-> nowhere]
  BY DEF Init, Given
<1>2. PICK setting : setting = OnesUpTo(base_offset) /\ bvb = zero_extend(setting[base_offset], end - base_offset)
  BY DEF Init, OnesUpTo
<1>3. Written(bvb, 0, Passing(0))
  BY <1>1, <1>2, NothingWritten
<1>4. Passing(0) + 0 - 1 = 0
  BY DEF Passing
<1>5. 0 \in 0 .. n
  BY <1>1, Numbers
<1> QED
  BY <1>1, <1>3, <1>4, <1>5 DEF Inv, BeingWritten

(* What of the bits follows a write of a value is that they are written.   *)
LEMMA WriteValueKeeps ==
  ASSUME Inv, WriteValue
  PROVE  Inv'
<1>1. Given /\ pc = "writing" /\ BeingWritten /\ i < n /\ list' = list /\ base_offset' = base_offset
      /\ pc' = pc /\ e' = e /\ i' = i + 1
  BY DEF Inv, WriteValue
<1>2. n \in Nat /\ i \in 0 .. n - 1 /\ i \in 0 .. n /\ i + 1 \in 0 .. n
  BY <1>1, Numbers DEF BeingWritten
<1>3. PICK k \in 0 .. n - 1 : k = i
  BY <1>2
<1>4. k \in 0 .. n /\ k < n /\ k \in Nat
  BY <1>1, <1>2, <1>3
<1>5. PICK y \in Nat : Passing(k + 1) = y /\ Rel(k) = y + k
  <2>1. PICK j \in 0 .. n : j = k + 1
    BY <1>2, <1>3
  <2>2. Passing(j) \in Nat
    BY <1>1, PassingKnown
  <2>3. Rel(k) = Passing(k + 1) + k
    BY <1>1, <1>4, PassingKnown
  <2> QED
    BY <2>1, <2>2, <2>3
<1>6. PICK z \in Nat : z = Passing(k)
  BY <1>1, <1>4, PassingKnown
<1>7. last_high + 1 = Passing(k) + k
  BY <1>1, <1>3, <1>4, <1>6 DEF BeingWritten
<1>8. BitOf(k) = higher_bits_offset + Rel(k) /\ Rel(k) = HighAt(k) + k + 1
  BY <1>1, OnesPlaced
<1>9. PICK a : a = set_bit(bvb, BitOf(k))
  OBVIOUS
<1>10. PICK b : b = set_bits(a, lower_bits_offset + k * lower_bits,
                             bits_of(ValueAt(k) % power[lower_bits]), lower_bits)
  OBVIOUS
<1>11. PICK c : c = IF sampled(k, log_sampling1)
                    THEN set_pointer(b, pointers1_offset, k \div power[log_sampling1], Rel(k))
                    ELSE b
  OBVIOUS
<1>12. PICK begin : begin = Passing(k) + k
  OBVIOUS
<1>13. PICK new : new = set_ptr0s(c, begin, Rel(k), k)
  OBVIOUS
<1>14. high(list[i + 1]) + i + 1 = Rel(k) /\ list[i + 1] = ValueAt(k)
  BY <1>3, <1>8 DEF HighAt, ValueAt
<1>15. bvb' = new /\ last_high' = Rel(k)
  BY <1>3, <1>7, <1>8, <1>9, <1>10, <1>11, <1>12, <1>13, <1>14 DEF WriteValue
<1>16. Written(new, k + 1, Passing(k + 1))
  BY <1>1, <1>3, <1>9, <1>10, <1>11, <1>12, <1>13, ValueWritten DEF BeingWritten
<1>17. /\ n' = n /\ (Given' <=> Given) /\ (\A x : Passing(x)' = Passing(x))
       /\ \A bv, x, w : Written(bv, x, w)' <=> Written(bv, x, w)
  BY <1>1, SameList
<1>18. Passing(i)' = Passing(i + 1)
  BY <1>1, <1>17
<1>19. Written(bvb, i, Passing(i))'
  BY <1>1, <1>3, <1>15, <1>16, <1>17
<1>20. last_high' = Passing(i)' + i' - 1
  BY <1>1, <1>3, <1>4, <1>5, <1>15, <1>18
<1>21. BeingWritten'
  BY <1>1, <1>2, <1>17, <1>19, <1>20 DEF BeingWritten, nowhere
<1> QED
  BY <1>1, <1>17, <1>21 DEF Inv

(* So do those that end the writing, and leave the enumerator past the end.*)
LEMMA EndWriteKeeps ==
  ASSUME Inv, EndWrite
  PROVE  Inv'
<1>1. /\ Given /\ pc = "writing" /\ BeingWritten /\ i = n /\ list' = list /\ base_offset' = base_offset
      /\ pc' = "written" /\ e' = [position |-> n, value |-> universe, he |-> nowhere]
      /\ bvb' = set_ptr0s(bvb, last_high + 1, higher_bits_length, n)
  BY DEF Inv, EndWrite
<1>2. n \in Nat /\ n \in 0 .. n /\ end \in Nat
  BY <1>1, Numbers, Offsets
<1>3. PICK z \in Nat : z = Passing(n)
  BY <1>1, <1>2, PassingKnown
<1>4. PICK begin : begin = Passing(n) + n /\ begin = last_high + 1
  BY <1>1, <1>2, <1>3 DEF BeingWritten
<1>5. Written(bvb', n, high(universe) + 2)
  BY <1>1, <1>4, LastZerosPassed DEF BeingWritten
<1>6. /\ n' = n /\ (Given' <=> Given) /\ universe' = universe /\ end' = end
      /\ (\A v : high(v)' = high(v))
      /\ \A bv, k, w : Written(bv, k, w)' <=> Written(bv, k, w)
  BY <1>1, SameList
<1>7. Complete'
  BY <1>1, <1>5, <1>6 DEF Complete
<1>8. nowhere \in Cursors'
  BY <1>2, <1>6 DEF Cursors, nowhere, Word
<1>9. StandsAt(e, n)'
  <2>1. ~ n < n
    BY <1>2
  <2>2. e' = PastEnd(nowhere)'
    BY <1>1, <1>6 DEF PastEnd, At, nowhere
  <2> QED
    BY <1>6, <1>8, <2>1, <2>2 DEF StandsAt, nowhere
<1>10. Enumerating'
  BY <1>2, <1>6, <1>7, <1>9 DEF Enumerating
<1> QED
  BY <1>1, <1>6, <1>10 DEF Inv

(* A call leaves the enumerator standing somewhere.                        *)
LEMMA EnumerateKeeps ==
  ASSUME Inv, NEW en, Enumerate(en), pc = "written" => \E p \in 0 .. n : StandsAt(en, p)
  PROVE  Inv'
<1>1. /\ Given /\ pc = "written" /\ Complete /\ e' = en /\ list' = list /\ base_offset' = base_offset
      /\ pc' = pc /\ bvb' = bvb
  BY DEF Inv, Enumerate, Enumerating
<1>2. n' = n /\ (Given' <=> Given)
  BY <1>1, SameList
<1>3. (Complete' <=> Complete) /\ \A x, p : StandsAt(x, p)' <=> StandsAt(x, p)
  BY <1>1, SameBits
<1>4. PICK p \in 0 .. n : StandsAt(en, p)
  BY <1>1
<1>5. StandsAt(e, p)'
  BY <1>1, <1>3, <1>4
<1>6. Enumerating'
  BY <1>1, <1>2, <1>3, <1>5 DEF Enumerating
<1> QED
  BY <1>1, <1>2, <1>6 DEF Inv

(* and every step keeps it.                                                *)
LEMMA NextInv == Inv /\ [Next]_vars => Inv'
<1> SUFFICES ASSUME Inv, [Next]_vars PROVE Inv'
  OBVIOUS
<1>1. CASE WriteValue
  BY <1>1, WriteValueKeeps
<1>2. CASE EndWrite
  BY <1>2, EndWriteKeeps
<1>3. CASE Move
  <2>1. PICK p \in 0 .. n : Enumerate(move(e, p))
    BY <1>3 DEF Move
  <2>2. pc = "written" => \E q \in 0 .. n : StandsAt(move(e, p), q)
    BY MoveArrives DEF Inv, Enumerating
  <2> QED
    BY <2>1, <2>2, EnumerateKeeps
<1>4. CASE Advance
  <2>1. e.position < n /\ Enumerate(next(e))
    BY <1>4 DEF Advance
  <2>2. ASSUME pc = "written" PROVE \E q \in 0 .. n : StandsAt(next(e), q)
    <3>1. PICK a \in 0 .. n : Complete /\ StandsAt(e, a)
      BY <2>2 DEF Inv, Enumerating
    <3>2. n \in Nat
      BY <3>1, OnesAre
    <3>3. e.position = a
      BY <3>1, StandingKnown
    <3>4. a \in 0 .. n - 1
      BY <2>1, <3>2, <3>3
    <3> QED
      BY <3>1, <3>4, NextArrives
  <2> QED
    BY <2>1, <2>2, EnumerateKeeps
<1>5. CASE NextGeq
  <2>1. PICK b \in 0 .. universe : Enumerate(next_geq(e, b))
    BY <1>5 DEF NextGeq
  <2>2. ASSUME pc = "written" PROVE \E q \in 0 .. n : StandsAt(next_geq(e, b), q)
    <3>1. PICK a \in 0 .. n : Complete /\ StandsAt(e, a)
      BY <2>2 DEF Inv, Enumerating
    <3>2. IF b = e.value THEN next_geq(e, b) = e ELSE ArrivesGeq(next_geq(e, b), b)
      BY <3>1, NextGeqArrives
    <3> QED
      BY <3>1, <3>2 DEF ArrivesGeq
  <2> QED
    BY <2>1, <2>2, EnumerateKeeps
<1>6. CASE UNCHANGED vars
  <2>1. /\ list' = list /\ base_offset' = base_offset /\ bvb' = bvb /\ pc' = pc /\ i' = i
        /\ last_high' = last_high /\ e' = e
    BY <1>6 DEF vars
  <2>2. /\ n' = n /\ (Given' <=> Given) /\ (\A k : Passing(k)' = Passing(k))
        /\ \A bv, k, w : Written(bv, k, w)' <=> Written(bv, k, w)
    BY <2>1, SameList
  <2>3. (Complete' <=> Complete) /\ \A x, p : StandsAt(x, p)' <=> StandsAt(x, p)
    BY <2>1, SameBits
  <2>4. BeingWritten' <=> BeingWritten
    BY <2>1, <2>2 DEF BeingWritten, nowhere
  <2>5. Enumerating' <=> Enumerating
    BY <2>1, <2>2, <2>3 DEF Enumerating
  <2> QED
    BY <2>1, <2>2, <2>4, <2>5 DEF Inv
<1> QED
  BY <1>1, <1>2, <1>3, <1>4, <1>5, <1>6 DEF Next

(* What is written and where the enumerator stands, in every state.        *)
THEOREM Invariant == Spec => []Inv
<1> QED
  BY InitInv, NextInv, PTL DEF Spec

(* Whatever is called on it, an enumerator stays at a position of its list *)
(* or past its end, its cursor among the bits of the partition.            *)
THEOREM TypesHold == Spec => []TypeOK
<1>1. Inv => TypeOK
  <2> SUFFICES ASSUME Inv PROVE TypeOK
    OBVIOUS
  <2>1. n \in Nat /\ universe \in Nat /\ Given /\ end \in Nat
        /\ \A j \in 0 .. n - 1 : ValueAt(j) \in Nat /\ ValueAt(j) < universe
    BY Numbers, Offsets DEF Inv
  <2>2. Sized(bvb)
    BY DEF Inv, BeingWritten, Enumerating, Complete, Written
  <2>3. bvb.size \in Nat /\ bvb.words \in Seq(Word)
    BY <2>2, SizedKnown DEF BitVec
  <2>4. /\ e.position \in 0 .. n /\ e.value \in 0 .. universe
        /\ e.he.position \in 0 .. end /\ e.he.buf \in Word
    <3>1. CASE pc = "writing"
      <4>1. e = [position |-> 0, value |-> 0, he |-> [position |-> 0, buf |-> {}]]
        BY <3>1 DEF Inv, BeingWritten, nowhere
      <4> QED
        BY <2>1, <4>1 DEF Word
    <3>2. CASE pc = "written"
      <4>1. PICK a \in 0 .. n : Complete /\ StandsAt(e, a)
        BY <3>2 DEF Inv, Enumerating
      <4>2. e.position = a /\ e.he \in Cursors /\ e.value = IF a < n THEN ValueAt(a) ELSE universe
        BY <4>1, StandingKnown
      <4>3. e.value \in 0 .. universe
        <5>1. a < n => a \in 0 .. n - 1
          BY <2>1
        <5> QED
          BY <2>1, <4>2, <5>1
      <4> QED
        BY <4>2, <4>3 DEF Cursors
    <3> QED
      BY <3>1, <3>2 DEF Inv
  <2> QED
    BY <2>3, <2>4 DEF TypeOK, Inv
<1> QED
  BY <1>1, Invariant, PTL

(* offsets reserves enough: write sets no bit of what comes before the     *)
(* partition, and no field over another, for every list and parameters.    *)
THEOREM FieldsHold == Spec => []FieldsIntact
<1>1. Inv => FieldsIntact
  BY CompleteIntact DEF Inv, Enumerating, FieldsIntact
<1> QED
  BY <1>1, Invariant, PTL

(* After move, next and next_geq in any order the value is that of the     *)
(* position, and the cursor has just consumed its one.                     *)
THEOREM CursorsHold == Spec => []CursorAtPosition
<1>1. Inv => CursorAtPosition
  <2> SUFFICES ASSUME Inv, pc = "written" PROVE CursorAtPosition
    BY DEF CursorAtPosition
  <2>1. PICK a \in 0 .. n : Complete /\ StandsAt(e, a)
    BY DEF Inv, Enumerating
  <2>2. /\ e.position = a /\ e.value = IF a < n THEN ValueAt(a) ELSE universe
        /\ a < n => /\ e.he = Passed(bvb, BitOf(a)) /\ e.he.position = BitOf(a)
    BY <2>1, StandingKnown
  <2>3. Plain(e) = Promise!moved(list, universe, e.position)
    BY <2>2 DEF Plain, Promise!moved, Promise!enumerator, n, ValueAt
  <2>4. a < n => e.he.buf = WordAt(bvb.words, e.he.position \div word_width)
                              \ Mask((e.he.position % word_width) + 1)
    <3> SUFFICES ASSUME a < n
                 PROVE  e.he.buf = WordAt(bvb.words, e.he.position \div word_width)
                                     \ Mask((e.he.position % word_width) + 1)
      OBVIOUS
    <3>1. PICK p : p = BitOf(a)
      OBVIOUS
    <3>2. e.he.position = p
      BY <2>2, <3>1
    <3>3. e.he = Passed(bvb, p)
      BY <2>2, <3>1
    <3> QED
      BY <3>2, <3>3 DEF Passed
  <2> QED
    BY <2>2, <2>3, <2>4 DEF CursorAtPosition
<1> QED
  BY <1>1, Invariant, PTL

(* next_geq goes to the first value that is not below the bound, from      *)
(* wherever earlier calls have left the enumerator: a short scan, zeros    *)
(* skipped from the cursor and zeros skipped from a pointer agree.         *)
THEOREM NextGeqHolds == Spec => []NextGeqAsPromised
<1>1. Inv => NextGeqAsPromised
  BY GeqPromised DEF Inv, Enumerating, NextGeqAsPromised
<1> QED
  BY <1>1, Invariant, PTL

(* prev_value finds the one before that of the position, also past the     *)
(* end, where the cursor is wherever calls have left it.                   *)
THEOREM PrevValueHolds == Spec => []PrevValueKnown
<1>1. Inv => PrevValueKnown
  <2> SUFFICES ASSUME Inv, pc = "written" PROVE PrevValueKnown
    BY DEF PrevValueKnown
  <2>1. PICK a \in 0 .. n : Complete /\ StandsAt(e, a)
    BY DEF Inv, Enumerating
  <2>2. e.position = a
    BY <2>1, StandingKnown
  <2> QED
    BY <2>1, <2>2, PrevValueRead DEF PrevValueKnown
<1> QED
  BY <1>1, Invariant, PTL
=============================================================================
