------------------------- MODULE EfSequence_proofs -------------------------
(***************************************************************************)
(* Proofs about ef_sequence and what it is made of, for words of any width *)
(* and values, ranges and blocks of any size: a compact_vector gives back  *)
(* what its builder was given; a darray finds every one of a bit vector;   *)
(* the sequence holds the values however far it has been built, access     *)
(* gives them, and so do the iterators, wherever a client takes them. Then *)
(* about scan_binary_search, with which its find looks for an id in them.  *)
(***************************************************************************)
EXTENDS EfSequence, ScanBinarySearch, Basics_proofs, SequenceTheorems
-----------------------------------------------------------------------------
(* An enumerator that has been read and moved is that of the next value.   *)
LEMMA EnumeratorSteps ==
  ASSUME NEW cv, Vector(cv), NEW j \in Nat
  PROVE  enumerator_next(enumerator_read(cv, enumerator(cv, j))) = enumerator(cv, j + 1)
<1>0. cv.width \in Nat
  BY WordsAssumption DEF Vector
<1>1. j * cv.width \in Nat /\ (j + 1) * cv.width = j * cv.width + cv.width
  BY <1>0
<1>2. advanced(cursor_at(j * cv.width), cv.width) = cursor_at((j + 1) * cv.width)
  BY <1>0, <1>1, CursorAdvances
<1>3. enumerator(cv, j) = [i |-> j, cur |-> cursor_at(j * cv.width)]
  BY DEF enumerator
<1>4. enumerator_read(cv, enumerator(cv, j)) = [i |-> j, cur |-> cursor_at((j + 1) * cv.width)]
  BY <1>2, <1>3 DEF enumerator_read
<1>5. enumerator_next(enumerator_read(cv, enumerator(cv, j)))
        = [i |-> j + 1, cur |-> cursor_at((j + 1) * cv.width)]
  BY <1>4 DEF enumerator_next
<1> QED
  BY <1>5 DEF enumerator

(* The enumerators that reading and ++ lead to, from that of i on.         *)
Enumerates(cv, i, m, e) ==
  e = [k \in 0 .. m |-> IF k = 0 THEN enumerator(cv, i)
                        ELSE enumerator_next(enumerator_read(cv, e[k - 1]))]

(* They are those of the positions that follow.                            *)
LEMMA EnumeratorFollows ==
  ASSUME NEW cv, Vector(cv), NEW i \in Nat, NEW m \in Nat
  PROVE  /\ \E e : Enumerates(cv, i, m, e)
         /\ \A e : Enumerates(cv, i, m, e) => \A k \in 0 .. m : e[k] = enumerator(cv, i + k)
<1>1. ASSUME NEW j \in Nat
      PROVE  enumerator_next(enumerator_read(cv, enumerator(cv, j))) = enumerator(cv, j + 1)
  BY EnumeratorSteps
<1>2. Enumerates(cv, i, m, [k \in 0 .. m |-> enumerator(cv, i + k)])
  <2> DEFINE f == [k \in 0 .. m |-> enumerator(cv, i + k)]
  <2>1. ASSUME NEW k \in 0 .. m
        PROVE  f[k] = IF k = 0 THEN enumerator(cv, i)
                      ELSE enumerator_next(enumerator_read(cv, f[k - 1]))
    <3>1. CASE k = 0
      <4>1. i + k = i
        BY <3>1
      <4> QED
        BY <3>1, <4>1
    <3>2. CASE k # 0
      <4>1. k - 1 \in 0 .. m /\ i + (k - 1) \in Nat /\ (i + (k - 1)) + 1 = i + k
        BY <3>2
      <4>2. f[k - 1] = enumerator(cv, i + (k - 1)) /\ f[k] = enumerator(cv, i + k)
        BY <4>1
      <4> QED
        BY <1>1, <3>2, <4>1, <4>2
    <3> QED
      BY <3>1, <3>2
  <2> QED
    BY <2>1 DEF Enumerates
<1>3. ASSUME NEW e, Enumerates(cv, i, m, e), NEW k \in 0 .. m
      PROVE  e[k] = enumerator(cv, i + k)
  <2> DEFINE P == {j \in Nat : e[j] = enumerator(cv, i + j)}
  <2>1. \A j \in 0 .. m : e[j] = IF j = 0 THEN enumerator(cv, i)
                                  ELSE enumerator_next(enumerator_read(cv, e[j - 1]))
    BY <1>3 DEF Enumerates
  <2>2. 0 \in P
    BY <2>1
  <2>3. ASSUME NEW j \in 0 .. m - 1, j \in P PROVE j + 1 \in P
    <3>1. j + 1 \in 0 .. m /\ j + 1 # 0 /\ (j + 1) - 1 = j /\ i + j \in Nat
          /\ (i + j) + 1 = i + (j + 1) /\ j + 1 \in Nat
      OBVIOUS
    <3>2. e[j] = enumerator(cv, i + j)
      BY <2>3
    <3>3. e[j + 1] = enumerator_next(enumerator_read(cv, e[j]))
      BY <2>1, <3>1
    <3>4. e[j + 1] = enumerator(cv, (i + j) + 1)
      BY <1>1, <3>1, <3>2, <3>3
    <3> QED
      BY <3>1, <3>4
  <2> HIDE DEF P
  <2>4. k \in P
    BY <2>2, <2>3, InductionUpTo
  <2> QED
    BY <2>4 DEF P
<1> QED
  BY <1>2, <1>3

(* A value that lies at a position is read there by an enumerator.         *)
LEMMA EnumeratorReads ==
  ASSUME NEW cv, Vector(cv), NEW i \in 0 .. cv.size - 1, NEW v, VectorFits(cv, v), VectorHolds(cv, i, v)
  PROVE  enumerator_value(cv, enumerator(cv, i)) = v
<1>1. i * cv.width \in Nat
  BY VectorSlots
<1>2. cursor_pos(cursor_at(i * cv.width)) = i * cv.width
  BY <1>1, CursorAdvances
<1>3. enumerator_value(cv, enumerator(cv, i)) = get(cv, i)
  BY <1>2 DEF enumerator_value, enumerator, get
<1> QED
  BY <1>3, VectorRead
-----------------------------------------------------------------------------
(* The builder while it is filled, and after: the indexes that have been   *)
(* given a value hold it, push_back's cursor is after them, and the back   *)
(* is the last value once that is there.                                   *)
Filling ==
  /\ input \in Inputs
  /\ Vector(from)
  /\ from.size = n /\ from.mask = Mask(input.width)
  /\ filled \subseteq 0 .. n - 1
  /\ \A i \in filled : VectorHolds(from, i, input.values[i + 1])
  /\ n - 1 \in filled => from.back = input.values[n]
  /\ pc = "filling" /\ input.by = "push_back" =>
       \E c \in 0 .. n : filled = 0 .. c - 1 /\ from.cur = cursor_at(c * from.width)
  /\ pc # "filling" => filled = 0 .. n - 1

(* What the assumption says of the values.                                 *)
LEMMA ValuesFit ==
  ASSUME NEW in \in Inputs, NEW cv, cv.mask = Mask(in.width)
  PROVE  /\ in.width \in 0 .. word_width /\ Len(in.values) \in Nat \ {0}
         /\ \A k \in 1 .. Len(in.values) : VectorFits(cv, in.values[k])
<1>0. word_width \in Nat
  BY WordsAssumption
<1>1. /\ in.width \in 0 .. word_width /\ in.values \in Seq(Nat) /\ in.values # <<>>
      /\ \A k \in DOMAIN in.values : in.values[k] < power[in.width]
  BY EfAssumption
<1>2. ASSUME NEW k \in 1 .. Len(in.values) PROVE VectorFits(cv, in.values[k])
  <2>1. in.values[k] \in Nat /\ in.values[k] < power[in.width]
    BY <1>1
  <2>2. /\ power[in.width] <= power[word_width]
        /\ power[in.width] \in Nat /\ power[word_width] \in Nat
    <3>1. PICK w \in Nat : w = in.width /\ w <= word_width
      BY <1>0, <1>1
    <3> QED
      BY <1>0, <3>1, Powers, PowersOrdered
  <2>3. bits_of(in.values[k]) \subseteq Mask(in.width)
    BY <1>1, <2>1, BitsWithin
  <2>4. in.values[k] < power[word_width]
    BY <2>1, <2>2
  <2> QED
    BY <2>1, <2>3, <2>4 DEF VectorFits
<1> QED
  BY <1>1, <1>2

(* An empty builder is one that is being filled.                           *)
LEMMA InitFilling == Init => Filling
<1> SUFFICES ASSUME Init PROVE Filling
  OBVIOUS
<1>1. input \in Inputs /\ pc = "filling" /\ from = resized(n, input.width) /\ filled = {}
  BY DEF Init
<1>2. input.width \in 0 .. word_width /\ n \in Nat
  <2>1. \A in \in Inputs : in.width \in 0 .. word_width /\ in.values \in Seq(Nat)
    BY EfAssumption
  <2> QED
    BY <1>1, <2>1 DEF n
<1>3. Vector(from) /\ from.size = n /\ from.mask = Mask(input.width) /\ from.cur = cursor_at(0)
  BY <1>1, <1>2, VectorResized
<1>4. \E c \in 0 .. n : filled = 0 .. c - 1 /\ from.cur = cursor_at(c * from.width)
  <2>1. from.width \in Nat
    BY <1>3, WordsAssumption DEF Vector
  <2>2. 0 \in 0 .. n /\ filled = 0 .. 0 - 1 /\ 0 * from.width = 0
    BY <1>1, <1>2, <2>1
  <2> QED
    BY <1>3, <2>2
<1> QED
  BY <1>1, <1>3, <1>4 DEF Filling

(* A value is written at an index, by push_back or set.                    *)
LEMMA WriteFilling ==
  ASSUME Filling, pc = "filling", NEW i \in 0 .. n - 1, pc' = pc, input' = input,
         filled' = filled \cup {i},
         NEW back \in Nat, NEW cur \in [block : Nat, shift : 0 .. word_width - 1],
         from' = [from EXCEPT !.back = back, !.cur = cur,
                    !.bits = write_bits(@, i * from.width, bits_of(input.values[i + 1]),
                                        from.width, from.mask)]
  PROVE  /\ Vector(from') /\ from'.size = n' /\ from'.mask = Mask(input'.width)
         /\ n' = n /\ from'.width = from.width /\ from'.cur = cur /\ from'.back = back
         /\ filled' \subseteq 0 .. n' - 1
         /\ \A j \in filled' : VectorHolds(from', j, input'.values[j + 1])
<1> DEFINE v == input.values[i + 1]
           new == write_bits(from.bits, i * from.width, bits_of(v), from.width, from.mask)
<1>1. /\ input \in Inputs /\ Vector(from) /\ from.size = n /\ from.mask = Mask(input.width)
      /\ filled \subseteq 0 .. n - 1 /\ \A j \in filled : VectorHolds(from, j, input.values[j + 1])
  BY DEF Filling
<1>2. n \in Nat /\ VectorFits(from, v)
  <2>1. Len(input.values) \in Nat /\ \A k \in 1 .. Len(input.values) : VectorFits(from, input.values[k])
    BY <1>1, ValuesFit
  <2>2. i + 1 \in 1 .. Len(input.values)
    BY <2>1 DEF n
  <2> QED
    BY <2>1, <2>2 DEF n
<1>3. n' = n
  BY DEF n
<1>4. /\ new \in Seq(Word) /\ Len(new) = Len(from.bits)
      /\ \A j \in 0 .. from.size - 1, x \in from.mask :
           BitAt(new, j * from.width + x) <=>
             IF j = i THEN x \in bits_of(v) ELSE BitAt(from.bits, j * from.width + x)
  <2> HIDE DEF v
  <2> QED
    BY <1>1, <1>2, VectorWritten
<1>5. from' = [from EXCEPT !.back = back, !.cur = cur, !.bits = new]
  OBVIOUS
<1> HIDE DEF new
<1>6. from \in [size : Nat, width : 1 .. word_width, mask : SUBSET Bits, back : Nat,
                cur : [block : Nat, shift : 0 .. word_width - 1], bits : Seq(Word)]
  BY <1>1 DEF Vector
<1>7. /\ from'.size = from.size /\ from'.width = from.width /\ from'.mask = from.mask
      /\ from'.cur = cur /\ from'.back = back /\ from'.bits = new
      /\ from' \in [size : Nat, width : 1 .. word_width, mask : SUBSET Bits, back : Nat,
                    cur : [block : Nat, shift : 0 .. word_width - 1], bits : Seq(Word)]
  BY <1>4, <1>5, <1>6
<1>8. Vector(from')
  <2>1. /\ from.mask = 0 .. from.width - 1 \/ (from.mask = {} /\ from.width = 1)
        /\ from.size * from.width <= word_width * Len(from.bits)
    BY <1>1 DEF Vector
  <2> QED
    BY <1>4, <1>7, <2>1 DEF Vector
<1>9. ASSUME NEW j \in filled' PROVE VectorHolds(from', j, input'.values[j + 1])
  <2>1. j \in 0 .. from.size - 1 /\ (j # i => j \in filled)
    BY <1>1
  <2>2. \A x \in from.mask : BitAt(new, j * from.width + x) <=> x \in bits_of(input.values[j + 1])
    BY <1>1, <1>4, <2>1 DEF VectorHolds
  <2> QED
    BY <1>7, <2>2 DEF VectorHolds
<1> QED
  BY <1>1, <1>3, <1>7, <1>8, <1>9

(* Every step keeps it.                                                    *)
LEMMA StepFilling == Filling /\ [Next]_vars => Filling'
<1> SUFFICES ASSUME Filling, [Next]_vars PROVE Filling'
  OBVIOUS
<1>1. /\ input \in Inputs /\ Vector(from) /\ from.size = n /\ from.mask = Mask(input.width)
      /\ filled \subseteq 0 .. n - 1 /\ \A i \in filled : VectorHolds(from, i, input.values[i + 1])
      /\ n - 1 \in filled => from.back = input.values[n]
      /\ pc = "filling" /\ input.by = "push_back" =>
           \E c \in 0 .. n : filled = 0 .. c - 1 /\ from.cur = cursor_at(c * from.width)
      /\ pc # "filling" => filled = 0 .. n - 1
  BY DEF Filling
<1>2. /\ n \in Nat /\ \A i \in 0 .. n - 1 : input.values[i + 1] \in Nat
      /\ from.width \in Nat
  <2>1. /\ Len(input.values) \in Nat
        /\ \A k \in 1 .. Len(input.values) : VectorFits(from, input.values[k])
    BY <1>1, ValuesFit
  <2>2. from.width \in Nat
    BY <1>1, WordsAssumption DEF Vector
  <2> QED
    BY <2>1, <2>2 DEF VectorFits, n
<1>3. CASE PushBack
  <2>1. /\ pc = "filling" /\ input.by = "push_back" /\ Cardinality(filled) < n
        /\ from' = push_back(from, input.values[Cardinality(filled) + 1])
        /\ filled' = filled \cup {Cardinality(filled)} /\ pc' = pc /\ input' = input
    BY <1>3 DEF PushBack
  <2>2. PICK c \in 0 .. n : filled = 0 .. c - 1 /\ from.cur = cursor_at(c * from.width)
    BY <1>1, <2>1
  <2>3. Cardinality(filled) = c
    BY <2>2, FS_Interval
  <2>4. c \in 0 .. n - 1 /\ filled' = filled \cup {c}
    BY <1>2, <2>1, <2>3
  <2>5. /\ c * from.width \in Nat /\ (c + 1) * from.width = c * from.width + from.width
        /\ cursor_pos(from.cur) = c * from.width
        /\ advanced(from.cur, from.width) = cursor_at((c + 1) * from.width)
        /\ cursor_at((c + 1) * from.width) \in [block : Nat, shift : 0 .. word_width - 1]
    <3>1. c * from.width \in Nat /\ (c + 1) * from.width = c * from.width + from.width
      BY <1>2
    <3>2. (c + 1) * from.width \in Nat
      BY <1>2, <3>1
    <3> QED
      BY <1>2, <2>2, <3>1, <3>2, CursorAdvances
  <2>6. from' = [from EXCEPT !.back = input.values[c + 1], !.cur = cursor_at((c + 1) * from.width),
                   !.bits = write_bits(@, c * from.width, bits_of(input.values[c + 1]),
                                       from.width, from.mask)]
    BY <2>1, <2>3, <2>5 DEF push_back
  <2>7. input.values[c + 1] \in Nat
    BY <1>2, <2>4
  <2>8. /\ Vector(from') /\ from'.size = n' /\ from'.mask = Mask(input'.width)
        /\ n' = n /\ from'.width = from.width /\ from'.cur = cursor_at((c + 1) * from.width)
        /\ from'.back = input.values[c + 1]
        /\ filled' \subseteq 0 .. n' - 1
        /\ \A j \in filled' : VectorHolds(from', j, input'.values[j + 1])
    <3>1. PICK back \in Nat : back = input.values[c + 1]
      BY <2>7
    <3>2. PICK cur \in [block : Nat, shift : 0 .. word_width - 1] :
            cur = cursor_at((c + 1) * from.width)
      BY <2>5
    <3>3. from' = [from EXCEPT !.back = back, !.cur = cur,
                     !.bits = write_bits(@, c * from.width, bits_of(input.values[c + 1]),
                                         from.width, from.mask)]
      BY <2>6, <3>1, <3>2
    <3>4. /\ Vector(from') /\ from'.size = n' /\ from'.mask = Mask(input'.width)
          /\ n' = n /\ from'.width = from.width /\ from'.cur = cur /\ from'.back = back
          /\ filled' \subseteq 0 .. n' - 1
          /\ \A j \in filled' : VectorHolds(from', j, input'.values[j + 1])
      BY <2>1, <2>4, <3>3, WriteFilling
    <3> QED
      BY <3>1, <3>2, <3>4
  <2>9. c + 1 \in 0 .. n' /\ filled' = 0 .. (c + 1) - 1
    BY <1>2, <2>2, <2>4, <2>8
  <2>10. n' - 1 \in filled' => from'.back = input'.values[n']
    <3>1. n - 1 \in filled' => c + 1 = n
      BY <1>2, <2>4, <2>8, <2>9
    <3> QED
      BY <2>1, <2>8, <3>1
  <2> QED
    BY <1>1, <2>1, <2>8, <2>9, <2>10 DEF Filling
<1>4. ASSUME NEW i \in 0 .. n - 1, Set(i) PROVE Filling'
  <2>1. /\ pc = "filling" /\ input.by = "set"
        /\ from' = set(from, i, input.values[i + 1])
        /\ filled' = filled \cup {i} /\ pc' = pc /\ input' = input
    BY <1>4 DEF Set
  <2>2. from \in [size : Nat, width : 1 .. word_width, mask : SUBSET Bits, back : Nat,
                  cur : [block : Nat, shift : 0 .. word_width - 1], bits : Seq(Word)]
    BY <1>1 DEF Vector
  <2>3. PICK back \in Nat :
          back = IF i = from.size - 1 THEN input.values[i + 1] ELSE from.back
    BY <1>2, <2>2
  <2>4. from' = [from EXCEPT !.back = back, !.cur = from.cur,
                   !.bits = write_bits(@, i * from.width, bits_of(input.values[i + 1]),
                                       from.width, from.mask)]
    BY <2>1, <2>2, <2>3 DEF set
  <2>5. from.cur \in [block : Nat, shift : 0 .. word_width - 1]
    BY <2>2
  <2>6. /\ Vector(from') /\ from'.size = n' /\ from'.mask = Mask(input'.width)
        /\ n' = n /\ from'.back = back
        /\ filled' \subseteq 0 .. n' - 1
        /\ \A j \in filled' : VectorHolds(from', j, input'.values[j + 1])
    BY <2>1, <2>4, <2>5, WriteFilling
  <2>7. n' - 1 \in filled' => from'.back = input'.values[n']
    <3>1. CASE i = n - 1
      <4>1. back = input.values[n]
        BY <1>1, <1>2, <2>3, <3>1
      <4> QED
        BY <2>1, <2>6, <4>1
    <3>2. CASE i # n - 1
      <4>1. back = from.back
        BY <1>1, <2>3, <3>2
      <4> QED
        BY <1>1, <2>1, <2>6, <3>2, <4>1
    <3> QED
      BY <3>1, <3>2
  <2> QED
    BY <1>1, <2>1, <2>6, <2>7 DEF Filling
<1>5. CASE StartPointers \/ StartNodes
  <2>1. /\ pc = "filling" /\ Cardinality(filled) = n
        /\ from' = from /\ filled' = filled /\ input' = input /\ pc' # "filling"
    BY <1>5 DEF StartPointers, StartNodes, Encoding
  <2>2. filled = 0 .. n - 1
    <3>1. IsFiniteSet(0 .. n - 1) /\ Cardinality(0 .. n - 1) = n
      <4>1. PICK m \in Nat : m = n
        BY <1>2
      <4>2. IsFiniteSet(0 .. m - 1) /\ Cardinality(0 .. m - 1) = m
        BY FS_Interval
      <4> QED
        BY <4>1, <4>2
    <3> QED
      BY <1>1, <2>1, <3>1, FS_Subset
  <2> QED
    BY <1>1, <2>1, <2>2 DEF Filling, n, VectorHolds
<1>6. CASE \/ Raise \/ EndRaise \/ Encode \/ EndEncode \/ StepNodes \/ StepPointers \/ Stop
           \/ (\E p \in Ranges : WalkNodes(p)) \/ (\E place \in 0 .. n - 1 : WalkPointers(place))
           \/ UNCHANGED vars
  <2>1. /\ from' = from /\ filled' = filled /\ input' = input
        /\ (pc # "filling" /\ pc' # "filling") \/ pc' = pc
    <3>1. CASE Raise \/ EndRaise
      BY <3>1 DEF Raise, EndRaise, Encoding
    <3>2. CASE Encode \/ EndEncode
      BY <3>2 DEF Encode, EndEncode
    <3>3. CASE StepNodes \/ StepPointers \/ Stop
      BY <3>3 DEF StepNodes, StepPointers, Stop
    <3>4. CASE \E p \in Ranges : WalkNodes(p)
      BY <3>4 DEF WalkNodes
    <3>5. CASE \E place \in 0 .. n - 1 : WalkPointers(place)
      BY <3>5 DEF WalkPointers
    <3>6. CASE UNCHANGED vars
      BY <3>6 DEF vars
    <3> QED
      BY <1>6, <3>1, <3>2, <3>3, <3>4, <3>5, <3>6
  <2> QED
    BY <1>1, <2>1 DEF Filling, n, VectorHolds
<1> QED
  BY <1>3, <1>4, <1>5, <1>6 DEF Next
-----------------------------------------------------------------------------
(* The invariant of the builder.                                           *)
THEOREM FillingHolds == Spec => []Filling
<1> QED
  BY InitFilling, StepFilling, PTL DEF Spec

(* A builder that has been given all its values is read back.              *)
LEMMA FilledReadsBack == Filling => ReadsBack
<1> SUFFICES ASSUME Filling, pc # "filling", NEW i \in 0 .. n - 1
             PROVE  /\ get(from, i) = input.values[i + 1]
                    /\ from.width <= word_width - byte_width + 1 =>
                         access_bits(from, i) = input.values[i + 1]
                    /\ LET e[k \in 0 .. n - 1 - i] ==
                             IF k = 0 THEN enumerator(from, i)
                             ELSE enumerator_next(enumerator_read(from, e[k - 1]))
                       IN  \A k \in DOMAIN e :
                             enumerator_value(from, e[k]) = input.values[i + k + 1]
  BY DEF ReadsBack
<1>1. /\ Vector(from) /\ from.size = n /\ n \in Nat
      /\ \A j \in 0 .. n - 1 :
           VectorFits(from, input.values[j + 1]) /\ VectorHolds(from, j, input.values[j + 1])
  <2>1. /\ input \in Inputs /\ from.mask = Mask(input.width)
        /\ Vector(from) /\ from.size = n /\ filled = 0 .. n - 1
        /\ \A j \in filled : VectorHolds(from, j, input.values[j + 1])
    BY DEF Filling
  <2>2. n \in Nat /\ \A k \in 1 .. n : VectorFits(from, input.values[k])
    BY <2>1, ValuesFit DEF n
  <2>3. \A j \in 0 .. n - 1 : j + 1 \in 1 .. n
    BY <2>2
  <2> QED
    BY <2>1, <2>2, <2>3
<1>2. /\ get(from, i) = input.values[i + 1]
      /\ from.width <= word_width - byte_width + 1 => access_bits(from, i) = input.values[i + 1]
  BY <1>1, VectorRead
<1> DEFINE e == CHOOSE f : Enumerates(from, i, n - 1 - i, f)
<1>3. Enumerates(from, i, n - 1 - i, e) /\ n - 1 - i \in Nat /\ i \in Nat
  <2>1. n - 1 - i \in Nat /\ i \in Nat
    BY <1>1
  <2> QED
    BY <1>1, <2>1, EnumeratorFollows
<1>4. e = CHOOSE f : f = [k \in 0 .. n - 1 - i |->
            IF k = 0 THEN enumerator(from, i)
            ELSE enumerator_next(enumerator_read(from, f[k - 1]))]
  BY DEF Enumerates
<1> HIDE DEF e
<1>5. DOMAIN e = 0 .. n - 1 - i
  BY <1>3 DEF Enumerates
<1>6. ASSUME NEW k \in DOMAIN e PROVE enumerator_value(from, e[k]) = input.values[i + k + 1]
  <2>1. k \in 0 .. n - 1 - i /\ i + k \in 0 .. n - 1
    BY <1>1, <1>5, <1>6
  <2>2. e[k] = enumerator(from, i + k)
    BY <1>1, <1>3, <2>1, EnumeratorFollows
  <2>3. enumerator_value(from, enumerator(from, i + k)) = input.values[(i + k) + 1]
    BY <1>1, <2>1, EnumeratorReads
  <2> QED
    BY <2>2, <2>3
<1> QED
  BY <1>2, <1>4, <1>6

(* For words and values of any width, a compact_vector gives back at every *)
(* index what its builder was given, by [] and by an enumerator from any   *)
(* index on, and by a read of a word at a byte if that gets the bits.      *)
THEOREM ReadsBackHolds == Spec => []ReadsBack
<1> QED
  BY FillingHolds, FilledReadsBack, PTL

-----------------------------------------------------------------------------
subblocks_in_block == block_size \div subblock_size

(* The block and the subblock of a one, and its place in them.             *)
LEMMA BlockPlaces ==
  ASSUME NEW j \in Nat, NEW t \in 0 .. block_size - 1
  PROVE  /\ subblocks_in_block \in Nat /\ block_size = subblock_size * subblocks_in_block
         /\ block_size * j \in Nat /\ block_size * j + t \in Nat
         /\ (block_size * j + t) \div block_size = j /\ (block_size * j + t) % block_size = t
         /\ (block_size * j + t) \div subblock_size
              = subblocks_in_block * j + (t \div subblock_size)
         /\ ((block_size * j + t) \div subblock_size) * subblock_size
              = block_size * j + (t \div subblock_size) * subblock_size
         /\ t \div subblock_size \in Nat /\ (t \div subblock_size) * subblock_size \in 0 .. t
<1>0. block_size \in Nat \ {0} /\ subblock_size \in Nat \ {0} /\ block_size % subblock_size = 0
  BY DArrayAssumption
<1>1. PICK r \in Nat : r = subblocks_in_block /\ block_size = subblock_size * r
  <2>1. PICK r \in Nat, s \in 0 .. subblock_size - 1 :
          r = block_size \div subblock_size /\ s = block_size % subblock_size
            /\ block_size = subblock_size * r + s
    BY <1>0, Division
  <2> QED
    BY <1>0, <2>1 DEF subblocks_in_block
<1>2. PICK a \in Nat, c \in 0 .. subblock_size - 1 :
        a = t \div subblock_size /\ t = subblock_size * a + c
  BY <1>0, Division
<1>3. block_size * j \in Nat /\ block_size * j + t \in Nat
  BY <1>0
<1>4. (block_size * j + t) \div block_size = j /\ (block_size * j + t) % block_size = t
  BY <1>0, DivisionKnown
<1>5. block_size * j + t = subblock_size * (r * j + a) + c
  <2>1. subblock_size * (r * j + a) = (subblock_size * r) * j + subblock_size * a
    BY <1>0
  <2>2. subblock_size * a \in Nat
    BY <1>0
  <2> QED
    BY <1>0, <1>1, <1>2, <1>3, <2>1, <2>2
<1>6. (block_size * j + t) \div subblock_size = r * j + a
  <2>1. r * j + a \in Nat
    OBVIOUS
  <2> QED
    BY <1>0, <1>5, <2>1, DivisionKnown
<1>7. (r * j + a) * subblock_size = block_size * j + a * subblock_size
  <2>1. (r * j + a) * subblock_size = (subblock_size * r) * j + a * subblock_size
    BY <1>0
  <2> QED
    BY <1>1, <2>1
<1>8. a * subblock_size \in 0 .. t
  <2>1. a * subblock_size = subblock_size * a /\ subblock_size * a \in Nat
    BY <1>0
  <2> QED
    BY <1>0, <1>2, <2>1
<1> QED
  BY <1>1, <1>2, <1>3, <1>4, <1>6, <1>7, <1>8
-----------------------------------------------------------------------------
(* What select needs to know of the k-th one.                              *)
Stored(d, bv, k) ==
  LET block == k \div block_size
      subblock == k \div subblock_size
      block_pos == d.block_inventory[block + 1]
      overflow == -block_pos - 1 + (k % block_size) + 1
  IN  /\ block + 1 \in 1 .. Len(d.block_inventory)
      /\ \/ /\ block_pos >= 0 /\ subblock + 1 \in 1 .. Len(d.subblock_inventory)
            /\ block_pos + d.subblock_inventory[subblock + 1] = One(bv, subblock * subblock_size)
         \/ /\ block_pos < 0 /\ overflow \in 1 .. Len(d.overflow_positions)
            /\ d.overflow_positions[overflow] = One(bv, k)

(* j blocks have been flushed.                                             *)
Flushed(d, bv, j) ==
  /\ d \in [positions : {Cardinality(Places(bv))}, block_inventory : Seq(Int),
            subblock_inventory : Seq(Nat), overflow_positions : Seq(Nat)]
  /\ Len(d.block_inventory) = j
  /\ block_size * j < Cardinality(Places(bv)) =>
       Len(d.subblock_inventory) = subblocks_in_block * j
  /\ \A k \in 0 .. Cardinality(Places(bv)) - 1 : k < block_size * j => Stored(d, bv, k)

(* Flushing a block leaves what was flushed before, and stores its ones.   *)
LEMMA FlushStores ==
  ASSUME NEW bv, BitVec(bv), NEW j \in Nat, NEW d, Flushed(d, bv, j),
         block_size * j < Cardinality(Places(bv)),
         NEW cur \in Seq(Nat), Len(cur) \in 1 .. block_size,
         Len(cur) = block_size
           \/ block_size * j + Len(cur) = Cardinality(Places(bv)),
         block_size * j + Len(cur) <= Cardinality(Places(bv)),
         \A t \in 0 .. Len(cur) - 1 : cur[t + 1] = One(bv, block_size * j + t)
  PROVE  Flushed(flush_cur_block(d, cur), bv, j + 1)
<1> DEFINE m == Cardinality(Places(bv))
           front == cur[1]
           dense == cur[Len(cur)] - front < max_in_block_distance
           subblocks == 1 .. ceil_div(Len(cur), subblock_size)
           Distance(s) == uint16_t(cur[(s - 1) * subblock_size + 1] - front)
           d2 == flush_cur_block(d, cur)
           old == subblocks_in_block * j
<1>0. /\ block_size \in Nat \ {0} /\ subblock_size \in Nat \ {0}
      /\ max_in_block_distance \in Nat \ {0}
  BY DArrayAssumption
<1>1. /\ m \in Nat
      /\ \A k \in 0 .. m - 1 : One(bv, k) \in Nat
      /\ \A i, k \in 0 .. m - 1 : i <= k => One(bv, i) <= One(bv, k)
  BY OnesInOrder
<1>2. /\ d \in [positions : {m}, block_inventory : Seq(Int),
                subblock_inventory : Seq(Nat), overflow_positions : Seq(Nat)]
      /\ Len(d.block_inventory) = j /\ Len(d.subblock_inventory) = old
      /\ \A k \in 0 .. m - 1 : k < block_size * j => Stored(d, bv, k)
  BY DEF Flushed
<1>3. /\ Len(cur) \in Nat \ {0} /\ Len(cur) <= block_size
      /\ block_size * j \in Nat /\ block_size * (j + 1) = block_size * j + block_size
      /\ block_size * j + Len(cur) <= m
      /\ Len(cur) = block_size \/ block_size * j + Len(cur) = m
      /\ block_size * j < m
  BY <1>0, MultiplesOrdered
<1>4. /\ subblocks_in_block \in Nat /\ block_size = subblock_size * subblocks_in_block
      /\ old \in Nat
  <2>1. 0 \in 0 .. block_size - 1
    BY <1>0
  <2>2. subblocks_in_block \in Nat /\ block_size = subblock_size * subblocks_in_block
    BY <2>1, BlockPlaces
  <2> QED
    BY <2>2
<1>5. /\ ceil_div(Len(cur), subblock_size) \in Nat
      /\ \A t \in 0 .. Len(cur) - 1 : t \div subblock_size < ceil_div(Len(cur), subblock_size)
      /\ \A s \in subblocks : (s - 1) * subblock_size \in 0 .. Len(cur) - 1
  <2>1. PICK a \in Nat \ {0} : a = Len(cur)
    BY <1>3
  <2>2. /\ ceil_div(a, subblock_size) \in Nat
        /\ \A k \in Nat : k < ceil_div(a, subblock_size) => subblock_size * k < a
        /\ \A x \in Nat : x < a => x \div subblock_size < ceil_div(a, subblock_size)
    BY <1>0, CeilDiv
  <2>3. ASSUME NEW s \in 1 .. ceil_div(a, subblock_size)
        PROVE  (s - 1) * subblock_size \in 0 .. a - 1
    <3>1. s - 1 \in Nat /\ s - 1 < ceil_div(a, subblock_size)
      BY <2>2, <2>3
    <3>2. subblock_size * (s - 1) < a /\ subblock_size * (s - 1) \in Nat
      BY <1>0, <2>2, <3>1
    <3>3. (s - 1) * subblock_size = subblock_size * (s - 1)
      BY <1>0, <3>1
    <3> QED
      BY <3>2, <3>3
  <2> QED
    BY <2>1, <2>2, <2>3
<1>6. \A t \in 0 .. Len(cur) - 1 :
        /\ block_size * j + t \in 0 .. m - 1
        /\ cur[t + 1] = One(bv, block_size * j + t) /\ cur[t + 1] \in Nat
        /\ front <= cur[t + 1] /\ cur[t + 1] <= cur[Len(cur)]
  <2> TAKE t \in 0 .. Len(cur) - 1
  <2>1. /\ block_size * j + t \in 0 .. m - 1 /\ block_size * j + 0 \in 0 .. m - 1
        /\ block_size * j + (Len(cur) - 1) \in 0 .. m - 1
    BY <1>1, <1>3, SMTT(30)
  <2>2. 0 \in 0 .. Len(cur) - 1 /\ Len(cur) - 1 \in 0 .. Len(cur) - 1
    BY <1>3
  <2>3. /\ front = One(bv, block_size * j + 0)
        /\ cur[Len(cur)] = One(bv, block_size * j + (Len(cur) - 1))
        /\ cur[t + 1] = One(bv, block_size * j + t)
    <3>1. 0 + 1 = 1 /\ (Len(cur) - 1) + 1 = Len(cur)
      BY <1>3
    <3> QED
      BY <2>2, <3>1
  <2>4. block_size * j + 0 <= block_size * j + t
        /\ block_size * j + t <= block_size * j + (Len(cur) - 1)
    BY <1>3
  <2> QED
    BY <1>1, <2>1, <2>3, <2>4
<1>7. front \in Nat /\ cur[Len(cur)] \in Nat
  BY <1>3
<1> HIDE DEF front, dense, subblocks, old
<1>8. ASSUME NEW s \in subblocks
      PROVE  /\ Distance(s) \in Nat
             /\ dense => front + Distance(s) = cur[(s - 1) * subblock_size + 1]
  <2>0. PICK t \in 0 .. Len(cur) - 1 : t = (s - 1) * subblock_size
    BY <1>5
  <2>5. cur[(s - 1) * subblock_size + 1] \in Nat
        /\ front <= cur[(s - 1) * subblock_size + 1]
        /\ cur[(s - 1) * subblock_size + 1] <= cur[Len(cur)]
    <3>1. front <= cur[t + 1] /\ cur[t + 1] <= cur[Len(cur)] /\ cur[t + 1] \in Nat
      BY <1>6
    <3> QED
      BY <2>0, <3>1
  <2>1. PICK x \in Nat : x = cur[(s - 1) * subblock_size + 1] - front
                         /\ x <= cur[Len(cur)] - front
    BY <1>7, <2>5, SMTT(30)
  <2>2. Distance(s) = x % max_in_block_distance
    BY <2>1 DEF uint16_t
  <2>3. x % max_in_block_distance \in Nat
    <3>1. PICK r \in 0 .. max_in_block_distance - 1 : r = x % max_in_block_distance
      <4>1. PICK b \in Nat \ {0} : b = max_in_block_distance
        BY <1>0
      <4>2. PICK q \in Nat, r \in 0 .. b - 1 : q = x \div b /\ r = x % b /\ x = b * q + r
        BY Division, ZenonT(40)
      <4> QED
        BY <4>1, <4>2
    <3> QED
      BY <3>1
  <2>4. ASSUME dense PROVE x % max_in_block_distance = x
    <3>1. x < max_in_block_distance /\ x \in Nat
      BY <1>0, <1>7, <2>1, <2>4 DEF dense
    <3>2. x = max_in_block_distance * 0 + x /\ x \in 0 .. max_in_block_distance - 1
      BY <1>0, <3>1
    <3> QED
      BY <1>0, <3>1, <3>2, DivisionKnown
  <2> QED
    BY <1>7, <2>1, <2>2, <2>3, <2>4, <2>5
<1>9. uint16_t(-1) \in Nat
  BY <1>0 DEF uint16_t
<1>10. d2 = IF dense
            THEN [d EXCEPT !.block_inventory = Append(@, front),
                           !.subblock_inventory = @ \o [s \in subblocks |-> Distance(s)]]
            ELSE [d EXCEPT !.block_inventory = Append(@, -Len(d.overflow_positions) - 1),
                           !.subblock_inventory = @ \o [s \in subblocks |-> uint16_t(-1)],
                           !.overflow_positions = @ \o cur]
  BY DEF flush_cur_block, front, dense, subblocks
<1> HIDE DEF d2, Distance
<1> DEFINE entry == IF dense THEN front ELSE -Len(d.overflow_positions) - 1
           subs == [s \in subblocks |-> IF dense THEN Distance(s) ELSE uint16_t(-1)]
           over == IF dense THEN <<>> ELSE cur
<1>11. /\ subs \in Seq(Nat) /\ Len(subs) = ceil_div(Len(cur), subblock_size)
       /\ over \in Seq(Nat) /\ entry \in Int
  <2>1. subs \in Seq(Nat) /\ Len(subs) = ceil_div(Len(cur), subblock_size)
    <3>1. \A s \in subblocks : (IF dense THEN Distance(s) ELSE uint16_t(-1)) \in Nat
      BY <1>8, <1>9
    <3> QED
      BY <1>5, <3>1 DEF subblocks
  <2>2. Len(d.overflow_positions) \in Nat
    BY <1>2
  <2> QED
    BY <1>7, <2>1, <2>2
<1>12. /\ d2.positions = m /\ d2.block_inventory = Append(d.block_inventory, entry)
       /\ d2.subblock_inventory = d.subblock_inventory \o subs
       /\ d2.overflow_positions = d.overflow_positions \o over
       /\ d2 \in [positions : {m}, block_inventory : Seq(Int),
                  subblock_inventory : Seq(Nat), overflow_positions : Seq(Nat)]
  <2>1. d2 = [d EXCEPT !.block_inventory = Append(@, entry), !.subblock_inventory = @ \o subs,
                       !.overflow_positions = @ \o over]
    <3>1. CASE dense
      <4>1. subs = [s \in subblocks |-> Distance(s)] /\ over = <<>> /\ entry = front
        BY <3>1
      <4>2. d.overflow_positions \o <<>> = d.overflow_positions
        BY <1>2
      <4>3. d2 = [d EXCEPT !.block_inventory = Append(@, entry),
                           !.subblock_inventory = @ \o subs]
        BY <1>10, <3>1, <4>1
      <4> HIDE DEF subs, over, entry
      <4> QED
        BY <1>2, <4>1, <4>2, <4>3
    <3>2. CASE ~ dense
      <4>1. subs = [s \in subblocks |-> uint16_t(-1)] /\ over = cur
            /\ entry = -Len(d.overflow_positions) - 1
        BY <3>2
      <4> HIDE DEF subs, over, entry
      <4> QED
        BY <1>10, <3>2, <4>1
    <3> QED
      BY <3>1, <3>2
  <2>2. /\ Append(d.block_inventory, entry) \in Seq(Int)
        /\ d.subblock_inventory \o subs \in Seq(Nat)
        /\ d.overflow_positions \o over \in Seq(Nat)
    <3> HIDE DEF subs, over, entry
    <3> QED
      BY <1>2, <1>11
  <2> HIDE DEF subs, over, entry
  <2> QED
    BY <1>2, <2>1, <2>2
<1> HIDE DEF subs, over, entry
<1>13. /\ Len(d2.block_inventory) = j + 1 /\ d2.block_inventory[j + 1] = entry
       /\ \A i \in 1 .. j : d2.block_inventory[i] = d.block_inventory[i]
       /\ Len(d2.subblock_inventory) = old + Len(subs)
       /\ \A i \in 1 .. Len(subs) : d2.subblock_inventory[old + i] = subs[i]
       /\ \A i \in 1 .. old : d2.subblock_inventory[i] = d.subblock_inventory[i]
       /\ Len(d2.overflow_positions) = Len(d.overflow_positions) + Len(over)
       /\ \A i \in 1 .. Len(over) : d2.overflow_positions[Len(d.overflow_positions) + i] = over[i]
       /\ \A i \in 1 .. Len(d.overflow_positions) : d2.overflow_positions[i] = d.overflow_positions[i]
       /\ Len(d.overflow_positions) \in Nat /\ Len(over) \in Nat /\ Len(subs) \in Nat
  <2>1. /\ d.block_inventory \in Seq(Int) /\ d.subblock_inventory \in Seq(Nat)
        /\ d.overflow_positions \in Seq(Nat)
    BY <1>2
  <2>2. \A a \in Seq(Int), e \in Int :
          /\ Len(Append(a, e)) = Len(a) + 1 /\ Append(a, e)[Len(a) + 1] = e
          /\ \A i \in 1 .. Len(a) : Append(a, e)[i] = a[i]
    OBVIOUS
  <2>3. \A a, b \in Seq(Nat) :
          /\ Len(a) \in Nat /\ Len(b) \in Nat /\ Len(a \o b) = Len(a) + Len(b)
          /\ \A i \in 1 .. Len(b) : (a \o b)[Len(a) + i] = b[i]
          /\ \A i \in 1 .. Len(a) : (a \o b)[i] = a[i]
    OBVIOUS
  <2>4. /\ Len(d2.block_inventory) = j + 1 /\ d2.block_inventory[j + 1] = entry
        /\ \A i \in 1 .. j : d2.block_inventory[i] = d.block_inventory[i]
    <3>1. PICK a \in Seq(Int), e \in Int : a = d.block_inventory /\ e = entry /\ Len(a) = j
      BY <1>2, <1>11, <2>1
    <3>2. d2.block_inventory = Append(a, e)
      BY <1>12, <3>1
    <3>3. /\ Len(Append(a, e)) = Len(a) + 1 /\ Append(a, e)[Len(a) + 1] = e
          /\ \A i \in 1 .. Len(a) : Append(a, e)[i] = a[i]
      BY <2>2
    <3> QED
      BY <3>1, <3>2, <3>3
  <2>5. /\ Len(d2.subblock_inventory) = old + Len(subs) /\ Len(subs) \in Nat
        /\ \A i \in 1 .. Len(subs) : d2.subblock_inventory[old + i] = subs[i]
        /\ \A i \in 1 .. old : d2.subblock_inventory[i] = d.subblock_inventory[i]
    <3>1. PICK a \in Seq(Nat), b \in Seq(Nat) :
            a = d.subblock_inventory /\ b = subs /\ Len(a) = old
      BY <1>2, <1>11, <2>1
    <3>2. d2.subblock_inventory = a \o b
      BY <1>12, <3>1
    <3>3. /\ Len(b) \in Nat /\ Len(a \o b) = Len(a) + Len(b)
          /\ \A i \in 1 .. Len(b) : (a \o b)[Len(a) + i] = b[i]
          /\ \A i \in 1 .. Len(a) : (a \o b)[i] = a[i]
      BY <2>3
    <3> QED
      BY <3>1, <3>2, <3>3
  <2>6. /\ Len(d2.overflow_positions) = Len(d.overflow_positions) + Len(over)
        /\ \A i \in 1 .. Len(over) : d2.overflow_positions[Len(d.overflow_positions) + i] = over[i]
        /\ \A i \in 1 .. Len(d.overflow_positions) :
              d2.overflow_positions[i] = d.overflow_positions[i]
        /\ Len(d.overflow_positions) \in Nat /\ Len(over) \in Nat
    <3>1. PICK a \in Seq(Nat), b \in Seq(Nat) : a = d.overflow_positions /\ b = over
      BY <1>11, <2>1
    <3>2. d2.overflow_positions = a \o b
      BY <1>12, <3>1
    <3>3. /\ Len(a) \in Nat /\ Len(b) \in Nat /\ Len(a \o b) = Len(a) + Len(b)
          /\ \A i \in 1 .. Len(b) : (a \o b)[Len(a) + i] = b[i]
          /\ \A i \in 1 .. Len(a) : (a \o b)[i] = a[i]
      BY <2>3
    <3> QED
      BY <3>1, <3>2, <3>3
  <2> QED
    BY <2>4, <2>5, <2>6
<1>14. ASSUME NEW k \in 0 .. m - 1, k < block_size * j PROVE Stored(d2, bv, k)
  <2> DEFINE block == k \div block_size
             sub == k \div subblock_size
  <2>1. Stored(d, bv, k)
    BY <1>2, <1>14
  <2>2. /\ block + 1 \in 1 .. j
        /\ \/ /\ d.block_inventory[block + 1] >= 0 /\ sub + 1 \in 1 .. old
              /\ d.block_inventory[block + 1] + d.subblock_inventory[sub + 1]
                   = One(bv, sub * subblock_size)
           \/ /\ d.block_inventory[block + 1] < 0
              /\ -d.block_inventory[block + 1] - 1 + (k % block_size) + 1
                   \in 1 .. Len(d.overflow_positions)
              /\ d.overflow_positions[-d.block_inventory[block + 1] - 1 + (k % block_size) + 1]
                   = One(bv, k)
    BY <1>2, <2>1 DEF Stored
  <2> HIDE DEF block, sub
  <2>3. d2.block_inventory[block + 1] = d.block_inventory[block + 1]
        /\ block + 1 \in 1 .. Len(d2.block_inventory)
    BY <1>13, <2>2
  <2>4. sub + 1 \in 1 .. old =>
          d2.subblock_inventory[sub + 1] = d.subblock_inventory[sub + 1]
            /\ sub + 1 \in 1 .. Len(d2.subblock_inventory)
    <3>1. PICK length \in Nat, more \in Nat :
            length = old /\ more = Len(subs) /\ Len(d2.subblock_inventory) = length + more
      BY <1>4, <1>13
    <3>2. ASSUME NEW i \in 1 .. old
          PROVE  /\ d2.subblock_inventory[i] = d.subblock_inventory[i]
                 /\ i \in 1 .. Len(d2.subblock_inventory)
      <4>1. d2.subblock_inventory[i] = d.subblock_inventory[i]
        BY <1>13
      <4>2. i \in 1 .. length + more
        BY <3>1
      <4> QED
        BY <3>1, <4>1, <4>2
    <3> QED
      BY <3>2
  <2>5. \A i \in 1 .. Len(d.overflow_positions) :
          d2.overflow_positions[i] = d.overflow_positions[i]
            /\ i \in 1 .. Len(d2.overflow_positions)
    BY <1>13
  <2> QED
    BY <2>2, <2>3, <2>4, <2>5 DEF Stored, block, sub
<1>15. ASSUME NEW t \in 0 .. Len(cur) - 1 PROVE Stored(d2, bv, block_size * j + t)
  <2> DEFINE k == block_size * j + t
             s == t \div subblock_size
  <2>1. t \in 0 .. block_size - 1
    BY <1>0, <1>3
  <2>2. /\ k \div block_size = j /\ k % block_size = t
        /\ k \div subblock_size = old + s
        /\ (k \div subblock_size) * subblock_size = block_size * j + s * subblock_size
        /\ s \in Nat /\ s * subblock_size \in 0 .. t
    BY <2>1, BlockPlaces DEF old
  <2>3. /\ s + 1 \in subblocks /\ s + 1 \in 1 .. Len(subs)
    BY <1>5, <1>11, <2>2 DEF subblocks
  <2> HIDE DEF s, k
  <2>4. CASE dense
    <3>1. entry = front /\ entry >= 0 /\ subs[s + 1] = Distance(s + 1)
      BY <1>7, <2>3, <2>4 DEF entry, subs
    <3>2. (s + 1) - 1 = s
      BY <2>2
    <3>3. front + Distance(s + 1) = cur[s * subblock_size + 1]
      BY <1>8, <2>3, <2>4, <3>2
    <3>4. s * subblock_size \in 0 .. Len(cur) - 1
      BY <1>3, <2>2
    <3>5. cur[s * subblock_size + 1] = One(bv, block_size * j + s * subblock_size)
      BY <1>6, <3>4
    <3>6. d2.subblock_inventory[(k \div subblock_size) + 1] = subs[s + 1]
          /\ (k \div subblock_size) + 1 \in 1 .. Len(d2.subblock_inventory)
      <4>1. (k \div subblock_size) + 1 = old + (s + 1)
        BY <1>4, <2>2
      <4>2. d2.subblock_inventory[old + (s + 1)] = subs[s + 1]
        BY <1>13, <2>3
      <4>3. old + (s + 1) \in 1 .. Len(d2.subblock_inventory)
        <5>1. old \in Nat /\ Len(subs) \in Nat /\ s + 1 \in 1 .. Len(subs)
          BY <1>4, <1>13, <2>3
        <5>2. Len(d2.subblock_inventory) = old + Len(subs)
          BY <1>13
        <5> QED
          BY <5>1, <5>2
      <4> QED
        BY <4>1, <4>2, <4>3
    <3>7. d2.block_inventory[(k \div block_size) + 1] = entry
          /\ (k \div block_size) + 1 \in 1 .. Len(d2.block_inventory)
      BY <1>13, <2>2, SMTT(30)
    <3>8. d2.block_inventory[(k \div block_size) + 1]
            + d2.subblock_inventory[(k \div subblock_size) + 1]
              = One(bv, (k \div subblock_size) * subblock_size)
      BY <2>2, <3>1, <3>3, <3>5, <3>6, <3>7
    <3> QED
      BY <3>1, <3>6, <3>7, <3>8 DEF Stored, k
  <2>5. CASE ~ dense
    <3>1. entry = -Len(d.overflow_positions) - 1 /\ over = cur
      BY <2>5 DEF entry, over
    <3>2. d2.block_inventory[(k \div block_size) + 1] = entry
          /\ (k \div block_size) + 1 \in 1 .. Len(d2.block_inventory)
      BY <1>13, <2>2, SMTT(30)
    <3>3. -entry - 1 + (k % block_size) + 1 = Len(d.overflow_positions) + (t + 1) /\ entry < 0
      <4>1. PICK o \in Nat : o = Len(d.overflow_positions)
        BY <1>13
      <4>2. entry = -o - 1 /\ k % block_size = t /\ t \in Nat
        BY <2>2, <3>1, <4>1
      <4>3. -entry - 1 + (k % block_size) + 1 = o + (t + 1) /\ entry < 0
        BY <4>2
      <4> QED
        BY <4>1, <4>3
    <3>4. t + 1 \in 1 .. Len(over)
      BY <1>3, <3>1
    <3>5. d2.overflow_positions[-entry - 1 + (k % block_size) + 1] = One(bv, k)
          /\ -entry - 1 + (k % block_size) + 1 \in 1 .. Len(d2.overflow_positions)
      <4>1. d2.overflow_positions[Len(d.overflow_positions) + (t + 1)] = over[t + 1]
            /\ Len(d.overflow_positions) + (t + 1) \in 1 .. Len(d2.overflow_positions)
        <5>1. Len(d.overflow_positions) \in Nat /\ Len(over) \in Nat
          BY <1>13
        <5>2. Len(d2.overflow_positions) = Len(d.overflow_positions) + Len(over)
          BY <1>13
        <5>3. d2.overflow_positions[Len(d.overflow_positions) + (t + 1)] = over[t + 1]
          BY <1>13, <3>4
        <5>4. \A a, b \in Nat : \A c \in 1 .. b : a + c \in 1 .. a + b
          OBVIOUS
        <5>5. Len(d.overflow_positions) + (t + 1)
                \in 1 .. Len(d.overflow_positions) + Len(over)
          BY <3>4, <5>1, <5>4
        <5> QED
          BY <5>2, <5>3, <5>5
      <4>2. over[t + 1] = One(bv, k)
        BY <1>6, <3>1 DEF k
      <4> QED
        BY <3>3, <4>1, <4>2
    <3> QED
      BY <3>2, <3>3, <3>5 DEF Stored, k
  <2> QED
    BY <2>4, <2>5
<1>16. ASSUME NEW k \in 0 .. m - 1, k < block_size * (j + 1) PROVE Stored(d2, bv, k)
  <2>1. CASE k < block_size * j
    BY <1>14, <2>1
  <2>2. CASE ~ (k < block_size * j)
    <3>1. k - block_size * j \in 0 .. Len(cur) - 1 /\ k = block_size * j + (k - block_size * j)
      BY <1>0, <1>1, <1>3, <1>16, <2>2
    <3> QED
      BY <1>15, <3>1
  <2> QED
    BY <2>1, <2>2
<1>17. ASSUME block_size * (j + 1) < m
       PROVE  Len(d2.subblock_inventory) = subblocks_in_block * (j + 1)
  <2>1. Len(cur) = block_size
    BY <1>0, <1>1, <1>3, <1>17
  <2>2. PICK c \in Nat : c = ceil_div(block_size, subblock_size)
                         /\ block_size <= subblock_size * c /\ subblock_size * c < block_size + subblock_size
    BY <1>0, CeilDiv
  <2>3. c = subblocks_in_block
    <3>1. subblock_size * subblocks_in_block <= subblock_size * c
      BY <1>4, <2>2
    <3>2. /\ subblock_size * (c + 1) = subblock_size * c + subblock_size
          /\ subblock_size * (subblocks_in_block + 1)
               = subblock_size * subblocks_in_block + subblock_size
          /\ subblock_size * c \in Nat /\ subblock_size * subblocks_in_block \in Nat
      BY <1>0, <1>4, MultiplesOrdered
    <3>3. subblock_size * subblocks_in_block < subblock_size * (c + 1)
          /\ subblock_size * c < subblock_size * (subblocks_in_block + 1)
      BY <1>0, <1>4, <2>2, <3>1, <3>2
    <3>4. subblocks_in_block < c + 1
      <4>1. c + 1 \in Nat
        OBVIOUS
      <4> QED
        BY <1>0, <1>4, <3>3, <4>1, MultiplesOrdered
    <3>5. c < subblocks_in_block + 1
      <4>1. subblocks_in_block + 1 \in Nat
        BY <1>4
      <4> QED
        BY <1>0, <3>3, <4>1, MultiplesOrdered
    <3> QED
      BY <1>4, <3>4, <3>5
  <2>4. subblocks_in_block * (j + 1) = old + subblocks_in_block
    BY <1>4 DEF old
  <2> QED
    BY <1>11, <1>13, <2>1, <2>2, <2>3, <2>4
<1> QED
  BY <1>12, <1>13, <1>16, <1>17 DEF Flushed, d2

(* A darray has stored all the ones of its bit vector.                     *)
LEMMA DArrayStores ==
  ASSUME NEW bv, BitVec(bv)
  PROVE  Flushed(darray(bv), bv, ceil_div(Cardinality(Places(bv)), block_size))
<1> DEFINE m == Cardinality(Places(bv))
           places == {p \in 0 .. bv.size - 1 : p % word_width \in bv.words[p \div word_width + 1]}
           ones == [k \in 1 .. Cardinality(places) |-> select_in_word(places, k - 1)]
           Block(k) == SubSeq(ones, (k - 1) * block_size + 1,
                              IF k * block_size < Len(ones) THEN k * block_size ELSE Len(ones))
           empty == [positions |-> Len(ones), block_inventory |-> <<>>,
                     subblock_inventory |-> <<>>, overflow_positions |-> <<>>]
           top == ceil_div(Len(ones), block_size)
           turn(f, k) == IF k = 0 THEN empty ELSE flush_cur_block(f[k - 1], Block(k))
           flushed == CHOOSE f : f = [k \in 0 .. top |-> turn(f, k)]
           D == [positions : {m}, block_inventory : Seq(Int),
                 subblock_inventory : Seq(Nat), overflow_positions : Seq(Nat)]
<1>0. block_size \in Nat \ {0}
  BY DArrayAssumption
<1>1. m \in Nat /\ \A k \in 0 .. m - 1 : One(bv, k) \in Nat
  BY OnesInOrder
<1>2. darray(bv) = flushed[top]
  BY DEF darray
<1>3. ones = [k \in 1 .. m |-> One(bv, k - 1)]
  BY DEF Places, One, BitAt
<1> HIDE DEF ones
<1>4. /\ ones \in Seq(Nat) /\ Len(ones) = m
      /\ \A k \in 1 .. m : ones[k] = One(bv, k - 1) /\ ones[k] \in Nat
  <2>1. \A k \in 1 .. m : k - 1 \in 0 .. m - 1
    BY <1>1
  <2>2. \A k \in 1 .. m : One(bv, k - 1) \in Nat
    BY <1>1, <2>1
  <2> QED
    BY <1>1, <1>3, <2>2
<1> HIDE DEF m
<1>5. /\ top \in Nat /\ m <= block_size * top
      /\ \A k \in Nat : k < top => block_size * k < m
  BY <1>0, <1>1, <1>4, CeilDiv
<1>6. ASSUME NEW j \in 0 .. top - 1
      PROVE  /\ block_size * j < m /\ Block(j + 1) \in Seq(Nat)
             /\ Len(Block(j + 1)) \in 1 .. block_size
             /\ Len(Block(j + 1)) = block_size \/ block_size * j + Len(Block(j + 1)) = m
             /\ block_size * j + Len(Block(j + 1)) <= m
             /\ \A t \in 0 .. Len(Block(j + 1)) - 1 :
                  Block(j + 1)[t + 1] = One(bv, block_size * j + t)
  <2> DEFINE from0 == block_size * j
             last == IF from0 + block_size < m THEN from0 + block_size ELSE m
  <2>1. j \in Nat /\ j < top
    BY <1>5
  <2>2. from0 \in Nat /\ from0 < m
    BY <1>0, <1>5, <2>1
  <2>3. ((j + 1) - 1) * block_size = from0 /\ (j + 1) * block_size = from0 + block_size
    BY <1>0, <2>1
  <2> HIDE DEF from0
  <2>4. Block(j + 1) = SubSeq(ones, from0 + 1, last)
    BY <1>4, <2>3
  <2>5. /\ last \in Nat /\ from0 + 1 <= last /\ last <= m
        /\ last - from0 \in 1 .. block_size
        /\ last - from0 = block_size \/ last = m
    BY <1>0, <1>1, <2>2
  <2> HIDE DEF last
  <2>6. \A i \in from0 + 1 .. last : i \in 1 .. m /\ ones[i] \in Nat
    BY <1>1, <1>4, <2>2, <2>5
  <2>7. /\ SubSeq(ones, from0 + 1, last) \in Seq(Nat)
        /\ Len(SubSeq(ones, from0 + 1, last)) = last - from0
        /\ \A i \in 1 .. last - from0 : SubSeq(ones, from0 + 1, last)[i] = ones[from0 + i]
    <3>1. from0 + 1 \in Int /\ last \in Int
      BY <2>2, <2>5
    <3>2. /\ SubSeq(ones, from0 + 1, last) \in Seq(Nat)
          /\ Len(SubSeq(ones, from0 + 1, last))
               = IF from0 + 1 <= last THEN last - (from0 + 1) + 1 ELSE 0
          /\ \A i \in 1 .. last - (from0 + 1) + 1 :
               SubSeq(ones, from0 + 1, last)[i] = ones[(from0 + 1) + i - 1]
      BY <2>6, <3>1, SubSeqProperties
    <3>3. last - (from0 + 1) + 1 = last - from0
      BY <2>2, <2>5
    <3>4. \A i \in 1 .. last - from0 : (from0 + 1) + i - 1 = from0 + i
      BY <2>2
    <3> QED
      BY <2>5, <3>2, <3>3, <3>4
  <2>8. ASSUME NEW t \in 0 .. (last - from0) - 1
        PROVE  SubSeq(ones, from0 + 1, last)[t + 1] = One(bv, from0 + t)
    <3>0. t \in Nat /\ t + 1 <= last - from0
      BY <2>2, <2>5
    <3>1. t + 1 \in 1 .. last - from0 /\ from0 + (t + 1) \in 1 .. m
          /\ (from0 + (t + 1)) - 1 = from0 + t
      BY <1>1, <2>2, <2>5, <3>0
    <3>2. ones[from0 + (t + 1)] = One(bv, (from0 + (t + 1)) - 1)
      BY <1>4, <3>1
    <3> QED
      BY <2>7, <3>1, <3>2
  <2>9. from0 + (last - from0) = last
    BY <2>2, <2>5
  <2> QED
    BY <2>2, <2>4, <2>5, <2>7, <2>8, <2>9 DEF from0
<1> HIDE DEF top, Block
<1>7. Flushed(empty, bv, 0)
  <2>1. empty \in D /\ Len(empty.block_inventory) = 0 /\ Len(empty.subblock_inventory) = 0
    BY <1>4
  <2>2. block_size * 0 = 0 /\ subblocks_in_block * 0 = 0
    <3>1. 0 \in 0 .. block_size - 1 /\ 0 \in Nat
      BY <1>0
    <3>2. subblocks_in_block \in Nat
      BY <3>1, BlockPlaces
    <3> QED
      BY <1>0, <3>2
  <2>3. \A k \in 0 .. m - 1 : ~ (k < 0)
    OBVIOUS
  <2> HIDE DEF empty
  <2> QED
    BY <2>1, <2>2, <2>3 DEF Flushed, m
<1> HIDE DEF empty
<1>8. ASSUME NEW j \in 0 .. top - 1, NEW d, Flushed(d, bv, j)
      PROVE  Flushed(flush_cur_block(d, Block(j + 1)), bv, j + 1)
  <2>1. j \in Nat
    BY <1>5
  <2> QED
    BY <1>6, <1>8, <2>1, FlushStores DEF m
<1>9. \A d, j : Flushed(d, bv, j) => d \in D
  BY DEF Flushed, m
<1> HIDE DEF D
<1>10. \E f : f = [k \in 0 .. top |-> turn(f, k)]
  <2> DEFINE step == [e \in Nat \X D |-> IF flush_cur_block(e[2], Block(e[1] + 1)) \in D
                                         THEN flush_cur_block(e[2], Block(e[1] + 1)) ELSE e[2]]
  <2>1. empty \in D
    BY <1>7, <1>9
  <2>2. step \in [Nat \X D -> D]
    OBVIOUS
  <2>3. \A k \in Nat, d \in D :
          step[<<k, d>>] = IF flush_cur_block(d, Block(k + 1)) \in D
                           THEN flush_cur_block(d, Block(k + 1)) ELSE d
    OBVIOUS
  <2> HIDE DEF step
  <2>4. PICK f \in [Nat -> D] : f[0] = empty /\ \A k \in Nat : f[k + 1] = step[<<k, f[k]>>]
    <3>1. Steps(D, empty, step)
      BY <2>1, <2>2 DEF Steps
    <3>2. HasRecursion(D, empty, step)
      BY <3>1, Recursion
    <3> QED
      BY <3>2 DEF HasRecursion
  <2>5. ASSUME NEW k \in 0 .. top - 1, Flushed(f[k], bv, k)
        PROVE  f[k + 1] = flush_cur_block(f[k], Block(k + 1)) /\ Flushed(f[k + 1], bv, k + 1)
    <3>1. k \in Nat /\ f[k] \in D
      BY <1>5
    <3>2. Flushed(flush_cur_block(f[k], Block(k + 1)), bv, k + 1)
      BY <1>8, <2>5
    <3>3. flush_cur_block(f[k], Block(k + 1)) \in D
      BY <1>9, <3>2
    <3>4. f[k + 1] = flush_cur_block(f[k], Block(k + 1))
      BY <2>3, <2>4, <3>1, <3>3
    <3> QED
      BY <3>2, <3>4
  <2> DEFINE P == {k \in Nat : Flushed(f[k], bv, k)}
  <2>6. 0 \in P
    BY <1>7, <2>4
  <2>7. ASSUME NEW k \in 0 .. top - 1, k \in P PROVE k + 1 \in P
    BY <1>5, <2>5, <2>7
  <2>8. \A k \in 0 .. top : Flushed(f[k], bv, k)
    <3>1. \A k \in 0 .. top : k \in P
      <4> HIDE DEF P
      <4> QED
        BY <1>5, <2>6, <2>7, InductionUpTo
    <3> QED
      BY <3>1
  <2> DEFINE g == [k \in 0 .. top |-> f[k]]
  <2>9. ASSUME NEW k \in 0 .. top PROVE g[k] = turn(g, k)
    <3>1. CASE k = 0
      BY <1>5, <2>4, <3>1
    <3>2. CASE k # 0
      <4>1. k - 1 \in 0 .. top - 1 /\ k - 1 \in 0 .. top /\ (k - 1) + 1 = k
        BY <1>5, <3>2
      <4>2. f[(k - 1) + 1] = flush_cur_block(f[k - 1], Block((k - 1) + 1))
        BY <2>5, <2>8, <4>1
      <4>3. g[k] = f[k] /\ g[k - 1] = f[k - 1]
        BY <4>1
      <4> QED
        BY <3>2, <4>1, <4>2, <4>3
    <3> QED
      BY <3>1, <3>2
  <2>10. g = [k \in 0 .. top |-> turn(g, k)]
    BY <2>9
  <2> QED
    BY <2>10
<1>11. flushed = [k \in 0 .. top |-> turn(flushed, k)]
  BY <1>10
<1> HIDE DEF flushed
<1> DEFINE P == {k \in Nat : Flushed(flushed[k], bv, k)}
<1>12. 0 \in P
  <2>1. flushed[0] = empty
    BY <1>5, <1>11
  <2> QED
    BY <1>7, <2>1
<1>13. ASSUME NEW k \in 0 .. top - 1, k \in P PROVE k + 1 \in P
  <2>1. k \in Nat /\ k + 1 \in 0 .. top /\ k + 1 # 0 /\ (k + 1) - 1 = k /\ k + 1 \in Nat
    BY <1>5
  <2>2. flushed[k + 1] = flush_cur_block(flushed[k], Block(k + 1))
    BY <1>11, <2>1
  <2>3. Flushed(flushed[k + 1], bv, k + 1)
    BY <1>8, <1>13, <2>2
  <2> QED
    BY <2>1, <2>3
<1>14. top \in P
  <2> HIDE DEF P
  <2> QED
    BY <1>5, <1>12, <1>13, InductionUpTo
<1> QED
  BY <1>2, <1>4, <1>14 DEF m, top

(* select finds each one.                                                  *)
LEMMA SelectsOne ==
  ASSUME NEW bv, BitVec(bv), NEW k \in 0 .. Cardinality(Places(bv)) - 1
  PROVE  /\ darray(bv).positions = Cardinality(Places(bv))
         /\ select(darray(bv), bv, k) = One(bv, k)
<1> DEFINE m == Cardinality(Places(bv))
           d == darray(bv)
           top == ceil_div(m, block_size)
           block == k \div block_size
           sub == k \div subblock_size
           block_pos == d.block_inventory[block + 1]
           start == block_pos + d.subblock_inventory[sub + 1]
           reminder == k % subblock_size
           found == kth_bit(bv.words, FALSE, start \div word_width,
                            WordAt(bv.words, start \div word_width) \ Mask(start % word_width),
                            reminder)
<1>0. block_size \in Nat \ {0} /\ subblock_size \in Nat \ {0} /\ word_width \in Nat \ {0}
  BY DArrayAssumption, WordsAssumption
<1>1. m \in Nat /\ k \in Nat
  BY OnesInOrder
<1>2. Flushed(d, bv, top)
  BY DArrayStores
<1>3. select(d, bv, k) = IF block_pos < 0
                         THEN d.overflow_positions[-block_pos - 1 + (k % block_size) + 1]
                         ELSE IF reminder = 0 THEN start
                         ELSE found.word * word_width + found.bit
  BY DEF select
<1> HIDE DEF d
<1>4. d.positions = m /\ Stored(d, bv, k)
  <2>1. top \in Nat /\ m <= block_size * top
    BY <1>0, <1>1, CeilDiv
  <2> HIDE DEF top
  <2>2. k < block_size * top
    <3>1. block_size * top \in Nat
      BY <1>0, <2>1
    <3> QED
      BY <1>1, <2>1, <3>1
  <2>3. Stored(d, bv, k)
    BY <1>2, <2>2 DEF Flushed
  <2>4. d.positions = m
    <3>1. d \in [positions : {m}, block_inventory : Seq(Int),
                 subblock_inventory : Seq(Nat), overflow_positions : Seq(Nat)]
      BY <1>2 DEF Flushed
    <3> QED
      BY <3>1
  <2> QED
    BY <2>3, <2>4
<1>5. \/ block_pos < 0
         /\ d.overflow_positions[-block_pos - 1 + (k % block_size) + 1] = One(bv, k)
      \/ block_pos >= 0 /\ start = One(bv, sub * subblock_size)
  BY <1>4 DEF Stored
<1>6. block_pos \in Int
  <2>1. d.block_inventory \in Seq(Int)
    BY <1>2 DEF Flushed
  <2>2. block + 1 \in 1 .. Len(d.block_inventory)
    BY <1>4 DEF Stored
  <2> QED
    BY <2>1, <2>2
<1>7. CASE block_pos < 0
  BY <1>3, <1>4, <1>5, <1>6, <1>7 DEF d
<1>8. CASE ~ (block_pos < 0)
  <2>1. start = One(bv, sub * subblock_size)
    BY <1>5, <1>8
  <2>2. PICK a \in Nat, c \in 0 .. subblock_size - 1 :
          a = sub /\ c = reminder /\ k = subblock_size * a + c
    <3>1. PICK b \in Nat \ {0} : b = subblock_size
      BY <1>0
    <3>2. PICK a \in Nat, c \in 0 .. b - 1 : a = k \div b /\ c = k % b /\ k = b * a + c
      BY <1>1, Division
    <3> QED
      BY <3>1, <3>2
  <2>3. sub * subblock_size \in Nat /\ k = sub * subblock_size + reminder
        /\ sub * subblock_size \in 0 .. m - 1 /\ reminder \in Nat
    <3>1. subblock_size * a = a * subblock_size /\ a * subblock_size \in Nat
      BY <1>0
    <3> QED
      BY <1>0, <1>1, <2>2, <3>1
  <2> HIDE DEF block_pos, start, sub
  <2>4. CASE reminder = 0
    <3>1. k = sub * subblock_size
      BY <2>3, <2>4
    <3> QED
      BY <1>3, <1>4, <1>8, <2>1, <2>4, <3>1 DEF d
  <2>5. CASE reminder # 0
    <3> DEFINE p == One(bv, k)
               S == From("ones", bv.words, start)
    <3>1. /\ p \in Places(bv) /\ p \in Nat /\ p < bv.size /\ CountTo(Places(bv), p) = k
          /\ start \in Nat /\ CountTo(Places(bv), start) = sub * subblock_size /\ start <= p
      <4>1. sub * subblock_size <= k
        BY <2>3
      <4> QED
        BY <2>1, <2>3, <4>1, OnesInOrder
    <3> HIDE DEF p
    <3>2. CountTo(S, p) = reminder /\ p \in S
      <4>1. CountTo(S, p) = CountTo(Places(bv), p) - CountTo(Places(bv), start)
            /\ p \in S <=> p \in Places(bv)
        BY <3>1, FromCounts
      <4> QED
        BY <2>3, <3>1, <4>1
    <3>3. bv.words \in Seq(Word) /\ p < word_width * Len(bv.words)
      <4>1. /\ bv.words \in Seq(Word) /\ bv.size \in Nat /\ bv.size <= word_width * Len(bv.words)
            /\ Len(bv.words) \in Nat /\ word_width * Len(bv.words) \in Nat
        BY <1>0 DEF BitVec
      <4> QED
        BY <3>1, <4>1
    <3> DEFINE base == start \div word_width
               buf == WordAt(bv.words, base) \ Mask(start % word_width)
    <3>4. base \in Nat
      BY <3>1, BitPlace
    <3>5. Spells("ones", bv.words, base, buf, S)
      BY <3>1, <3>3, FromSpelt
    <3> HIDE DEF base, buf, S
    <3>6. kth(bv.words, "ones", base, buf, CountTo(S, p)) =
            [buf |-> IF p \div word_width = base THEN buf
                     ELSE BitsOf("ones", bv.words, p \div word_width),
             bit |-> p % word_width, word |-> p \div word_width]
      <4>1. PICK words \in Seq(Word) : words = bv.words
        BY <3>3
      <4>2. Spells("ones", words, base, buf, S) /\ p < word_width * Len(words) /\ p \in S
        BY <3>2, <3>3, <3>5, <4>1
      <4>3. kth(words, "ones", base, buf, CountTo(S, p)) =
              [buf |-> IF p \div word_width = base THEN buf
                       ELSE BitsOf("ones", words, p \div word_width),
               bit |-> p % word_width, word |-> p \div word_width]
        BY ONLY <3>4, <4>2, words \in Seq(Word), KthBit
      <4> QED
        BY <4>1, <4>3
    <3>7. found.word = p \div word_width /\ found.bit = p % word_width
      <4>1. found = kth(bv.words, "ones", base, buf, CountTo(S, p))
        BY <3>2 DEF base, buf, kth
      <4> DEFINE rest == IF p \div word_width = base THEN buf
                         ELSE BitsOf("ones", bv.words, p \div word_width)
      <4>2. kth(bv.words, "ones", base, buf, CountTo(S, p)) =
              [buf |-> rest, bit |-> p % word_width, word |-> p \div word_width]
        BY <3>6
      <4> HIDE DEF found, rest
      <4> QED
        BY <4>1, <4>2
    <3>8. (p \div word_width) * word_width + (p % word_width) = p
      <4>1. PICK q \in Nat, r \in 0 .. word_width - 1 :
              q = p \div word_width /\ r = p % word_width /\ p = word_width * q + r
        BY <3>1, BitPlace
      <4>2. word_width * q = q * word_width /\ q * word_width \in Nat
        BY <1>0
      <4> QED
        BY <4>1, <4>2
    <3> HIDE DEF found
    <3>9. select(d, bv, k) = p
      BY <1>3, <1>8, <2>5, <3>7, <3>8
    <3> QED
      BY <1>4, <3>9 DEF d, p
  <2> QED
    BY <2>4, <2>5
<1> QED
  BY <1>7, <1>8

-----------------------------------------------------------------------------
(* A list that never goes down is in order.                                *)
LEMMA Sorted ==
  ASSUME NEW list, NEW first \in Nat, NEW last \in Nat, Ordered(list, first, last),
         \A k \in first + 1 .. last : list[k] \in Nat,
         NEW a \in first + 1 .. last, NEW b \in first + 1 .. last, a <= b
  PROVE  list[a] <= list[b]
<1> DEFINE P == {k \in Nat : list[a] <= list[a + k]}
<1>1. a \in Nat /\ b \in Nat /\ b - a \in Nat /\ a + (b - a) = b
  OBVIOUS
<1>2. 0 \in P
  <2>1. a + 0 = a /\ list[a] \in Nat
    BY <1>1
  <2> QED
    BY <2>1
<1>3. ASSUME NEW k \in 0 .. (b - a) - 1, k \in P PROVE k + 1 \in P
  <2>1. a + k \in first + 1 .. last - 1 /\ (a + k) + 1 = a + (k + 1)
        /\ a + k \in first + 1 .. last /\ a + (k + 1) \in first + 1 .. last
    BY <1>1
  <2>2. list[a + k] <= list[(a + k) + 1]
    BY <2>1 DEF Ordered
  <2>3. list[a] \in Nat /\ list[a + k] \in Nat /\ list[a + (k + 1)] \in Nat
    BY <2>1
  <2> QED
    BY <1>3, <2>1, <2>2, <2>3
<1> HIDE DEF P
<1>4. b - a \in P
  BY <1>1, <1>2, <1>3, InductionUpTo
<1> QED
  BY <1>1, <1>4 DEF P

(* What the assumption says of nodes and their pointers.                   *)
NodesInput(in) ==
  /\ in \in Inputs /\ in.kind = "nodes"

LEMMA PointerFacts ==
  ASSUME NEW in, NodesInput(in)
  PROVE  /\ in.pointers \in Seq(Nat) /\ Len(in.pointers) \in Nat \ {0, 1}
         /\ in.values \in Seq(Nat) /\ Len(in.values) \in Nat \ {0}
         /\ in.pointers[1] = 0 /\ in.pointers[Len(in.pointers)] = Len(in.values)
         /\ \A p \in 1 .. Len(in.pointers) : in.pointers[p] \in Nat
         /\ \A p, q \in 1 .. Len(in.pointers) : p <= q => in.pointers[p] <= in.pointers[q]
         /\ \A p \in 1 .. Len(in.pointers) : in.pointers[p] \in 0 .. Len(in.values)
<1>1. /\ in.pointers \in Seq(Nat) /\ in.values \in Seq(Nat) /\ in.values # <<>>
      /\ in.pointers # <<>> /\ in.pointers[1] = 0 /\ Last(in.pointers) = Len(in.values)
      /\ Ordered(in.pointers, 0, Len(in.pointers))
  BY EfAssumption DEF NodesInput
<1>2. Len(in.values) \in Nat \ {0} /\ Len(in.pointers) \in Nat \ {0}
  BY <1>1
<1>3. in.pointers[Len(in.pointers)] = Len(in.values)
  BY <1>1 DEF Last
<1>4. Len(in.pointers) # 1
  BY <1>1, <1>2, <1>3
<1>5. \A p \in 1 .. Len(in.pointers) : in.pointers[p] \in Nat
  BY <1>1
<1>6. \A p, q \in 1 .. Len(in.pointers) : p <= q => in.pointers[p] <= in.pointers[q]
  <2>1. 0 + 1 = 1
    OBVIOUS
  <2> QED
    BY <1>1, <1>2, <1>5, <2>1, Sorted
<1>7. \A p \in 1 .. Len(in.pointers) : in.pointers[p] \in 0 .. Len(in.values)
  <2> TAKE p \in 1 .. Len(in.pointers)
  <2>1. Len(in.pointers) \in 1 .. Len(in.pointers) /\ p <= Len(in.pointers)
    BY <1>2
  <2> QED
    BY <1>2, <1>3, <1>5, <1>6, <2>1
<1> QED
  BY <1>1, <1>2, <1>3, <1>4, <1>5, <1>6, <1>7

(* Every position is in a range.                                           *)
LEMMA RangeFound ==
  ASSUME NEW in, NodesInput(in), NEW i \in 0 .. Len(in.values) - 1
  PROVE  \E p \in 1 .. Len(in.pointers) - 1 : in.pointers[p] <= i /\ i < in.pointers[p + 1]
<1> DEFINE P == {p \in Nat : p \in 1 .. Len(in.pointers) /\ i < in.pointers[p]}
<1>1. /\ Len(in.pointers) \in Nat \ {0, 1} /\ Len(in.values) \in Nat \ {0}
      /\ in.pointers[1] = 0 /\ in.pointers[Len(in.pointers)] = Len(in.values)
      /\ \A p \in 1 .. Len(in.pointers) : in.pointers[p] \in Nat
  BY PointerFacts
<1>2. Len(in.pointers) \in P /\ P \subseteq Nat
  BY <1>1
<1>3. PICK x \in P : \A y \in P : x <= y
  <2> HIDE DEF P
  <2> QED
    BY <1>2, LeastNatural
<1>4. x # 1
  BY <1>1, <1>3
<1>5. x - 1 \in 1 .. Len(in.pointers) - 1 /\ (x - 1) + 1 = x /\ x - 1 \in Nat
      /\ x - 1 \in 1 .. Len(in.pointers)
  BY <1>1, <1>3, <1>4
<1>6. ~ (i < in.pointers[x - 1])
  <2>1. ~ (x <= x - 1)
    BY <1>3
  <2>2. x - 1 \notin P
    BY <1>3, <2>1
  <2> QED
    BY <1>5, <2>2
<1>7. in.pointers[x - 1] <= i /\ i < in.pointers[x]
  BY <1>1, <1>3, <1>5, <1>6
<1> QED
  BY <1>5, <1>7

(* Raising goes on from a pair: the bound of the range before, and the     *)
(* value that was raised last.                                             *)
RaiseTurn(in, f, i) ==
  IF i = 0 THEN <<0, 0>>
  ELSE LET prev_upper == f[i - 1][IF Nodes!Begins(in.pointers, i) THEN 2 ELSE 1]
       IN  <<prev_upper, in.values[i] + prev_upper>>

Raising(in) == CHOOSE f : f = [i \in 0 .. Len(in.values) |-> RaiseTurn(in, f, i)]

(* The bound of the range before that of a value, and the raised value.    *)
Upper(in, i) == Raising(in)[i][1]
Raised(in, i) == Raising(in)[i][2]

LEMMA RaisingKnown ==
  ASSUME NEW in, NodesInput(in)
  PROVE  /\ Nodes!raised(in.values, in.pointers) = [i \in 1 .. Len(in.values) |-> Raised(in, i)]
         /\ \A i \in 0 .. Len(in.values) : Upper(in, i) \in Nat /\ Raised(in, i) \in Nat
         /\ Upper(in, 0) = 0 /\ Raised(in, 0) = 0
         /\ \A i \in 1 .. Len(in.values) :
              /\ Upper(in, i) = IF Nodes!Begins(in.pointers, i) THEN Raised(in, i - 1)
                                ELSE Upper(in, i - 1)
              /\ Raised(in, i) = in.values[i] + Upper(in, i)
<1> DEFINE len == Len(in.values)
           D == Nat \X Nat
           given(k) == IF k \in 1 .. len THEN in.values[k] ELSE 0
           upper(k, e) == IF Nodes!Begins(in.pointers, k) THEN e[2] ELSE e[1]
           step == [x \in Nat \X D |-> <<upper(x[1] + 1, x[2]),
                                         given(x[1] + 1) + upper(x[1] + 1, x[2])>>]
           F == Raising(in)
<1>1. len \in Nat \ {0} /\ \A i \in 1 .. len : in.values[i] \in Nat
  BY PointerFacts
<1> HIDE DEF len
<1>2. \A k : given(k) \in Nat
  BY <1>1
<1>3. \A k : \A e \in D : upper(k, e) \in Nat /\ upper(k, e) = e[IF Nodes!Begins(in.pointers, k) THEN 2 ELSE 1]
  OBVIOUS
<1> HIDE DEF given, upper
<1>4. /\ step \in [Nat \X D -> D] /\ <<0, 0>> \in D
      /\ \A k \in Nat, e \in D :
           step[<<k, e>>] = <<upper(k + 1, e), given(k + 1) + upper(k + 1, e)>>
  <2>1. \A k, e : e \in D => <<upper(k, e), given(k) + upper(k, e)>> \in D
    BY <1>2, <1>3
  <2>2. \A x \in Nat \X D : x[1] \in Nat /\ x[2] \in D
    OBVIOUS
  <2> HIDE DEF D
  <2>3. step \in [Nat \X D -> D]
    BY <2>1, <2>2
  <2>4. <<0, 0>> \in D
    BY DEF D
  <2> QED
    BY <2>3, <2>4
<1> HIDE DEF step
<1>5. PICK f \in [Nat -> D] : f[0] = <<0, 0>> /\ \A k \in Nat : f[k + 1] = step[<<k, f[k]>>]
  <2>1. Steps(D, <<0, 0>>, step)
    BY <1>4 DEF Steps
  <2>2. HasRecursion(D, <<0, 0>>, step)
    BY <2>1, Recursion
  <2> QED
    BY <2>2 DEF HasRecursion
<1> DEFINE g == [i \in 0 .. len |-> f[i]]
<1>6. g = [i \in 0 .. len |-> RaiseTurn(in, g, i)]
  <2>1. ASSUME NEW i \in 0 .. len PROVE f[i] = RaiseTurn(in, g, i)
    <3>1. CASE i = 0
      BY <1>5, <3>1 DEF RaiseTurn
    <3>2. CASE i # 0
      <4>1. i - 1 \in Nat /\ (i - 1) + 1 = i /\ i - 1 \in 0 .. len /\ i \in 1 .. len
        BY <1>1, <3>2
      <4>2. f[i] = <<upper(i, f[i - 1]), given(i) + upper(i, f[i - 1])>> /\ f[i - 1] \in D
        <5>1. PICK k \in Nat : k = i - 1 /\ k + 1 = i
          BY <4>1
        <5>2. f[k] \in D /\ f[k + 1] = step[<<k, f[k]>>]
          BY <1>5
        <5>3. step[<<k, f[k]>>] = <<upper(k + 1, f[k]), given(k + 1) + upper(k + 1, f[k])>>
          BY <1>4, <5>2
        <5> QED
          BY <5>1, <5>2, <5>3
      <4>3. given(i) = in.values[i]
        BY <4>1 DEF given
      <4>4. upper(i, f[i - 1]) = g[i - 1][IF Nodes!Begins(in.pointers, i) THEN 2 ELSE 1]
        BY <1>3, <4>1, <4>2
      <4> QED
        BY <3>2, <4>2, <4>3, <4>4 DEF RaiseTurn
    <3> QED
      BY <3>1, <3>2
  <2> QED
    BY <2>1
<1>7. F = [i \in 0 .. len |-> RaiseTurn(in, F, i)]
  BY <1>6 DEF Raising, len
<1>8. Nodes!raised(in.values, in.pointers) = [i \in 1 .. Len(in.values) |-> F[i][2]]
  BY DEF Nodes!raised, Raising, RaiseTurn
<1> HIDE DEF F
<1>9. ASSUME NEW i \in 1 .. len
      PROVE  /\ F[i][1] = F[i - 1][IF Nodes!Begins(in.pointers, i) THEN 2 ELSE 1]
             /\ F[i][2] = in.values[i] + F[i][1]
  <2>1. F[i] = RaiseTurn(in, F, i) /\ i # 0
    <3>1. i \in 0 .. len /\ i # 0
      BY <1>1
    <3> QED
      BY <1>7, <3>1
  <2> QED
    BY <2>1 DEF RaiseTurn
<1>10. F[0] = <<0, 0>>
  <2>1. 0 \in 0 .. len
    BY <1>1
  <2> QED
    BY <1>7, <2>1 DEF RaiseTurn
<1> DEFINE P == {i \in Nat : F[i][1] \in Nat /\ F[i][2] \in Nat}
<1>11. 0 \in P
  BY <1>10
<1>12. ASSUME NEW i \in 0 .. len - 1, i \in P PROVE i + 1 \in P
  <2>0. i \in Nat /\ i + 1 <= len
    BY <1>1
  <2>1. i + 1 \in 1 .. len /\ (i + 1) - 1 = i /\ i + 1 \in Nat
    BY <1>1, <2>0
  <2>2. F[i + 1][1] \in Nat
    BY <1>9, <1>12, <2>1
  <2>3. F[i + 1][2] \in Nat
    <3>1. in.values[i + 1] \in Nat
      BY <1>1, <2>1
    <3>2. F[i + 1][2] = in.values[i + 1] + F[i + 1][1]
      BY <1>9, <2>1
    <3> QED
      BY <2>2, <3>1, <3>2
  <2> QED
    BY <2>1, <2>2, <2>3
<1>13. \A i \in 0 .. len : i \in P
  <2> HIDE DEF P
  <2> QED
    BY <1>1, <1>11, <1>12, InductionUpTo
<1>14. \A i \in 0 .. len : Upper(in, i) \in Nat /\ Raised(in, i) \in Nat
  BY <1>13 DEF Upper, Raised, F
<1>15. Upper(in, 0) = 0 /\ Raised(in, 0) = 0
  <2>1. F[0][1] = 0 /\ F[0][2] = 0
    BY <1>10
  <2> QED
    BY <2>1 DEF Upper, Raised, F
<1>16. ASSUME NEW i \in 1 .. len
       PROVE  /\ Upper(in, i) = IF Nodes!Begins(in.pointers, i) THEN Raised(in, i - 1)
                                 ELSE Upper(in, i - 1)
              /\ Raised(in, i) = in.values[i] + Upper(in, i)
  BY <1>9 DEF Upper, Raised, F
<1>17. Nodes!raised(in.values, in.pointers) = [i \in 1 .. Len(in.values) |-> Raised(in, i)]
  BY <1>8 DEF Raised, F
<1> QED
  BY <1>14, <1>15, <1>16, <1>17 DEF len

(* All the values of a range are raised by the last one before it.         *)
LEMMA RaisedInRange ==
  ASSUME NEW in, NodesInput(in), NEW p \in 1 .. Len(in.pointers) - 1,
         NEW i \in in.pointers[p] + 1 .. in.pointers[p + 1]
  PROVE  /\ Upper(in, i) = Raised(in, in.pointers[p])
         /\ Raised(in, i) = in.values[i] + Raised(in, in.pointers[p])
<1> DEFINE len == Len(in.values)
<1>1. /\ Len(in.pointers) \in Nat /\ len \in Nat /\ in.pointers \in Seq(Nat)
      /\ \A q \in 1 .. Len(in.pointers) : in.pointers[q] \in Nat /\ in.pointers[q] \in 0 .. len
      /\ \A q, s \in 1 .. Len(in.pointers) : q <= s => in.pointers[q] <= in.pointers[s]
  BY PointerFacts
<1>2. p \in Nat /\ p \in 1 .. Len(in.pointers) /\ p + 1 \in 1 .. Len(in.pointers)
  BY <1>1
<1>3. PICK a \in Nat, b \in Nat : a = in.pointers[p] /\ b = in.pointers[p + 1] /\ b <= len
  BY <1>1, <1>2
<1>4. \A k \in 1 .. len :
        /\ Upper(in, k) = IF Nodes!Begins(in.pointers, k) THEN Raised(in, k - 1)
                          ELSE Upper(in, k - 1)
        /\ Raised(in, k) = in.values[k] + Upper(in, k)
  BY RaisingKnown
<1> HIDE DEF len
<1>5. i \in a + 1 .. b /\ a < b /\ i \in Nat
  BY <1>3
<1>6. Upper(in, a + 1) = Raised(in, a)
  <2>1. a + 1 \in 1 .. len /\ (a + 1) - 1 = a
    BY <1>1, <1>3, <1>5, SMTT(30)
  <2>2. Nodes!Begins(in.pointers, a + 1)
    <3>1. p \in DOMAIN in.pointers
      BY <1>1, <1>2
    <3> QED
      BY <1>3, <2>1, <3>1 DEF Nodes!Begins
  <2> QED
    BY <1>4, <2>1, <2>2
<1> DEFINE P == {k \in Nat : Upper(in, (a + 1) + k) = Raised(in, a)}
<1>7. 0 \in P
  <2>1. (a + 1) + 0 = a + 1
    OBVIOUS
  <2> QED
    BY <1>6, <2>1
<1>8. ASSUME NEW k \in 0 .. (b - (a + 1)) - 1, k \in P PROVE k + 1 \in P
  <2> DEFINE c == (a + 1) + (k + 1)
  <2>0. k \in Nat /\ (a + 1) + (k + 1) <= b
    BY <1>5
  <2>1. k \in Nat /\ c \in 1 .. len /\ c - 1 = (a + 1) + k /\ k + 1 \in Nat
        /\ a < c - 1 /\ c - 1 < b /\ c \in Nat
    <3>1. PICK m \in Nat : m = len /\ b <= m
      BY <1>1, <1>3
    <3>2. c \in 1 .. m
      BY <2>0, <3>1
    <3>3. c - 1 = (a + 1) + k /\ k + 1 \in Nat /\ a < c - 1 /\ c - 1 < b /\ c \in Nat
      BY <2>0
    <3> HIDE DEF c
    <3> QED
      BY <2>0, <3>1, <3>2, <3>3
  <2> HIDE DEF c
  <2>2. ~ Nodes!Begins(in.pointers, c)
    <3> SUFFICES ASSUME NEW q \in DOMAIN in.pointers, in.pointers[q] = c - 1 PROVE FALSE
      BY DEF Nodes!Begins
    <3>1. q \in 1 .. Len(in.pointers) /\ q \in Nat
      <4>1. DOMAIN in.pointers = 1 .. Len(in.pointers)
        BY <1>1
      <4> QED
        BY <4>1
    <3>2. CASE q <= p
      <4>1. in.pointers[q] <= a
        BY <1>1, <1>2, <1>3, <3>1, <3>2
      <4> QED
        BY <2>1, <4>1
    <3>3. CASE ~ (q <= p)
      <4>1. p + 1 <= q
        BY <1>2, <3>1, <3>3
      <4>2. b <= in.pointers[q]
        BY <1>1, <1>2, <1>3, <3>1, <4>1
      <4> QED
        BY <1>3, <2>1, <4>2
    <3> QED
      BY <3>2, <3>3
  <2>3. Upper(in, c) = Upper(in, c - 1)
    BY <1>4, <2>1, <2>2
  <2>4. Upper(in, (a + 1) + k) = Raised(in, a)
    BY <1>8
  <2>5. Upper(in, (a + 1) + (k + 1)) = Raised(in, a)
    BY <2>1, <2>3, <2>4 DEF c
  <2> QED
    BY <2>1, <2>5
<1>9. i - (a + 1) \in 0 .. b - (a + 1) /\ b - (a + 1) \in Nat /\ (a + 1) + (i - (a + 1)) = i
  BY <1>5
<1>10. i - (a + 1) \in P
  <2> HIDE DEF P
  <2> QED
    BY <1>7, <1>8, <1>9, InductionUpTo
<1>11. Upper(in, i) = Raised(in, a) /\ i \in 1 .. len
  <2>1. Upper(in, (a + 1) + (i - (a + 1))) = Raised(in, a)
    BY <1>10
  <2>2. i \in 1 .. len
    BY <1>1, <1>3, <1>5, SMTT(30)
  <2> QED
    BY <1>9, <2>1, <2>2
<1> QED
  BY <1>3, <1>4, <1>11

(* The raised values never go down.                                        *)
LEMMA RaisedGrows ==
  ASSUME NEW in, NodesInput(in), NEW i \in 1 .. Len(in.values) - 1
  PROVE  Raised(in, i) <= Raised(in, i + 1)
<1>1. /\ Len(in.pointers) \in Nat /\ Len(in.values) \in Nat
      /\ \A q \in 1 .. Len(in.pointers) : in.pointers[q] \in Nat /\ in.pointers[q] \in 0 .. Len(in.values)
      /\ in.values \in Seq(Nat)
  BY PointerFacts
<1>2. \A k \in 0 .. Len(in.values) : Raised(in, k) \in Nat
  BY RaisingKnown
<1>3. i \in 0 .. Len(in.values) - 1 /\ i \in Nat /\ i + 1 \in 1 .. Len(in.values)
      /\ i \in 0 .. Len(in.values) /\ i \in 1 .. Len(in.values)
  BY <1>1
<1>4. PICK p \in 1 .. Len(in.pointers) - 1 : in.pointers[p] <= i /\ i < in.pointers[p + 1]
  BY <1>3, RangeFound
<1>5. p \in 1 .. Len(in.pointers) /\ p + 1 \in 1 .. Len(in.pointers)
  BY <1>1
<1>6. PICK a \in Nat, b \in Nat : a = in.pointers[p] /\ b = in.pointers[p + 1] /\ a <= i /\ i < b
  BY <1>1, <1>4, <1>5
<1>7. i + 1 \in in.pointers[p] + 1 .. in.pointers[p + 1]
  BY <1>3, <1>6
<1>8. Raised(in, i + 1) = in.values[i + 1] + Raised(in, a)
  BY <1>6, <1>7, RaisedInRange
<1>9. in.values[i + 1] \in Nat /\ in.values[i] \in Nat /\ Raised(in, i) \in Nat
      /\ Raised(in, a) \in Nat
  <2>1. a \in 0 .. Len(in.values)
    BY <1>3, <1>6
  <2>2. \A k \in 1 .. Len(in.values) : in.values[k] \in Nat
    BY <1>1, SMTT(30)
  <2> QED
    BY <1>2, <1>3, <2>1, <2>2
<1>10. CASE i = a
  BY <1>8, <1>9, <1>10
<1>11. CASE i # a
  <2>1. i \in in.pointers[p] + 1 .. in.pointers[p + 1] /\ i \in in.pointers[p] + 1 .. in.pointers[p + 1] - 1
    BY <1>3, <1>6, <1>11
  <2>2. Raised(in, i) = in.values[i] + Raised(in, a)
    BY <1>6, <2>1, RaisedInRange
  <2>3. in.values[i] <= in.values[i + 1]
    <3>1. Ordered(in.values, in.pointers[p], in.pointers[p + 1])
      BY EfAssumption DEF NodesInput
    <3> QED
      BY <2>1, <3>1 DEF Ordered
  <2> QED
    BY <1>8, <1>9, <2>2, <2>3
<1> QED
  BY <1>10, <1>11

(* As every value is below a bound, their sums are below its multiples.    *)
LEMMA RaisedBounded ==
  ASSUME NEW in, NodesInput(in), NEW m \in Nat, \A k \in 1 .. Len(in.values) : in.values[k] <= m,
         NEW i \in 0 .. Len(in.values)
  PROVE  Raised(in, i) <= m * i
<1> DEFINE len == Len(in.values)
           P == {k \in Nat : Upper(in, k) <= m * k /\ Raised(in, k) <= m * k}
<1>1. /\ len \in Nat /\ \A k \in 0 .. len : Upper(in, k) \in Nat /\ Raised(in, k) \in Nat
      /\ Upper(in, 0) = 0 /\ Raised(in, 0) = 0
      /\ \A k \in 1 .. len :
           /\ Upper(in, k) = Raised(in, k - 1) \/ Upper(in, k) = Upper(in, k - 1)
           /\ Raised(in, k) = in.values[k] + Upper(in, k)
  BY RaisingKnown, PointerFacts
<1>2. \A k \in 1 .. len : in.values[k] \in Nat /\ in.values[k] <= m
  BY PointerFacts
<1> HIDE DEF len
<1>3. 0 \in P
  <2>1. m * 0 = 0
    OBVIOUS
  <2> QED
    BY <1>1, <2>1
<1>4. ASSUME NEW k \in 0 .. len - 1, k \in P PROVE k + 1 \in P
  <2>0. k \in Nat /\ k + 1 <= len
    BY <1>1
  <2>1. k + 1 \in 1 .. len /\ (k + 1) - 1 = k /\ k + 1 \in Nat /\ k + 1 \in 0 .. len /\ k \in 0 .. len
    BY <1>1, <2>0
  <2>2. m * k \in Nat /\ m * (k + 1) = m * k + m
    BY <2>0
  <2>3. Upper(in, k + 1) <= m * k /\ Upper(in, k + 1) \in Nat
    <3>1. Upper(in, k + 1) = Raised(in, k) \/ Upper(in, k + 1) = Upper(in, k)
      BY <1>1, <2>1
    <3> QED
      BY <1>1, <1>4, <2>1, <3>1
  <2>4. Raised(in, k + 1) <= m * (k + 1)
    <3>1. Raised(in, k + 1) = in.values[k + 1] + Upper(in, k + 1)
      BY <1>1, <2>1
    <3>2. in.values[k + 1] \in Nat /\ in.values[k + 1] <= m
      BY <1>2, <2>1
    <3> QED
      BY <2>2, <2>3, <3>1, <3>2
  <2> QED
    BY <2>1, <2>2, <2>3, <2>4
<1>5. i \in P
  <2> HIDE DEF P
  <2> QED
    BY <1>1, <1>3, <1>4, InductionUpTo DEF len
<1> QED
  BY <1>5

(* What a sequence is made of: pointers as they are, nodes raised.         *)
ValueIn(in, k) == IF in.kind = "nodes" THEN Raised(in, k + 1) ELSE in.values[k + 1]

LEMMA ValuesInOrder ==
  ASSUME NEW in \in Inputs
  PROVE  LET len == Len(in.values) IN
         /\ len \in Nat \ {0}
         /\ \A k \in 0 .. len - 1 : ValueIn(in, k) \in Nat
         /\ \A j, k \in 0 .. len - 1 : j <= k => ValueIn(in, j) <= ValueIn(in, k)
         /\ ValueIn(in, len - 1) \div len \in Nat /\ ValueIn(in, len - 1) \div len < power[word_width]
<1> DEFINE len == Len(in.values)
           last == ValueIn(in, len - 1)
           list == [k \in 1 .. len |-> ValueIn(in, k - 1)]
<1>0. word_width \in Nat /\ power[word_width] \in Nat \ {0}
  BY WordsAssumption, Powers
<1>1. /\ len \in Nat \ {0} /\ in.kind \in {"nodes", "pointers"} /\ in.width \in 0 .. word_width
      /\ \A k \in 1 .. len : in.values[k] \in Nat /\ in.values[k] < power[in.width]
      /\ in.kind = "pointers" => Ordered(in.values, 0, len)
  BY EfAssumption
<1>2. \A k \in 1 .. len : in.values[k] < power[word_width]
  <2>1. power[in.width] <= power[word_width] /\ power[in.width] \in Nat
    <3>1. PICK w \in Nat : w = in.width /\ w <= word_width
      BY <1>0, <1>1
    <3> QED
      BY <1>0, <3>1, Powers, PowersOrdered
  <2> QED
    BY <1>0, <1>1, <2>1
<1>3. \A k \in 0 .. len - 1 : k + 1 \in 1 .. len /\ (k + 1) - 1 = k
  BY <1>1
<1>4. /\ \A k \in 0 .. len - 1 : ValueIn(in, k) \in Nat
      /\ \A k \in 1 .. len - 1 : ValueIn(in, k - 1) <= ValueIn(in, k)
  <2>1. CASE in.kind = "nodes"
    <3>1. NodesInput(in)
      BY <2>1 DEF NodesInput
    <3>2. \A k \in 0 .. len : Raised(in, k) \in Nat
      BY <3>1, RaisingKnown
    <3>3. \A k \in 1 .. len - 1 : Raised(in, k) <= Raised(in, k + 1)
      BY <3>1, RaisedGrows
    <3>4. \A k : ValueIn(in, k) = Raised(in, k + 1)
      BY <2>1 DEF ValueIn
    <3>5. \A k \in 0 .. len - 1 : k + 1 \in 0 .. len
      BY <1>1
    <3>6. \A k \in 1 .. len - 1 : (k - 1) + 1 = k
      OBVIOUS
    <3> QED
      BY <3>2, <3>3, <3>4, <3>5, <3>6
  <2>2. CASE in.kind # "nodes"
    <3>1. \A k : ValueIn(in, k) = in.values[k + 1]
      BY <2>2 DEF ValueIn
    <3>2. \A k \in 1 .. len - 1 : in.values[k] <= in.values[k + 1]
      <4>1. 0 + 1 = 1
        OBVIOUS
      <4> QED
        BY <1>1, <2>2, <4>1 DEF Ordered
    <3>3. \A k \in 1 .. len - 1 : (k - 1) + 1 = k
      OBVIOUS
    <3> QED
      BY <1>1, <1>3, <3>1, <3>2, <3>3
  <2> QED
    BY <2>1, <2>2
<1> HIDE DEF len
<1>5. ASSUME NEW j \in 0 .. len - 1, NEW k \in 0 .. len - 1, j <= k
      PROVE  ValueIn(in, j) <= ValueIn(in, k)
  <2>1. \A i \in 1 .. len : list[i] = ValueIn(in, i - 1)
    OBVIOUS
  <2>2. \A i \in 1 .. len : i - 1 \in 0 .. len - 1
    BY <1>1
  <2>3. \A i \in 1 .. len : list[i] \in Nat
    BY <1>4, <2>1, <2>2
  <2>4. Ordered(list, 0, len)
    <3> SUFFICES ASSUME NEW i \in 1 .. len - 1 PROVE list[i] <= list[i + 1]
      BY DEF Ordered
    <3>1. i \in 1 .. len /\ i + 1 \in 1 .. len /\ (i + 1) - 1 = i
      BY <1>1
    <3> QED
      BY <1>4, <2>1, <3>1
  <2> HIDE DEF list
  <2>5. j + 1 \in 1 .. len /\ k + 1 \in 1 .. len /\ j + 1 <= k + 1
    BY <1>3, <1>5
  <2>6. list[j + 1] <= list[k + 1]
    <3>1. 0 + 1 = 1
      OBVIOUS
    <3> QED
      BY <1>1, <2>3, <2>4, <2>5, <3>1, Sorted
  <2> QED
    BY <1>3, <2>1, <2>5, <2>6
<1>6. last \in Nat /\ len - 1 \in 0 .. len - 1 /\ (len - 1) + 1 = len
  BY <1>1, <1>4
<1>7. PICK q \in Nat, r \in Nat : q = last \div len /\ last = len * q + r
  <2>1. PICK b \in Nat \ {0} : b = len
    BY <1>1
  <2>2. PICK q \in Nat, r \in 0 .. b - 1 : q = last \div b /\ last = b * q + r
    BY <1>6, Division, ZenonT(40)
  <2> QED
    BY <2>1, <2>2
<1>8. last <= len * (power[word_width] - 1)
  <2> DEFINE m == power[word_width] - 1
  <2>1. m \in Nat
    BY <1>0
  <2>2. \A k \in 1 .. len : in.values[k] <= m
    BY <1>0, <1>1, <1>2
  <2> HIDE DEF m
  <2>3. m * len = len * m /\ len * m \in Nat /\ m <= len * m
    <3>1. len * m = m + (len - 1) * m /\ (len - 1) * m \in Nat /\ m * len = len * m
      BY <1>1, <2>1
    <3> QED
      BY <2>1, <3>1
  <2>4. CASE in.kind = "nodes"
    <3>1. NodesInput(in)
      BY <2>4 DEF NodesInput
    <3>2. len \in 0 .. len
      BY <1>1
    <3>3. Raised(in, len) <= m * len
      BY <2>1, <2>2, <3>1, <3>2, RaisedBounded DEF len
    <3> QED
      BY <1>6, <2>3, <2>4, <3>3 DEF ValueIn, m
  <2>5. CASE in.kind # "nodes"
    <3>1. last = in.values[len]
      BY <1>6, <2>5 DEF ValueIn
    <3>2. len \in 1 .. len
      BY <1>1
    <3>3. last <= m
      BY <2>2, <3>1, <3>2
    <3> QED
      BY <1>6, <2>1, <2>3, <3>3 DEF m
  <2> QED
    BY <2>4, <2>5
<1>9. q < power[word_width]
  <2>1. PICK w \in Nat : w = power[word_width] - 1
    BY <1>0
  <2>2. len * q \in Nat /\ len * w \in Nat /\ len * q <= len * w /\ len * (w + 1) = len * w + len
    BY <1>1, <1>6, <1>7, <1>8, <2>1
  <2>3. len * q < len * (w + 1)
    BY <1>1, <2>2
  <2>4. w + 1 \in Nat /\ w + 1 = power[word_width]
    BY <1>0, <2>1
  <2>5. q < w + 1
    BY <1>1, <2>3, <2>4, MultiplesOrdered
  <2> QED
    BY <2>4, <2>5
<1> QED
  BY <1>1, <1>4, <1>5, <1>7, <1>9 DEF len

-----------------------------------------------------------------------------
(* The builder of the pointers holds them.                                 *)
LEMMA PointersStored ==
  ASSUME NodesInput(input)
  PROVE  /\ Vector(pointers) /\ pointers.size = Len(input.pointers)
         /\ \A r \in 0 .. Len(input.pointers) - 1 :
              enumerator_value(pointers, enumerator(pointers, r)) = input.pointers[r + 1]
<1> DEFINE P == input.pointers
           last == Last(P)
           w == ceil_log2(last + 1)
           cv == resized(Len(P), w)
<1>1. /\ P \in Seq(Nat) /\ Len(P) \in Nat \ {0, 1} /\ last = n /\ n \in Nat
      /\ \A p \in 1 .. Len(P) : P[p] \in Nat /\ P[p] \in 0 .. n
  <2>1. Last(P) = Len(input.values)
    BY EfAssumption DEF NodesInput
  <2> QED
    BY <2>1, PointerFacts DEF n
<1>2. n < power[word_width]
  BY EfAssumption DEF NodesInput, n
<1>3. w \in 0 .. word_width /\ \A v \in 0 .. n : v < power[w]
  BY <1>1, <1>2, WidthKnown
<1>4. pointers = fill(cv, P)
  BY DEF pointers
<1> HIDE DEF w
<1>5. Vector(cv) /\ cv.size = Len(P) /\ cv.mask = Mask(w) /\ cv.cur = cursor_at(0)
  BY <1>1, <1>3, VectorResized
<1> HIDE DEF cv, last
<1>6. ASSUME NEW k \in 1 .. cv.size PROVE VectorFits(cv, P[k])
  <2>1. P[k] \in 0 .. n /\ P[k] \in Nat
    BY <1>1, <1>5
  <2>2. P[k] < power[w] /\ P[k] < power[word_width]
    <3>1. power[word_width] \in Nat
      BY Powers, WordsAssumption
    <3> QED
      BY <1>1, <1>2, <1>3, <2>1, <3>1
  <2>3. bits_of(P[k]) \subseteq Mask(w)
    BY <1>3, <2>1, <2>2, BitsWithin
  <2> QED
    BY <1>5, <2>1, <2>2, <2>3 DEF VectorFits
<1>7. /\ Vector(fill(cv, P)) /\ fill(cv, P).size = cv.size /\ fill(cv, P).mask = cv.mask
      /\ \A i \in 0 .. cv.size - 1 : VectorHolds(fill(cv, P), i, P[i + 1])
  BY <1>1, <1>5, <1>6, FillStores
<1>8. ASSUME NEW r \in 0 .. Len(P) - 1
      PROVE  enumerator_value(pointers, enumerator(pointers, r)) = P[r + 1]
  <2>1. r \in 0 .. pointers.size - 1 /\ r + 1 \in 1 .. cv.size /\ r \in 0 .. cv.size - 1
    BY <1>1, <1>4, <1>5, <1>7
  <2>2. VectorFits(pointers, P[r + 1])
    BY <1>4, <1>6, <1>7, <2>1 DEF VectorFits
  <2> QED
    BY <1>4, <1>7, <2>1, <2>2, EnumeratorReads
<1> QED
  BY <1>4, <1>5, <1>7, <1>8

(* The locals of build while it raises nodes, and updates of some of them. *)
Locals(b, v, w, u, p, e, r) ==
  [begin |-> b, values |-> v, within |-> w, prev_upper |-> u, pointers_it |-> p, end |-> e,
   run |-> r]

Moved(x, p, e, r) == [x EXCEPT !.pointers_it = p, !.end = e, !.run = r]
Restarted(x, w, u) == [x EXCEPT !.within = w, !.prev_upper = u]
Pushed(x, v, w, b) == [x EXCEPT !.values = v, !.within = w, !.begin = b]

LEMMA LocalsUpdated ==
  ASSUME NEW b, NEW v, NEW w, NEW u, NEW p, NEW e, NEW r
  PROVE  /\ \A p2, e2, r2 :
              Moved(Locals(b, v, w, u, p, e, r), p2, e2, r2) = Locals(b, v, w, u, p2, e2, r2)
         /\ \A w2, u2 : Restarted(Locals(b, v, w, u, p, e, r), w2, u2) = Locals(b, v, w2, u2, p, e, r)
         /\ \A v2, w2, b2 :
              Pushed(Locals(b, v, w, u, p, e, r), v2, w2, b2) = Locals(b2, v2, w2, u, p, e, r)
<1> DEFINE B(x, y) == [x EXCEPT !.begin = y]
           V(x, y) == [x EXCEPT !.values = y]
           W(x, y) == [x EXCEPT !.within = y]
           U(x, y) == [x EXCEPT !.prev_upper = y]
           P(x, y) == [x EXCEPT !.pointers_it = y]
           E(x, y) == [x EXCEPT !.end = y]
           R(x, y) == [x EXCEPT !.run = y]
           Sets(b1, v1, w1, u1, p1, e1, r1) ==
             \A y : /\ B(Locals(b1, v1, w1, u1, p1, e1, r1), y) = Locals(y, v1, w1, u1, p1, e1, r1)
                     /\ V(Locals(b1, v1, w1, u1, p1, e1, r1), y) = Locals(b1, y, w1, u1, p1, e1, r1)
                     /\ W(Locals(b1, v1, w1, u1, p1, e1, r1), y) = Locals(b1, v1, y, u1, p1, e1, r1)
                     /\ U(Locals(b1, v1, w1, u1, p1, e1, r1), y) = Locals(b1, v1, w1, y, p1, e1, r1)
                     /\ P(Locals(b1, v1, w1, u1, p1, e1, r1), y) = Locals(b1, v1, w1, u1, y, e1, r1)
                     /\ E(Locals(b1, v1, w1, u1, p1, e1, r1), y) = Locals(b1, v1, w1, u1, p1, y, r1)
                     /\ R(Locals(b1, v1, w1, u1, p1, e1, r1), y) = Locals(b1, v1, w1, u1, p1, e1, y)
<1>1. \A b1, v1, w1, u1, p1, e1, r1 : Sets(b1, v1, w1, u1, p1, e1, r1)
  BY DEF Locals
<1>2. /\ \A x, p2, e2, r2 : Moved(x, p2, e2, r2) = R(E(P(x, p2), e2), r2)
      /\ \A x, w2, u2 : Restarted(x, w2, u2) = U(W(x, w2), u2)
      /\ \A x, v2, w2, b2 : Pushed(x, v2, w2, b2) = B(W(V(x, v2), w2), b2)
  BY DEF Moved, Restarted, Pushed
<1> HIDE DEF B, V, W, U, P, E, R
<1> QED
  BY <1>1, <1>2

(* The first c nodes, raised.                                              *)
RaisedValues(c) == [k \in 1 .. c |-> Raised(input, k)]

(* The locals of build after c nodes, in the r-th range or at its end.     *)
RaisingBuild(r, c) ==
  Locals(enumerator(from, c), RaisedValues(c), c - input.pointers[r],
         Raised(input, input.pointers[r]), enumerator_read(pointers, enumerator(pointers, r)),
         input.pointers[r + 1], input.pointers[r + 1] - input.pointers[r])

(* The next run is that of the range that begins where this one ends, and  *)
(* is not empty.                                                           *)
LEMMA NextRun ==
  ASSUME NodesInput(input), NEW r \in 1 .. Len(input.pointers) - 1, input.pointers[r + 1] < n
  PROVE  \E q \in 1 .. Len(input.pointers) - 1 :
           /\ input.pointers[q] = input.pointers[r + 1]
           /\ input.pointers[q] < input.pointers[q + 1]
           /\ next_run(RaisingBuild(r, input.pointers[r + 1]))
                = RaisingBuild(q, input.pointers[r + 1])
<1> DEFINE P == input.pointers
           c == P[r + 1]
           E(j) == enumerator_value(pointers, enumerator(pointers, j))
           It(j) == enumerator_read(pointers, enumerator(pointers, j))
           B == enumerator(from, c)
           V == RaisedValues(c)
           W == c - P[r]
           U == Raised(input, P[r])
           Rec(j) == Locals(B, V, W, U, It(j), E(j), E(j) - E(j - 1))
           turn(x) == Moved(x, enumerator_read(pointers, enumerator_next(x.pointers_it)),
                            enumerator_value(pointers, enumerator_next(x.pointers_it)),
                            enumerator_value(pointers, enumerator_next(x.pointers_it)) - x.end)
           b == RaisingBuild(r, c)
           S == CHOOSE f : f = [k \in Nat |-> turn(IF k = 0 THEN b ELSE f[k - 1])]
<1>1. /\ Len(P) \in Nat \ {0, 1} /\ n \in Nat \ {0}
      /\ \A p \in 1 .. Len(P) : P[p] \in Nat
      /\ \A p, q \in 1 .. Len(P) : p <= q => P[p] <= P[q]
  BY PointerFacts DEF n
<1>2. /\ Vector(pointers)
      /\ \A j \in 0 .. Len(P) - 1 : E(j) = P[j + 1]
  BY PointersStored
<1> HIDE DEF E
<1>3. \A j \in Nat : enumerator_next(It(j)) = enumerator(pointers, j + 1)
  BY <1>2, EnumeratorSteps
<1> HIDE DEF It
<1>4. r \in Nat /\ r + 1 \in 1 .. Len(P) /\ r \in 1 .. Len(P) /\ c \in Nat /\ P[r] \in Nat
  BY <1>1
<1>5. b = Rec(r)
  <2>1. E(r) = P[r + 1] /\ E(r - 1) = P[r]
    <3>1. r \in 0 .. Len(P) - 1 /\ r - 1 \in 0 .. Len(P) - 1 /\ (r - 1) + 1 = r
      BY <1>1, <1>4
    <3> QED
      BY <1>2, <3>1
  <2> QED
    BY <2>1 DEF RaisingBuild, It, Locals
<1> HIDE DEF B, V, W, U, b, c
<1>6. ASSUME NEW j \in Nat PROVE turn(Rec(j)) = Rec(j + 1)
  <2>1. enumerator_next(It(j)) = enumerator(pointers, j + 1)
    BY <1>3
  <2>2. enumerator_read(pointers, enumerator(pointers, j + 1)) = It(j + 1)
        /\ enumerator_value(pointers, enumerator(pointers, j + 1)) = E(j + 1)
    BY DEF It, E
  <2>3. (j + 1) - 1 = j
    OBVIOUS
  <2>4. turn(Rec(j)) = Moved(Rec(j), It(j + 1), E(j + 1), E(j + 1) - E(j))
    <3>1. Rec(j).pointers_it = It(j) /\ Rec(j).end = E(j)
      BY DEF Locals
    <3> HIDE DEF Rec
    <3> QED
      BY <2>1, <2>2, <3>1
  <2>5. Rec(j + 1) = Locals(B, V, W, U, It(j + 1), E(j + 1), E(j + 1) - E(j))
    BY <2>3
  <2>6. Moved(Rec(j), It(j + 1), E(j + 1), E(j + 1) - E(j))
          = Locals(B, V, W, U, It(j + 1), E(j + 1), E(j + 1) - E(j))
    BY LocalsUpdated
  <2> HIDE DEF turn, Rec
  <2> QED
    BY <2>4, <2>5, <2>6
<1> HIDE DEF turn, Rec
<1> DEFINE f == [k \in Nat |-> Rec((r + 1) + k)]
<1>7. f = [k \in Nat |-> turn(IF k = 0 THEN b ELSE f[k - 1])]
  <2>1. ASSUME NEW k \in Nat PROVE f[k] = turn(IF k = 0 THEN b ELSE f[k - 1])
    <3>1. CASE k = 0
      <4>1. f[k] = Rec(r + 1)
        BY <1>4, <3>1
      <4> QED
        BY <1>4, <1>5, <1>6, <3>1, <4>1
    <3>2. CASE k # 0
      <4>1. k - 1 \in Nat /\ (r + 1) + (k - 1) \in Nat
            /\ ((r + 1) + (k - 1)) + 1 = (r + 1) + k
        BY <1>4, <3>2
      <4>2. f[k - 1] = Rec((r + 1) + (k - 1)) /\ f[k] = Rec((r + 1) + k)
        BY <4>1
      <4> QED
        BY <1>6, <3>2, <4>1, <4>2
    <3> QED
      BY <3>1, <3>2
  <2> QED
    BY <2>1
<1>8. S = [k \in Nat |-> turn(IF k = 0 THEN b ELSE S[k - 1])]
  BY <1>7
<1>9. next_run(b) =
        LET found == CHOOSE k \in 0 .. Len(P) :
                       S[k].run # 0 /\ \A j \in 0 .. k - 1 : S[j].run = 0
        IN  [S[found] EXCEPT !.within = 0,
               !.prev_upper = IF b.values = <<>> THEN 0 ELSE Last(b.values)]
  BY DEF next_run, turn, Moved
<1> HIDE DEF S
<1>10. ASSUME NEW k \in Nat PROVE S[k] = Rec((r + 1) + k)
  <2> DEFINE Q == {j \in Nat : S[j] = Rec((r + 1) + j)}
  <2>1. 0 \in Q
    BY <1>4, <1>5, <1>6, <1>8
  <2>2. ASSUME NEW j \in 0 .. k - 1, j \in Q PROVE j + 1 \in Q
    <3>1. j \in Nat /\ j + 1 \in Nat /\ j + 1 # 0 /\ (j + 1) - 1 = j
          /\ (r + 1) + j \in Nat /\ ((r + 1) + j) + 1 = (r + 1) + (j + 1)
      BY <1>4
    <3>2. S[j + 1] = turn(S[j])
      BY <1>8, <3>1
    <3> QED
      BY <1>6, <2>2, <3>1, <3>2
  <2> HIDE DEF Q
  <2>3. k \in 0 .. k
    OBVIOUS
  <2>4. k \in Q
    BY <2>1, <2>2, <2>3, InductionUpTo
  <2> QED
    BY <2>4 DEF Q
<1>11. \A k \in Nat : (r + 1) + k < Len(P) => S[k].run = P[(r + 1) + k + 1] - P[(r + 1) + k]
  <2> TAKE k \in Nat
  <2>1. HAVE (r + 1) + k < Len(P)
  <2>2. (r + 1) + k \in 0 .. Len(P) - 1 /\ ((r + 1) + k) - 1 \in 0 .. Len(P) - 1
        /\ (((r + 1) + k) - 1) + 1 = (r + 1) + k
    BY <1>1, <1>4, <2>1
  <2>3. E((r + 1) + k) = P[(r + 1) + k + 1] /\ E(((r + 1) + k) - 1) = P[(r + 1) + k]
    BY <1>2, <2>2
  <2>4. Rec((r + 1) + k).run = E((r + 1) + k) - E(((r + 1) + k) - 1)
    BY DEF Rec, Locals
  <2> QED
    BY <1>10, <2>3, <2>4
<1>12. PICK q \in 1 .. Len(P) - 1 : P[q] <= c /\ c < P[q + 1]
  <2>1. c \in 0 .. Len(input.values) - 1
    BY <1>1, <1>4 DEF n, c
  <2> QED
    BY <2>1, RangeFound
<1>13. q >= r + 1
  <2>1. CASE q + 1 <= r + 1
    <3>1. q + 1 \in 1 .. Len(P) /\ P[q + 1] <= P[r + 1]
      BY <1>1, <1>4, <2>1
    <3> QED
      BY <1>1, <1>4, <1>12, <3>1 DEF c
  <2> QED
    BY <1>1, <1>4, <2>1
<1> DEFINE T == {p \in Nat : r + 1 <= p /\ p < Len(P) /\ P[p + 1] - P[p] # 0}
<1>14. PICK t \in T : \A p \in T : t <= p
  <2>1. T \subseteq Nat
    OBVIOUS
  <2>2. q \in T
    <3>1. q \in Nat /\ q < Len(P) /\ P[q] \in Nat /\ P[q + 1] \in Nat
      BY <1>1
    <3> QED
      BY <1>4, <1>12, <1>13, <3>1
  <2> HIDE DEF T
  <2> QED
    BY <2>1, <2>2, LeastNatural
<1>15. /\ t \in Nat /\ r + 1 <= t /\ t < Len(P) /\ P[t + 1] - P[t] # 0
       /\ \A p \in Nat : r + 1 <= p /\ p < t => P[p + 1] - P[p] = 0
  <2>1. ASSUME NEW p \in Nat, r + 1 <= p, p < t PROVE P[p + 1] - P[p] = 0
    <3>1. p < Len(P) /\ ~ (t <= p)
      BY <1>1, <1>14, <2>1
    <3> QED
      BY <1>14, <2>1, <3>1
  <2> QED
    BY <1>14, <2>1
<1>16. t <= q
  <2>1. q \in Nat /\ P[q] \in Nat /\ P[q + 1] \in Nat
    BY <1>1
  <2>2. CASE q < t
    <3>1. P[q + 1] - P[q] = 0
      BY <1>13, <1>15, <2>1, <2>2
    <3> QED
      BY <1>4, <1>12, <2>1, <3>1
  <2> QED
    BY <1>15, <2>1, <2>2
<1> HIDE DEF T
<1>17. /\ t \in 1 .. Len(P) - 1 /\ t \in 1 .. Len(P) /\ t + 1 \in 1 .. Len(P)
       /\ P[t] = c /\ P[t + 1] > P[t]
  <2>1. t \in 1 .. Len(P) - 1 /\ t \in 1 .. Len(P) /\ t + 1 \in 1 .. Len(P)
    BY <1>1, <1>4, <1>15, SMTT(30)
  <2>2. q \in 1 .. Len(P) /\ q \in Nat
    BY <1>1
  <2>3. P[r + 1] <= P[t] /\ P[t] <= P[q] /\ P[t] <= P[t + 1]
    BY <1>1, <1>4, <1>15, <1>16, <2>1, <2>2
  <2>4. P[t] \in Nat /\ P[t + 1] \in Nat /\ P[q] \in Nat /\ P[r + 1] = c
    BY <1>1, <1>4, <2>1, <2>2 DEF c
  <2>5. P[t] = c
    <3>1. P[q] <= c /\ c \in Nat
      BY <1>4, <1>12
    <3>2. c <= P[t]
      BY <2>3, <2>4
    <3> QED
      BY <2>3, <2>4, <3>1, <3>2
  <2> QED
    BY <1>15, <2>1, <2>3, <2>4, <2>5
<1>18. PICK m \in Nat : m = t - (r + 1) /\ (r + 1) + m = t
  BY <1>4, <1>15
<1>26. ASSUME NEW k \in 0 .. Len(P)
       PROVE  (S[k].run # 0 /\ \A j \in 0 .. k - 1 : S[j].run = 0) <=> k = m
  <2>1. ASSUME NEW j \in 0 .. m - 1 PROVE S[j].run = 0
    <3>1. j \in Nat /\ (r + 1) + j \in Nat /\ r + 1 <= (r + 1) + j /\ (r + 1) + j < t
          /\ (r + 1) + j < Len(P)
      BY <1>1, <1>4, <1>15, <1>18
    <3>2. P[((r + 1) + j) + 1] - P[(r + 1) + j] = 0
      BY <1>15, <3>1
    <3> QED
      BY <1>11, <3>1, <3>2
  <2>2. S[m].run # 0
    <3>1. S[m].run = P[((r + 1) + m) + 1] - P[(r + 1) + m]
      BY <1>11, <1>15, <1>18
    <3> QED
      BY <1>15, <1>18, <3>1
  <2>3. CASE k < m
    <3>1. k \in 0 .. m - 1
      BY <1>18, <2>3
    <3>2. S[k].run = 0 /\ k # m
      <4>1. S[k].run = 0
        BY <2>1, <3>1
      <4>2. k # m
        BY <1>18, <2>3
      <4> QED
        BY <4>1, <4>2
    <3> QED
      BY <3>2
  <2>4. CASE k > m
    <3>1. m \in 0 .. k - 1 /\ k # m
      BY <1>18, <2>4
    <3> QED
      BY <2>2, <3>1
  <2> QED
    BY <1>18, <2>1, <2>2, <2>3, <2>4
<1>19. (CHOOSE k \in 0 .. Len(P) : S[k].run # 0 /\ \A j \in 0 .. k - 1 : S[j].run = 0) = m
  <2>1. m \in 0 .. Len(P)
    BY <1>1, <1>4, <1>15, <1>18
  <2> QED
    BY <1>26, <2>1
<1>20. next_run(b) = [S[m] EXCEPT !.within = 0,
                        !.prev_upper = IF b.values = <<>> THEN 0 ELSE Last(b.values)]
  BY <1>9, <1>19
<1>21. (IF b.values = <<>> THEN 0 ELSE Last(b.values)) = Raised(input, P[t])
  <2>1. b.values = V /\ V = RaisedValues(c)
    BY <1>5 DEF Rec, V, Locals
  <2>2. CASE c = 0
    <3>1. RaisedValues(c) = <<>>
      BY <2>2 DEF RaisedValues
    <3>2. Raised(input, 0) = 0
      BY RaisingKnown
    <3> QED
      BY <1>17, <2>1, <2>2, <3>1, <3>2
  <2>3. CASE c # 0
    <3>1. c \in 1 .. c /\ Len(RaisedValues(c)) = c /\ RaisedValues(c)[c] = Raised(input, c)
      BY <1>4, <2>3 DEF RaisedValues
    <3>2. RaisedValues(c) # <<>>
      BY <2>3, <3>1
    <3> QED
      BY <1>17, <2>1, <3>1, <3>2 DEF Last
  <2> QED
    BY <2>2, <2>3
<1>22. S[m] = Rec(t)
  BY <1>10, <1>18
<1>23. E(t) = P[t + 1] /\ E(t - 1) = P[t]
  <2>1. t \in 0 .. Len(P) - 1 /\ t - 1 \in 0 .. Len(P) - 1 /\ (t - 1) + 1 = t
    BY <1>1, <1>17
  <2> QED
    BY <1>2, <2>1
<1>24. P[t] \in Nat /\ c - P[t] = 0
  BY <1>4, <1>17
<1>25. next_run(b) = RaisingBuild(t, c)
  <2>1. Rec(t) = Locals(B, V, W, U, It(t), P[t + 1], P[t + 1] - P[t])
    BY <1>23 DEF Rec
  <2>2. next_run(b) = Restarted(Rec(t), 0, Raised(input, P[t]))
    BY <1>20, <1>21, <1>22 DEF Restarted
  <2>3. next_run(b) = Locals(B, V, 0, Raised(input, P[t]), It(t), P[t + 1], P[t + 1] - P[t])
    BY <2>1, <2>2, LocalsUpdated
  <2> QED
    BY <1>24, <2>3 DEF RaisingBuild, It, B, V
<1> QED
  BY <1>17, <1>25 DEF b, c

(* How many of the bits of a value are low, and where its one is among the *)
(* high bits.                                                              *)
LowWidth(in) ==
  LET mean == ValueIn(in, Len(in.values) - 1) \div Len(in.values)
  IN  IF mean # 0 THEN msb(mean) ELSE 0

HighPart(in, k) == ValueIn(in, k) \div power[LowWidth(in)]

HighSize(in) == Len(in.values) + HighPart(in, Len(in.values) - 1) + 1

Highs(in, i) == {HighPart(in, k) + k : k \in 0 .. i - 1}

LEMMA LowWidthKnown ==
  ASSUME NEW in \in Inputs
  PROVE  LowWidth(in) \in 0 .. word_width - 1
<1>1. PICK mean \in Nat : mean = ValueIn(in, Len(in.values) - 1) \div Len(in.values)
                          /\ mean < power[word_width]
  BY ValuesInOrder
<1>2. word_width \in Nat \ {0} /\ \A k \in Nat : power[k] \in Nat
  BY WordsAssumption, Powers
<1>3. LowWidth(in) = IF mean # 0 THEN msb(mean) ELSE 0
  BY <1>1 DEF LowWidth
<1>4. CASE mean = 0
  BY <1>2, <1>3, <1>4
<1>5. CASE mean # 0
  <2>1. PICK b \in Nat : b = msb(mean) /\ power[b] <= mean
    BY <1>5, MsbKnown
  <2>2. CASE word_width <= b
    <3>1. PICK w \in Nat : w = word_width /\ w <= b
      BY <1>2, <2>2
    <3>2. power[w] <= power[b]
      BY <3>1, PowersOrdered
    <3> QED
      BY <1>1, <1>2, <2>1, <3>1, <3>2
  <2>3. CASE b < word_width
    BY <1>2, <1>3, <1>5, <2>1, <2>3
  <2> QED
    BY <1>2, <2>1, <2>2, <2>3
<1> QED
  BY <1>4, <1>5

(* The ones come in the order of the values, within the high bits.         *)
LEMMA HighsInOrder ==
  ASSUME NEW in \in Inputs
  PROVE  /\ HighSize(in) \in Nat
         /\ \A k \in 0 .. Len(in.values) - 1 : HighPart(in, k) \in Nat
         /\ \A k \in 0 .. Len(in.values) - 1 : HighPart(in, k) + k \in 0 .. HighSize(in) - 1
         /\ \A j, k \in 0 .. Len(in.values) - 1 :
              j < k => HighPart(in, j) + j < HighPart(in, k) + k
<1>0. PICK d \in Nat \ {0} : d = power[LowWidth(in)]
  <2>1. word_width \in Nat \ {0}
    BY WordsAssumption
  <2>2. LowWidth(in) \in Nat
    BY <2>1, LowWidthKnown
  <2> QED
    BY <2>2, Powers
<1>1. PICK len \in Nat \ {0} : len = Len(in.values)
  BY EfAssumption
<1>2. /\ \A k \in 0 .. len - 1 : ValueIn(in, k) \in Nat
      /\ \A j, k \in 0 .. len - 1 : j <= k => ValueIn(in, j) <= ValueIn(in, k)
  BY <1>1, ValuesInOrder
<1>3. \A k : HighPart(in, k) = ValueIn(in, k) \div d
  BY <1>0 DEF HighPart
<1>4. ASSUME NEW j \in 0 .. len - 1, NEW k \in 0 .. len - 1, j <= k
      PROVE  HighPart(in, j) \in Nat /\ HighPart(in, k) \in Nat /\ HighPart(in, j) <= HighPart(in, k)
  <2>1. PICK x \in Nat, y \in Nat : x = ValueIn(in, j) /\ y = ValueIn(in, k) /\ x <= y
    BY <1>2, <1>4
  <2>2. PICK a \in Nat, s \in 0 .. d - 1 : a = x \div d /\ x = d * a + s
    BY Division
  <2>3. PICK b \in Nat, t \in 0 .. d - 1 : b = y \div d /\ y = d * b + t
    BY Division
  <2>4. a <= b
    <3>1. CASE b + 1 <= a
      <4>1. d * (b + 1) <= d * a /\ d * (b + 1) = d * b + d /\ d * b \in Nat /\ d * a \in Nat
        BY <3>1, MultiplesOrdered
      <4> QED
        BY <2>1, <2>2, <2>3, <4>1
    <3> QED
      BY <3>1
  <2>5. HighPart(in, j) = a /\ HighPart(in, k) = b
    BY <1>3, <2>1, <2>2, <2>3
  <2> QED
    BY <2>4, <2>5
<1>5. len - 1 \in 0 .. len - 1 /\ \A k \in 0 .. len - 1 : k <= len - 1
  OBVIOUS
<1>6. HighPart(in, len - 1) \in Nat
  BY <1>4, <1>5
<1>7. HighSize(in) = len + HighPart(in, len - 1) + 1
  BY <1>1 DEF HighSize
<1>8. ASSUME NEW k \in 0 .. len - 1
      PROVE  HighPart(in, k) \in Nat /\ HighPart(in, k) + k \in 0 .. HighSize(in) - 1
  <2>1. HighPart(in, k) \in Nat /\ HighPart(in, k) <= HighPart(in, len - 1)
    BY <1>4, <1>5
  <2> QED
    BY <1>6, <1>7, <2>1
<1>9. ASSUME NEW j \in 0 .. len - 1, NEW k \in 0 .. len - 1, j < k
      PROVE  HighPart(in, j) + j < HighPart(in, k) + k
  <2>1. HighPart(in, j) \in Nat /\ HighPart(in, k) \in Nat /\ HighPart(in, j) <= HighPart(in, k)
    <3>1. j <= k
      BY <1>9
    <3> QED
      BY <1>4, <3>1
  <2> QED
    BY <1>9, <2>1
<1> QED
  BY <1>1, <1>6, <1>7, <1>8, <1>9

(* The k-th one is that of the k-th value.                                 *)
LEMMA OneOfValue ==
  ASSUME NEW in \in Inputs, NEW bv, BitVec(bv), NEW i \in 0 .. Len(in.values),
         Places(bv) = Highs(in, i)
  PROVE  /\ Cardinality(Places(bv)) = i
         /\ \A k \in 0 .. i - 1 : /\ One(bv, k) = HighPart(in, k) + k
                                  /\ CountTo(Places(bv), One(bv, k)) = k
<1> DEFINE h == [k \in 0 .. i - 1 |-> HighPart(in, k) + k]
           m == HighSize(in)
           S == Places(bv)
<1>0. Len(in.values) \in Nat /\ i \in Nat
  BY EfAssumption
<1>1. \A k \in 0 .. i - 1 : k \in 0 .. Len(in.values) - 1
  BY <1>0
<1>2. m \in Nat /\ h \in [0 .. i - 1 -> 0 .. m - 1]
  BY <1>1, HighsInOrder
<1>3. \A j, k \in 0 .. i - 1 : j < k => h[j] < h[k]
  BY <1>1, HighsInOrder
<1>4. S = {h[j] : j \in 0 .. i - 1}
  BY DEF Highs
<1>5. \A k \in 0 .. i - 1 : h[k] = HighPart(in, k) + k
  OBVIOUS
<1> HIDE DEF h, m, S
<1>6. Cardinality(S) = i /\ \A k \in 0 .. i - 1 : CountTo(S, h[k]) = k /\ select_in_word(S, k) = h[k]
  <2>1. PICK c \in Nat : c = i
    BY <1>0
  <2>2. /\ h \in [0 .. c - 1 -> 0 .. m - 1]
        /\ \A j, k \in 0 .. c - 1 : j < k => h[j] < h[k]
        /\ \A j \in 0 .. c - 1 : h[j] \in S
        /\ \A x \in S : \E j \in 0 .. c - 1 : x = h[j]
    BY <1>2, <1>3, <1>4, <2>1
  <2>4. InOrder(S, h, c, m)
    BY <2>2 DEF InOrder
  <2>3. Cardinality(S) = c /\ \A k \in 0 .. c - 1 : CountTo(S, h[k]) = k /\ select_in_word(S, k) = h[k]
    BY <1>2, <2>4, OnesGiven
  <2> QED
    BY <2>1, <2>3
<1> QED
  BY <1>5, <1>6 DEF One, S

(* The high bits have the ones of the first i values, the low bits their   *)
(* low bits.                                                               *)
HighHeld(in, bv, i) ==
  /\ bv \in [size : Nat, words : Seq(Word)] /\ BitVec(bv)
  /\ bv.size = HighSize(in) /\ Places(bv) = Highs(in, i)

LowHeld(in, bv, i) ==
  /\ Packed(bv) /\ bv.size = i * LowWidth(in)
  /\ \A k \in 0 .. i - 1, x \in 0 .. LowWidth(in) - 1 :
       BitAt(bv.words, k * LowWidth(in) + x) <=> x \in bits_of(ValueIn(in, k))

(* Before there are any.                                                   *)
LEMMA NoneHeld ==
  ASSUME NEW in \in Inputs
  PROVE  HighHeld(in, zeros(HighSize(in)), 0) /\ LowHeld(in, no_bits, 0)
<1>0. word_width \in Nat \ {0} /\ LowWidth(in) \in Nat /\ HighSize(in) \in Nat
  <2>1. word_width \in Nat \ {0}
    BY WordsAssumption
  <2> QED
    BY <2>1, LowWidthKnown, HighsInOrder
<1>1. Highs(in, 0) = {}
  BY DEF Highs
<1>2. HighHeld(in, zeros(HighSize(in)), 0)
  BY <1>0, <1>1, ZerosGiven DEF HighHeld
<1>3. no_bits = [size |-> 0, words |-> <<>>]
  BY DEF no_bits
<1>4. <<>> \in Seq(Word) /\ Len(<<>>) = 0 /\ word_width * 0 = 0 /\ 0 * LowWidth(in) = 0
  BY <1>0
<1>5. no_bits \in [size : Nat, words : Seq(Word)] /\ BitVec(no_bits)
      /\ no_bits.size = 0 /\ Len(no_bits.words) = 0
  BY <1>3, <1>4 DEF BitVec
<1>6. Packed(no_bits)
  BY <1>0, <1>4, <1>5 DEF Packed
<1>7. LowHeld(in, no_bits, 0)
  BY <1>0, <1>4, <1>5, <1>6 DEF LowHeld
<1> QED
  BY <1>2, <1>7

(* One value more.                                                         *)
LEMMA OneMoreHeld ==
  ASSUME NEW in \in Inputs, NEW i \in 0 .. Len(in.values) - 1,
         NEW high, HighHeld(in, high, i), NEW low, LowHeld(in, low, i)
  PROVE  /\ HighHeld(in, set_bit(high, HighPart(in, i) + i), i + 1)
         /\ LowHeld(in, append_bits(low, bits_of(ValueIn(in, i)) \cap Mask(LowWidth(in)),
                                    LowWidth(in)), i + 1)
<1> DEFINE l == LowWidth(in)
           bits == bits_of(ValueIn(in, i)) \cap Mask(l)
           new == append_bits(low, bits, l)
           place == HighPart(in, i) + i
<1>0. word_width \in Nat \ {0} /\ l \in 0 .. word_width - 1 /\ l \in Nat /\ i \in Nat
      /\ l \in 0 .. word_width
  <2>1. word_width \in Nat \ {0}
    BY WordsAssumption
  <2>2. l \in 0 .. word_width - 1
    BY LowWidthKnown
  <2>3. Len(in.values) \in Nat
    BY EfAssumption
  <2> QED
    BY <2>1, <2>2, <2>3
<1>1. HighHeld(in, set_bit(high, place), i + 1)
  <2>1. /\ high \in [size : Nat, words : Seq(Word)] /\ BitVec(high)
        /\ high.size = HighSize(in) /\ Places(high) = Highs(in, i)
    BY DEF HighHeld
  <2>2. place \in 0 .. high.size - 1
    BY <2>1, HighsInOrder
  <2>3. Highs(in, i + 1) = Highs(in, i) \cup {place}
    <3>1. \A k : k \in 0 .. (i + 1) - 1 <=> k \in 0 .. i - 1 \/ k = i
      BY <1>0
    <3> QED
      BY <3>1 DEF Highs
  <2> HIDE DEF place
  <2>4. /\ set_bit(high, place) \in [size : Nat, words : Seq(Word)] /\ BitVec(set_bit(high, place))
        /\ set_bit(high, place).size = high.size
        /\ Places(set_bit(high, place)) = Places(high) \cup {place}
    BY <2>1, <2>2, BitSet
  <2> QED
    BY <2>1, <2>3, <2>4 DEF HighHeld
<1>2. Packed(low) /\ low.size = i * l
      /\ \A k \in 0 .. i - 1, x \in 0 .. l - 1 :
           BitAt(low.words, k * l + x) <=> x \in bits_of(ValueIn(in, k))
  BY DEF LowHeld
<1> HIDE DEF l
<1>3. bits \in SUBSET (0 .. l - 1) /\ \A x \in 0 .. l - 1 : x \in bits <=> x \in bits_of(ValueIn(in, i))
  BY DEF Mask
<1> HIDE DEF bits
<1>4. /\ Packed(new) /\ new.size = low.size + l
      /\ \A p \in 0 .. low.size - 1 : BitAt(new.words, p) <=> BitAt(low.words, p)
      /\ \A x \in 0 .. l - 1 : BitAt(new.words, low.size + x) <=> x \in bits
  BY <1>0, <1>2, <1>3, BitsAppended
<1> HIDE DEF new
<1>5. i * l \in Nat /\ (i + 1) * l = i * l + l
  BY <1>0
<1>6. ASSUME NEW k \in 0 .. (i + 1) - 1, NEW x \in 0 .. l - 1
      PROVE  BitAt(new.words, k * l + x) <=> x \in bits_of(ValueIn(in, k))
  <2>1. CASE k = i
    <3>1. k * l + x = low.size + x
      BY <1>2, <2>1
    <3> QED
      BY <1>3, <1>4, <2>1, <3>1
  <2>2. CASE k # i
    <3>1. k \in 0 .. i - 1 /\ k \in Nat /\ k + 1 <= i
      BY <1>0, <2>2
    <3>2. k * l + l <= i * l /\ k * l \in Nat
      <4>1. PICK c \in Nat : c = i - (k + 1)
        BY <1>0, <3>1
      <4>2. i * l = (k * l + l) + c * l /\ c * l \in Nat /\ k * l \in Nat
        <5>1. i = (k + 1) + c
          BY <1>0, <3>1, <4>1
        <5>2. ((k + 1) + c) * l = (k * l + l) + c * l
          BY <1>0, <3>1
        <5> QED
          BY <1>0, <3>1, <5>1, <5>2
      <4> QED
        BY <1>0, <4>2
    <3>3. PICK a \in Nat, b \in Nat : a = k * l /\ b = i * l
      BY <1>5, <3>2
    <3>4. k * l + x \in 0 .. low.size - 1
      BY <1>0, <1>2, <3>2, <3>3
    <3> QED
      BY <1>2, <1>4, <3>1, <3>4
  <2> QED
    BY <2>1, <2>2
<1>7. LowHeld(in, new, i + 1)
  BY <1>2, <1>4, <1>5, <1>6 DEF LowHeld, l
<1> QED
  BY <1>1, <1>7 DEF new, bits, l

(* The low bits of a value are read where they were appended.              *)
LEMMA LowRead ==
  ASSUME NEW in \in Inputs, NEW low, LowHeld(in, low, Len(in.values)),
         NEW k \in 0 .. Len(in.values) - 1
  PROVE  get_bits(low, k * LowWidth(in), LowWidth(in)) = bits_of(ValueIn(in, k)) \cap Mask(LowWidth(in))
<1> DEFINE l == LowWidth(in)
<1>0. word_width \in Nat \ {0} /\ l \in 0 .. word_width - 1 /\ l \in Nat /\ k \in Nat
  <2>1. word_width \in Nat \ {0}
    BY WordsAssumption
  <2>2. l \in 0 .. word_width - 1
    BY LowWidthKnown
  <2>3. Len(in.values) \in Nat
    BY EfAssumption
  <2> QED
    BY <2>1, <2>2, <2>3
<1>1. PICK len \in Nat : len = Len(in.values)
  BY EfAssumption
<1>2. /\ Packed(low) /\ low.size = len * l
      /\ \A x \in 0 .. l - 1 : BitAt(low.words, k * l + x) <=> x \in bits_of(ValueIn(in, k))
  BY <1>1 DEF LowHeld
<1> HIDE DEF l
<1>3. CASE l = 0
  BY <1>3 DEF get_bits, Mask, l
<1>4. CASE l # 0
  <2>1. low.words \in Seq(Word) /\ low.size <= word_width * Len(low.words)
    BY <1>2 DEF Packed, BitVec
  <2>2. k * l \in Nat /\ k * l + l <= word_width * Len(low.words)
    <3>1. k \in 0 .. len - 1
      BY <1>1
    <3>2. PICK c \in Nat : c = len - (k + 1)
      BY <1>0, <3>1
    <3>3. len * l = (k * l + l) + c * l /\ c * l \in Nat /\ k * l \in Nat
      <4>1. len = (k + 1) + c
        BY <1>0, <3>1, <3>2
      <4>2. ((k + 1) + c) * l = (k * l + l) + c * l
        BY <1>0
      <4> QED
        BY <1>0, <4>1, <4>2
    <3>4. PICK a \in Nat, b \in Nat : a = k * l /\ b = c * l
      BY <3>3
    <3>5. PICK top \in Nat : top = word_width * Len(low.words)
      <4>1. Len(low.words) \in Nat
        BY <2>1
      <4> QED
        BY <1>0, <4>1
    <3>6. (a + l) + b <= top
      BY <1>2, <2>1, <3>3, <3>4, <3>5
    <3> QED
      BY <1>0, <3>4, <3>5, <3>6
  <2>3. PICK place \in Nat : place = k * l
    BY <2>2
  <2>4. l \in 1 .. word_width /\ Mask(l) = 0 .. l - 1 /\ Mask(l) \in SUBSET (0 .. l - 1)
    BY <1>0, <1>4 DEF Mask
  <2>5. read_bits(low.words, place, l, Mask(l)) = {x \in Mask(l) : BitAt(low.words, place + x)}
    BY <2>1, <2>2, <2>3, <2>4, BitsRead
  <2>6. get_bits(low, place, l) = {x \in 0 .. l - 1 : BitAt(low.words, place + x)}
    BY <1>4, <2>4, <2>5 DEF get_bits
  <2>7. \A x \in 0 .. l - 1 : BitAt(low.words, place + x) <=> x \in bits_of(ValueIn(in, k))
    BY <1>2, <2>3
  <2> QED
    BY <2>3, <2>4, <2>6, <2>7 DEF l
<1> QED
  BY <1>3, <1>4

(* The locals of the private build after i values.                         *)
Coding(b, v, i, last) == [begin |-> b, values |-> v, i |-> i, last |-> last]

EncodingBuild(i) ==
  Coding(IF nodes THEN enumerator(from, n) ELSE enumerator(from, i),
         IF nodes THEN RaisedValues(n) ELSE <<>>, i,
         IF i = 0 THEN 0 ELSE ValueIn(input, i - 1))

(* A sequence of given parts, and updates of some of them.                 *)
EfOf(l, size, high, low, d1) ==
  [l |-> l, size |-> size, high_bits |-> high, low_bits |-> low, d1 |-> d1]

WithBits(x, low, high) == [x EXCEPT !.low_bits = low, !.high_bits = high]
WithArray(x, d1) == [x EXCEPT !.d1 = d1]
Coded(x, i, last, b) == [x EXCEPT !.i = i, !.last = last, !.begin = b]

LEMMA PartsUpdated ==
  ASSUME NEW l, NEW size, NEW high, NEW low, NEW d1
  PROVE  /\ \A h2, l2 : WithBits(EfOf(l, size, high, low, d1), l2, h2) = EfOf(l, size, h2, l2, d1)
         /\ \A d2 : WithArray(EfOf(l, size, high, low, d1), d2) = EfOf(l, size, high, low, d2)
<1> DEFINE H(x, y) == [x EXCEPT !.high_bits = y]
           L(x, y) == [x EXCEPT !.low_bits = y]
<1>1. \A h1, l1, y : /\ H(EfOf(l, size, h1, l1, d1), y) = EfOf(l, size, y, l1, d1)
                     /\ L(EfOf(l, size, h1, l1, d1), y) = EfOf(l, size, h1, y, d1)
  BY DEF EfOf
<1>2. \A x, h2, l2 : WithBits(x, l2, h2) = H(L(x, l2), h2)
  BY DEF WithBits
<1>3. \A d2 : WithArray(EfOf(l, size, high, low, d1), d2) = EfOf(l, size, high, low, d2)
  BY DEF EfOf, WithArray
<1> HIDE DEF H, L
<1> QED
  BY <1>1, <1>2, <1>3

LEMMA CodingUpdated ==
  ASSUME NEW b, NEW v, NEW i, NEW last
  PROVE  \A b2, i2, last2 : Coded(Coding(b, v, i, last), i2, last2, b2) = Coding(b2, v, i2, last2)
<1> DEFINE B(x, y) == [x EXCEPT !.begin = y]
           I(x, y) == [x EXCEPT !.i = y]
           M(x, y) == [x EXCEPT !.last = y]
<1>1. \A b1, i1, m1, y : /\ B(Coding(b1, v, i1, m1), y) = Coding(y, v, i1, m1)
                         /\ I(Coding(b1, v, i1, m1), y) = Coding(b1, v, y, m1)
                         /\ M(Coding(b1, v, i1, m1), y) = Coding(b1, v, i1, y)
  BY DEF Coding
<1>2. \A x, b2, i2, last2 : Coded(x, i2, last2, b2) = B(M(I(x, i2), last2), b2)
  BY DEF Coded
<1> HIDE DEF B, I, M
<1> QED
  BY <1>1, <1>2

(* The sequence has the first i values, and a darray.                      *)
Kept(i, d1) ==
  /\ ef = EfOf(LowWidth(input), n, ef.high_bits, ef.low_bits, d1)
  /\ HighHeld(input, ef.high_bits, i)
  /\ LowHeld(input, ef.low_bits, i)

RaisingOn ==
  nodes /\ \E r \in 1 .. Len(input.pointers) - 1, c \in 0 .. n :
             /\ input.pointers[r] <= c /\ c <= input.pointers[r + 1]
             /\ build = RaisingBuild(r, c)

EncodingOn == \E i \in 0 .. n : build = EncodingBuild(i) /\ Kept(i, <<>>)

(* How far the sequence has been built.                                    *)
Building ==
  /\ Filling
  /\ pc \in {"filling", "raising", "encoding", "loaded", "walking"}
  /\ pc = "raising" => RaisingOn
  /\ pc = "encoding" => EncodingOn
  /\ Readable => Kept(n, darray(ef.high_bits))

LEMMA InitBuilding == Init => Building
  BY InitFilling DEF Init, Building, Readable

(* The builder is full, and gives the values.                              *)
LEMMA FilledKnown ==
  ASSUME Filling, pc # "filling" \/ Cardinality(filled) = n
  PROVE  /\ input \in Inputs /\ n \in Nat \ {0} /\ n = Len(input.values) /\ Vector(from)
         /\ from.back = input.values[n]
         /\ \A j \in 0 .. n - 1 : enumerator_value(from, enumerator(from, j)) = input.values[j + 1]
<1>1. /\ input \in Inputs /\ Vector(from) /\ from.size = n /\ from.mask = Mask(input.width)
      /\ filled \subseteq 0 .. n - 1
      /\ \A j \in filled : VectorHolds(from, j, input.values[j + 1])
      /\ n - 1 \in filled => from.back = input.values[n]
      /\ pc # "filling" => filled = 0 .. n - 1
  BY DEF Filling
<1>2. n \in Nat \ {0} /\ n = Len(input.values) /\ \A k \in 1 .. n : VectorFits(from, input.values[k])
  BY <1>1, ValuesFit DEF n
<1>3. filled = 0 .. n - 1
  <2>1. PICK m \in Nat : m = n
    BY <1>2
  <2>2. IsFiniteSet(0 .. m - 1) /\ Cardinality(0 .. m - 1) = m
    BY FS_Interval
  <2> QED
    BY <1>1, <2>1, <2>2, FS_Subset
<1>4. ASSUME NEW j \in 0 .. n - 1
      PROVE  enumerator_value(from, enumerator(from, j)) = input.values[j + 1]
  <2>1. j \in 0 .. from.size - 1 /\ j + 1 \in 1 .. n /\ j \in filled
    BY <1>1, <1>2, <1>3
  <2>2. VectorFits(from, input.values[j + 1]) /\ VectorHolds(from, j, input.values[j + 1])
    BY <1>1, <1>2, <2>1
  <2> QED
    BY <1>1, <2>1, <2>2, EnumeratorReads
<1>5. n - 1 \in filled
  BY <1>2, <1>3
<1> QED
  BY <1>1, <1>2, <1>4, <1>5

(* What is said of the locals depends on the input and the builder.        *)
LEMMA SameInput ==
  ASSUME input' = input, from' = from
  PROVE  /\ n' = n /\ (nodes' <=> nodes)
         /\ \A r, c : RaisingBuild(r, c)' = RaisingBuild(r, c)
         /\ \A i : EncodingBuild(i)' = EncodingBuild(i)
<1>1. n' = n /\ (nodes' <=> nodes)
  BY DEF n, nodes
<1>2. pointers' = pointers
  BY DEF pointers
<1>3. \A c : RaisedValues(c)' = RaisedValues(c)
  BY DEF RaisedValues
<1>4. \A r, c : RaisingBuild(r, c)' = RaisingBuild(r, c)
  BY <1>2, <1>3 DEF RaisingBuild
<1>5. \A i : EncodingBuild(i)' = EncodingBuild(i)
  BY <1>1, <1>3 DEF EncodingBuild
<1> QED
  BY <1>1, <1>4, <1>5

(* The private build begins, with the values the sequence is to have.      *)
LEMMA EncodingStarts ==
  ASSUME input \in Inputs, input' = input, from' = from, Filling', NEW u, u = ValueIn(input, n - 1),
         Encoding(IF nodes THEN enumerator(from, n) ELSE enumerator(from, 0),
                  IF nodes THEN RaisedValues(n) ELSE <<>>, u)
  PROVE  Building'
<1>1. n \in Nat \ {0} /\ n = Len(input.values)
  BY EfAssumption DEF n
<1>2. LowWidth(input) = IF u \div n # 0 THEN msb(u \div n) ELSE 0
  BY <1>1 DEF LowWidth
<1>3. HighSize(input) = n + u \div power[LowWidth(input)] + 1
  BY <1>1 DEF HighSize, HighPart
<1>4. /\ pc' = "encoding"
      /\ build' = [begin |-> IF nodes THEN enumerator(from, n) ELSE enumerator(from, 0),
                   values |-> IF nodes THEN RaisedValues(n) ELSE <<>>, i |-> 0, last |-> 0]
      /\ ef' = [l |-> LowWidth(input), size |-> n, low_bits |-> no_bits, d1 |-> <<>>,
                high_bits |-> zeros(HighSize(input))]
  BY <1>2, <1>3 DEF Encoding
<1>5. build' = EncodingBuild(0)
  BY <1>4 DEF EncodingBuild, Coding
<1>6. HighHeld(input, zeros(HighSize(input)), 0) /\ LowHeld(input, no_bits, 0)
  BY NoneHeld
<1>7. n' = n /\ EncodingBuild(0)' = EncodingBuild(0)
  BY SameInput
<1>8. /\ ef' = EfOf(LowWidth(input), n, ef'.high_bits, ef'.low_bits, <<>>)
      /\ ef'.high_bits = zeros(HighSize(input)) /\ ef'.low_bits = no_bits
  BY <1>4 DEF EfOf
<1>9. Kept(0, <<>>)'
  BY <1>6, <1>7, <1>8 DEF Kept
<1>10. EncodingOn'
  <2>1. 0 \in 0 .. n'
    BY <1>1, <1>7
  <2> QED
    BY <1>5, <1>7, <1>9, <2>1 DEF EncodingOn
<1> QED
  BY <1>4, <1>10 DEF Building, Readable

LEMMA StartPointersBuilds ==
  ASSUME Building, StartPointers, Filling'
  PROVE  Building'
<1>1. /\ pc = "filling" /\ Cardinality(filled) = n /\ ~ nodes
      /\ Encoding(enumerator(from, 0), <<>>, from.back)
      /\ input' = input /\ from' = from
  BY DEF StartPointers
<1>2. input \in Inputs /\ n \in Nat \ {0} /\ from.back = input.values[n]
  BY <1>1, FilledKnown DEF Building
<1>3. from.back = ValueIn(input, n - 1)
  BY <1>1, <1>2 DEF ValueIn, nodes
<1> QED
  BY <1>1, <1>2, <1>3, EncodingStarts

LEMMA EndRaiseBuilds ==
  ASSUME Building, EndRaise, Filling'
  PROVE  Building'
<1>1. /\ pc = "raising" /\ Len(build.values) = n
      /\ Encoding(build.begin, build.values, Last(build.values))
      /\ input' = input /\ from' = from
  BY DEF EndRaise
<1>2. input \in Inputs /\ n \in Nat \ {0}
  BY <1>1, FilledKnown DEF Building
<1>3. nodes
  BY <1>1 DEF Building, RaisingOn
<1>4. PICK r \in 1 .. Len(input.pointers) - 1, c \in 0 .. n : build = RaisingBuild(r, c)
  BY <1>1 DEF Building, RaisingOn
<1>5. build.begin = enumerator(from, c) /\ build.values = RaisedValues(c)
  BY <1>4 DEF RaisingBuild, Locals
<1>6. c = n
  <2>1. c \in Nat /\ Len(RaisedValues(c)) = c
    BY <1>2 DEF RaisedValues
  <2> QED
    BY <1>1, <1>5, <2>1
<1>7. Last(build.values) = ValueIn(input, n - 1)
  <2>1. Len(RaisedValues(n)) = n /\ RaisedValues(n)[n] = Raised(input, n)
    BY <1>2 DEF RaisedValues
  <2>2. (n - 1) + 1 = n
    BY <1>2
  <2> QED
    BY <1>3, <1>5, <1>6, <2>1, <2>2 DEF Last, ValueIn, nodes
<1> QED
  BY <1>1, <1>2, <1>3, <1>5, <1>6, <1>7, EncodingStarts

LEMMA StartNodesBuilds ==
  ASSUME Building, StartNodes, Filling'
  PROVE  Building'
<1> DEFINE P == input.pointers
           first == enumerator(pointers, 0)
           second == enumerator_next(enumerator_read(pointers, first))
<1>1. /\ pc = "filling" /\ Cardinality(filled) = n /\ nodes
      /\ pc' = "raising" /\ input' = input /\ from' = from
      /\ build' = [begin |-> enumerator(from, 0), values |-> <<>>, within |-> 0, prev_upper |-> 0,
                   pointers_it |-> enumerator_read(pointers, second),
                   end |-> enumerator_value(pointers, second),
                   run |-> enumerator_value(pointers, second) - enumerator_value(pointers, first)]
  BY DEF StartNodes
<1>2. input \in Inputs /\ n \in Nat \ {0} /\ NodesInput(input)
  BY <1>1, FilledKnown DEF Building, NodesInput, nodes
<1>3. Len(P) \in Nat \ {0, 1} /\ P[1] = 0 /\ P[2] \in Nat
  BY <1>2, PointerFacts
<1>9. PICK len \in Nat : len = Len(P) /\ len >= 2
  <2>1. Len(P) \in Nat /\ Len(P) # 0 /\ Len(P) # 1
    BY <1>3
  <2>2. \A x \in Nat : x # 0 /\ x # 1 => x >= 2
    OBVIOUS
  <2> QED
    BY <2>1, <2>2
<1>4. Vector(pointers) /\ \A r \in 0 .. Len(P) - 1 :
        enumerator_value(pointers, enumerator(pointers, r)) = P[r + 1]
  BY <1>2, PointersStored
<1>5. second = enumerator(pointers, 1)
  BY <1>4, EnumeratorSteps
<1> HIDE DEF first, second
<1>6. enumerator_value(pointers, second) = P[2] /\ enumerator_value(pointers, first) = 0
  <2>1. 0 \in 0 .. Len(P) - 1 /\ 1 \in 0 .. Len(P) - 1
    BY <1>9
  <2> QED
    BY <1>3, <1>4, <1>5, <2>1 DEF first
<1>7. build' = RaisingBuild(1, 0)
  <2>1. RaisedValues(0) = <<>>
    BY DEF RaisedValues
  <2>4. Raised(input, 0) = 0
    BY <1>2, RaisingKnown
  <2>2. build' = Locals(enumerator(from, 0), <<>>, 0, 0, enumerator_read(pointers, second), P[2], P[2] - 0)
    BY <1>1, <1>6 DEF Locals
  <2>3. RaisingBuild(1, 0) = Locals(enumerator(from, 0), <<>>, 0, 0,
                                    enumerator_read(pointers, second), P[2], P[2] - 0)
    <3>1. 0 - P[1] = 0 /\ P[1] = 0 /\ 1 + 1 = 2
      BY <1>3
    <3> QED
      BY <1>5, <2>1, <2>4, <3>1 DEF RaisingBuild
  <2> QED
    BY <2>2, <2>3
<1>8. RaisingOn'
  <2>1. n' = n /\ (nodes' <=> nodes) /\ RaisingBuild(1, 0)' = RaisingBuild(1, 0)
    BY <1>1, SameInput
  <2>2. 1 \in 1 .. Len(P) - 1 /\ 0 \in 0 .. n /\ P[1] <= 0 /\ 0 <= P[1 + 1]
    <3>1. 1 + 1 = 2
      OBVIOUS
    <3> QED
      BY <1>2, <1>3, <1>9, <3>1
  <2> QED
    BY <1>1, <1>7, <2>1, <2>2 DEF RaisingOn
<1> QED
  BY <1>1, <1>8 DEF Building, Readable

LEMMA RaiseBuilds ==
  ASSUME Building, Raise, Filling'
  PROVE  Building'
<1> DEFINE P == input.pointers
           b == IF build.within = build.run THEN next_run(build) ELSE build
<1>1. /\ pc = "raising" /\ Len(build.values) < n
      /\ build' = [b EXCEPT !.values = Append(@, enumerator_value(from, b.begin) + b.prev_upper),
                            !.within = @ + 1,
                            !.begin = enumerator_next(enumerator_read(from, @))]
      /\ input' = input /\ from' = from /\ pc' = pc
  BY DEF Raise
<1>2. /\ input \in Inputs /\ n \in Nat \ {0} /\ n = Len(input.values) /\ Vector(from)
      /\ \A j \in 0 .. n - 1 : enumerator_value(from, enumerator(from, j)) = input.values[j + 1]
  BY <1>1, FilledKnown DEF Building
<1>3. nodes /\ NodesInput(input)
  BY <1>1, <1>2 DEF Building, RaisingOn, NodesInput, nodes
<1>4. /\ Len(P) \in Nat \ {0, 1}
      /\ \A p \in 1 .. Len(P) : P[p] \in Nat /\ P[p] \in 0 .. Len(input.values)
  BY <1>3, PointerFacts
<1>5. PICK r \in 1 .. Len(P) - 1, c \in 0 .. n :
        P[r] <= c /\ c <= P[r + 1] /\ build = RaisingBuild(r, c)
  BY <1>1 DEF Building, RaisingOn
<1>6. c \in Nat /\ c < n
  <2>1. build.values = RaisedValues(c) /\ c \in Nat /\ Len(RaisedValues(c)) = c
    BY <1>2, <1>5 DEF RaisingBuild, Locals, RaisedValues
  <2> QED
    BY <1>1, <2>1
<1>7. r \in 1 .. Len(P) /\ r + 1 \in 1 .. Len(P) /\ P[r] \in Nat /\ P[r + 1] \in Nat
  BY <1>4
<1>8. build.within = c - P[r] /\ build.run = P[r + 1] - P[r]
  BY <1>5 DEF RaisingBuild, Locals
<1>9. PICK q \in 1 .. Len(P) - 1 : P[q] <= c /\ c < P[q + 1] /\ b = RaisingBuild(q, c)
  <2>1. CASE c = P[r + 1]
    <3>1. P[r + 1] < n
      BY <1>6, <2>1
    <3>2. PICK q \in 1 .. Len(P) - 1 :
            P[q] = P[r + 1] /\ P[q] < P[q + 1] /\ next_run(RaisingBuild(r, P[r + 1])) = RaisingBuild(q, P[r + 1])
      BY <1>3, <3>1, NextRun
    <3>3. b = RaisingBuild(q, c)
      BY <1>5, <1>8, <2>1, <3>2
    <3> QED
      BY <1>6, <2>1, <3>2, <3>3
  <2>2. CASE c # P[r + 1]
    <3>1. build.within # build.run
      BY <1>6, <1>7, <1>8, <2>2
    <3>2. b = RaisingBuild(r, c)
      BY <1>5, <3>1
    <3>3. c < P[r + 1]
      BY <1>5, <1>6, <1>7, <2>2
    <3> QED
      BY <1>5, <3>2, <3>3
  <2> QED
    BY <2>1, <2>2
<1> HIDE DEF b
<1>10. q \in 1 .. Len(P) /\ q + 1 \in 1 .. Len(P) /\ P[q] \in Nat /\ P[q + 1] \in Nat
  BY <1>4
<1> DEFINE U == Raised(input, P[q])
           It == enumerator_read(pointers, enumerator(pointers, q))
           B == Locals(enumerator(from, c), RaisedValues(c), c - P[q], U, It, P[q + 1], P[q + 1] - P[q])
<1>11. /\ b = B /\ b.begin = enumerator(from, c) /\ b.prev_upper = U
       /\ b.values = RaisedValues(c) /\ b.within = c - P[q]
  BY <1>9 DEF RaisingBuild, Locals
<1>12. /\ enumerator_value(from, b.begin) = input.values[c + 1]
       /\ enumerator_next(enumerator_read(from, b.begin)) = enumerator(from, c + 1)
  <2>1. c \in 0 .. n - 1
    BY <1>2, <1>6
  <2> QED
    BY <1>2, <1>6, <1>11, <2>1, EnumeratorSteps
<1>13. Append(RaisedValues(c), input.values[c + 1] + U) = RaisedValues(c + 1)
  <2>1. c + 1 \in P[q] + 1 .. P[q + 1]
    BY <1>6, <1>9, <1>10
  <2>2. Raised(input, c + 1) = input.values[c + 1] + U
    BY <1>3, <2>1, RaisedInRange
  <2>3. Append([k \in 1 .. c |-> Raised(input, k)], Raised(input, c + 1))
          = [k \in 1 .. c + 1 |-> Raised(input, k)]
    BY <1>6
  <2> QED
    BY <2>2, <2>3 DEF RaisedValues
<1>14. build' = Pushed(b, RaisedValues(c + 1), (c - P[q]) + 1, enumerator(from, c + 1))
  <2>1. build' = [b EXCEPT !.values = Append(b.values, enumerator_value(from, b.begin) + b.prev_upper),
                           !.within = b.within + 1,
                           !.begin = enumerator_next(enumerator_read(from, b.begin))]
    BY <1>1
  <2> HIDE DEF U
  <2> QED
    BY <1>11, <1>12, <1>13, <2>1 DEF Pushed
<1>15. build' = RaisingBuild(q, c + 1)
  <2>1. (c - P[q]) + 1 = (c + 1) - P[q]
    BY <1>6, <1>10
  <2>2. Pushed(B, RaisedValues(c + 1), (c + 1) - P[q], enumerator(from, c + 1))
          = Locals(enumerator(from, c + 1), RaisedValues(c + 1), (c + 1) - P[q], U, It,
                   P[q + 1], P[q + 1] - P[q])
    BY LocalsUpdated
  <2> QED
    BY <1>11, <1>14, <2>1, <2>2 DEF RaisingBuild
<1>16. RaisingOn'
  <2>1. n' = n /\ (nodes' <=> nodes) /\ RaisingBuild(q, c + 1)' = RaisingBuild(q, c + 1)
    BY <1>1, SameInput
  <2>2. c + 1 \in 0 .. n /\ P[q] <= c + 1 /\ c + 1 <= P[q + 1]
    BY <1>2, <1>6, <1>9, <1>10
  <2> QED
    BY <1>1, <1>3, <1>15, <2>1, <2>2 DEF RaisingOn
<1> QED
  BY <1>1, <1>16 DEF Building, Readable

LEMMA EncodeBuilds ==
  ASSUME Building, Encode, Filling'
  PROVE  Building'
<1> DEFINE v == IF nodes THEN build.values[build.i + 1] ELSE enumerator_value(from, build.begin)
           l == LowWidth(input)
<1>1. /\ pc = "encoding" /\ build.i < n /\ input' = input /\ from' = from
      /\ IF build.i # 0 /\ v < build.last THEN pc' = "refused" /\ UNCHANGED <<build, ef>>
         ELSE /\ ef' = [ef EXCEPT
                          !.low_bits = append_bits(@, bits_of(v) \cap Mask(ef.l), ef.l),
                          !.high_bits = set_bit(@, v \div power[ef.l] + build.i)]
              /\ build' = [build EXCEPT !.i = @ + 1, !.last = v,
                             !.begin = IF nodes THEN @ ELSE enumerator_next(enumerator_read(from, @))]
              /\ pc' = pc
  BY DEF Encode
<1>2. /\ input \in Inputs /\ n \in Nat \ {0} /\ n = Len(input.values) /\ Vector(from)
      /\ \A j \in 0 .. n - 1 : enumerator_value(from, enumerator(from, j)) = input.values[j + 1]
  BY <1>1, FilledKnown DEF Building
<1>3. PICK i \in 0 .. n : build = EncodingBuild(i) /\ Kept(i, <<>>)
  BY <1>1 DEF Building, EncodingOn
<1>4. /\ build.i = i /\ build.last = IF i = 0 THEN 0 ELSE ValueIn(input, i - 1)
      /\ build.values = IF nodes THEN RaisedValues(n) ELSE <<>>
      /\ build.begin = IF nodes THEN enumerator(from, n) ELSE enumerator(from, i)
  BY <1>3 DEF EncodingBuild, Coding
<1>5. i \in 0 .. n - 1 /\ i \in Nat /\ i + 1 \in 1 .. n
  BY <1>1, <1>2, <1>4
<1>6. v = ValueIn(input, i)
  <2>1. CASE nodes
    <3>1. RaisedValues(n)[i + 1] = Raised(input, i + 1)
      BY <1>5 DEF RaisedValues
    <3> QED
      BY <1>4, <2>1, <3>1 DEF ValueIn, nodes
  <2>2. CASE ~ nodes
    BY <1>2, <1>4, <1>5, <2>2 DEF ValueIn, nodes
  <2> QED
    BY <2>1, <2>2
<1> HIDE DEF v
<1>7. ~ (build.i # 0 /\ v < build.last)
  <2>1. SUFFICES ASSUME i # 0 PROVE ~ (v < build.last)
    BY <1>4
  <2>2. i - 1 \in 0 .. n - 1 /\ i - 1 <= i
    BY <1>2, <1>5, <2>1
  <2>3. ValueIn(input, i - 1) <= ValueIn(input, i) /\ ValueIn(input, i - 1) \in Nat /\ ValueIn(input, i) \in Nat
    BY <1>2, <1>5, <2>2, ValuesInOrder
  <2> QED
    BY <1>4, <1>6, <2>1, <2>3
<1>8. /\ ef = EfOf(l, n, ef.high_bits, ef.low_bits, <<>>) /\ ef.l = l
      /\ HighHeld(input, ef.high_bits, i) /\ LowHeld(input, ef.low_bits, i)
  <2>1. /\ ef = EfOf(l, n, ef.high_bits, ef.low_bits, <<>>)
        /\ HighHeld(input, ef.high_bits, i) /\ LowHeld(input, ef.low_bits, i)
    BY <1>3 DEF Kept
  <2>2. EfOf(l, n, ef.high_bits, ef.low_bits, <<>>).l = l
    BY DEF EfOf
  <2> HIDE DEF l
  <2> QED
    BY <2>1, <2>2
<1> DEFINE high == set_bit(ef.high_bits, HighPart(input, i) + i)
           low == append_bits(ef.low_bits, bits_of(ValueIn(input, i)) \cap Mask(l), l)
<1>9. HighHeld(input, high, i + 1) /\ LowHeld(input, low, i + 1)
  BY <1>2, <1>5, <1>8, OneMoreHeld
<1>10. ef' = EfOf(l, n, high, low, <<>>)
  <2>1. ef' = WithBits(ef, low, high)
    <3>1. v \div power[ef.l] + build.i = HighPart(input, i) + i
      BY <1>4, <1>6, <1>8 DEF HighPart
    <3>2. ef' = [ef EXCEPT !.low_bits = append_bits(ef.low_bits, bits_of(v) \cap Mask(ef.l), ef.l),
                           !.high_bits = set_bit(ef.high_bits, v \div power[ef.l] + build.i)]
      BY <1>1, <1>7
    <3> HIDE DEF l
    <3> QED
      BY <1>6, <1>8, <3>1, <3>2 DEF WithBits
  <2> HIDE DEF high, low, l
  <2>2. PICK h0, l0 : ef = EfOf(l, n, h0, l0, <<>>)
    BY <1>8
  <2>3. WithBits(EfOf(l, n, h0, l0, <<>>), low, high) = EfOf(l, n, high, low, <<>>)
    BY PartsUpdated
  <2> QED
    BY <2>1, <2>2, <2>3
<1> HIDE DEF high, low
<1>11. build' = EncodingBuild(i + 1)
  <2> DEFINE B == IF nodes THEN enumerator(from, n) ELSE enumerator(from, i + 1)
             V == IF nodes THEN RaisedValues(n) ELSE <<>>
             B0 == IF nodes THEN enumerator(from, n) ELSE enumerator(from, i)
             last == IF i = 0 THEN 0 ELSE ValueIn(input, i - 1)
  <2>1. (IF nodes THEN build.begin ELSE enumerator_next(enumerator_read(from, build.begin))) = B
    BY <1>2, <1>4, <1>5, EnumeratorSteps
  <2>2. build = Coding(B0, V, i, last)
    BY <1>3 DEF EncodingBuild
  <2>3. build' = [build EXCEPT !.i = build.i + 1, !.last = v,
                   !.begin = IF nodes THEN build.begin
                             ELSE enumerator_next(enumerator_read(from, build.begin))]
    BY <1>1, <1>7
  <2>5. EncodingBuild(i + 1) = Coding(B, V, i + 1, ValueIn(input, i))
    <3>1. (i + 1) - 1 = i /\ i + 1 # 0
      BY <1>5
    <3> QED
      BY <3>1 DEF EncodingBuild
  <2> HIDE DEF B, V, B0, last
  <2>4. build' = Coded(build, i + 1, ValueIn(input, i), B)
    BY <1>4, <1>6, <2>1, <2>3 DEF Coded
  <2> QED
    BY <2>2, <2>4, <2>5, CodingUpdated
<1>12. EncodingOn'
  <2>1. n' = n /\ EncodingBuild(i + 1)' = EncodingBuild(i + 1)
    BY <1>1, SameInput
  <2>2. ef'.high_bits = high /\ ef'.low_bits = low
    BY <1>10 DEF EfOf
  <2>3. Kept(i + 1, <<>>)'
    BY <1>1, <1>9, <1>10, <2>1, <2>2 DEF Kept
  <2>4. i + 1 \in 0 .. n
    BY <1>5
  <2> QED
    BY <1>11, <2>1, <2>3, <2>4 DEF EncodingOn
<1> QED
  BY <1>1, <1>7, <1>12 DEF Building, Readable

LEMMA EndEncodeBuilds ==
  ASSUME Building, EndEncode, Filling'
  PROVE  Building'
<1>1. /\ pc = "encoding" /\ build.i = n /\ input' = input /\ from' = from /\ pc' = "loaded"
      /\ ef' = [ef EXCEPT !.d1 = darray(ef.high_bits)]
  BY DEF EndEncode
<1>2. PICK i \in 0 .. n : build = EncodingBuild(i) /\ Kept(i, <<>>)
  BY <1>1 DEF Building, EncodingOn
<1>3. i = n
  BY <1>1, <1>2 DEF EncodingBuild, Coding
<1>4. ef = EfOf(LowWidth(input), n, ef.high_bits, ef.low_bits, <<>>)
      /\ HighHeld(input, ef.high_bits, n) /\ LowHeld(input, ef.low_bits, n)
  BY <1>2, <1>3 DEF Kept
<1>5. ef' = EfOf(LowWidth(input), n, ef.high_bits, ef.low_bits, darray(ef.high_bits))
  <2>1. ef' = WithArray(ef, darray(ef.high_bits))
    BY <1>1 DEF WithArray
  <2>2. PICK h0, l0, d0 : /\ h0 = ef.high_bits /\ l0 = ef.low_bits /\ d0 = darray(ef.high_bits)
                          /\ ef = EfOf(LowWidth(input), n, h0, l0, <<>>)
    BY <1>4
  <2>3. WithArray(EfOf(LowWidth(input), n, h0, l0, <<>>), d0) = EfOf(LowWidth(input), n, h0, l0, d0)
    BY PartsUpdated
  <2> QED
    BY <2>1, <2>2, <2>3
<1>6. ef'.high_bits = ef.high_bits /\ ef'.low_bits = ef.low_bits
  BY <1>5 DEF EfOf
<1>7. Kept(n, darray(ef.high_bits))'
  <2>1. n' = n
    BY <1>1, SameInput
  <2> QED
    BY <1>1, <1>4, <1>5, <1>6, <2>1 DEF Kept
<1> QED
  BY <1>1, <1>7 DEF Building, Readable

(* Every step keeps it.                                                    *)
LEMMA StepBuilding == Building /\ [Next]_vars => Building'
<1> SUFFICES ASSUME Building, [Next]_vars PROVE Building'
  OBVIOUS
<1>1. Filling'
  BY StepFilling DEF Building
<1>2. CASE PushBack \/ \E i \in 0 .. n - 1 : Set(i)
  <2>1. pc' = "filling"
    BY <1>2 DEF PushBack, Set
  <2> QED
    BY <1>1, <2>1 DEF Building, Readable
<1>3. CASE StepNodes \/ StepPointers \/ Stop \/ (\E p \in Ranges : WalkNodes(p))
           \/ (\E place \in 0 .. n - 1 : WalkPointers(place)) \/ UNCHANGED vars
  <2>1. /\ from' = from /\ input' = input /\ build' = build /\ ef' = ef
        /\ pc' = pc \/ (Readable /\ Readable')
    <3>1. CASE StepNodes \/ StepPointers \/ Stop
      BY <3>1 DEF StepNodes, StepPointers, Stop, Readable
    <3>2. CASE \E p \in Ranges : WalkNodes(p)
      BY <3>2 DEF WalkNodes, Readable
    <3>3. CASE \E place \in 0 .. n - 1 : WalkPointers(place)
      BY <3>3 DEF WalkPointers, Readable
    <3>4. CASE UNCHANGED vars
      BY <3>4 DEF vars
    <3> QED
      BY <1>3, <3>1, <3>2, <3>3, <3>4
  <2>2. /\ n' = n /\ (nodes' <=> nodes)
        /\ \A r, c : RaisingBuild(r, c)' = RaisingBuild(r, c)
        /\ \A i : EncodingBuild(i)' = EncodingBuild(i)
    BY <2>1, SameInput
  <2>3. \A i, d : Kept(i, d)' <=> Kept(i, d)
    BY <2>1, <2>2 DEF Kept
  <2>4. RaisingOn' <=> RaisingOn
    BY <2>1, <2>2 DEF RaisingOn
  <2>5. EncodingOn' <=> EncodingOn
    BY <2>1, <2>2, <2>3 DEF EncodingOn
  <2>6. Kept(n, darray(ef.high_bits))' <=> Kept(n, darray(ef.high_bits))
    BY <2>1, <2>2 DEF Kept
  <2> QED
    BY <1>1, <2>1, <2>4, <2>5, <2>6 DEF Building, Readable
<1> QED
  BY <1>1, <1>2, <1>3, StartPointersBuilds, StartNodesBuilds, RaiseBuilds, EndRaiseBuilds,
     EncodeBuilds, EndEncodeBuilds DEF Next

(* However far a sequence of whatever values has been built, from a builder *)
(* filled in any order: the first values are in its bits, none is refused, *)
(* and what the build goes on with is the next value, raised.              *)
THEOREM BuildingHolds == Spec => []Building
<1> QED
  BY InitBuilding, StepBuilding, PTL DEF Spec
-----------------------------------------------------------------------------
(* A bit that is read is one of the ones.                                  *)
LEMMA OneRead ==
  ASSUME NEW bv, BitVec(bv), NEW p \in 0 .. bv.size - 1
  PROVE  get_bits(bv, p, 1) # {} <=> p \in Places(bv)
<1>0. word_width \in Nat \ {0} /\ bv.words \in Seq(Word) /\ Len(bv.words) \in Nat /\ bv.size \in Nat
      /\ bv.size <= word_width * Len(bv.words)
  BY WordsAssumption DEF BitVec
<1>1. p \in Nat /\ p + 1 <= word_width * Len(bv.words)
  <2>1. PICK top \in Nat : top = word_width * Len(bv.words)
    BY <1>0
  <2> QED
    BY <1>0, <2>1
<1>2. Mask(1) = 0 .. 1 - 1 /\ Mask(1) \in SUBSET (0 .. 1 - 1) /\ 1 \in 1 .. word_width
  BY <1>0 DEF Mask
<1>3. read_bits(bv.words, p, 1, Mask(1)) = {x \in Mask(1) : BitAt(bv.words, p + x)}
  BY <1>0, <1>1, <1>2, BitsRead, SMTT(30)
<1>4. get_bits(bv, p, 1) = {x \in 0 .. 0 : BitAt(bv.words, p + x)}
  BY <1>2, <1>3 DEF get_bits
<1>5. p + 0 = p /\ 0 .. 0 = {0}
  BY <1>1
<1> QED
  BY <1>4, <1>5 DEF Places

(* What is known of a sequence that can be read.                           *)
LEMMA ReadableKnown ==
  ASSUME Building, Readable
  PROVE  /\ input \in Inputs /\ n \in Nat \ {0} /\ n = Len(input.values)
         /\ ef.l = LowWidth(input) /\ ef.size = n /\ ef.d1 = darray(ef.high_bits)
         /\ HighHeld(input, ef.high_bits, n) /\ LowHeld(input, ef.low_bits, n)
         /\ BitVec(ef.high_bits) /\ Cardinality(Places(ef.high_bits)) = n /\ ef.d1.positions = n
         /\ \A k \in 0 .. n - 1 :
              /\ select(ef.d1, ef.high_bits, k) = HighPart(input, k) + k
              /\ One(ef.high_bits, k) = HighPart(input, k) + k
              /\ HighPart(input, k) \in Nat
<1>1. Filling /\ pc # "filling" /\ Kept(n, darray(ef.high_bits))
  BY DEF Building, Readable
<1>2. input \in Inputs /\ n \in Nat \ {0} /\ n = Len(input.values)
  BY <1>1, FilledKnown
<1>3. /\ ef = EfOf(LowWidth(input), n, ef.high_bits, ef.low_bits, darray(ef.high_bits))
      /\ HighHeld(input, ef.high_bits, n) /\ LowHeld(input, ef.low_bits, n)
  BY <1>1 DEF Kept
<1>4. ef.l = LowWidth(input) /\ ef.size = n /\ ef.d1 = darray(ef.high_bits)
  BY <1>3 DEF EfOf
<1>5. BitVec(ef.high_bits) /\ Places(ef.high_bits) = Highs(input, n)
  BY <1>3 DEF HighHeld
<1>6. n \in 0 .. Len(input.values)
  BY <1>2
<1>7. /\ Cardinality(Places(ef.high_bits)) = n
      /\ \A k \in 0 .. n - 1 : One(ef.high_bits, k) = HighPart(input, k) + k
  BY <1>2, <1>5, <1>6, OneOfValue
<1>8. ef.d1.positions = n
  <2>1. 0 \in 0 .. Cardinality(Places(ef.high_bits)) - 1
    BY <1>2, <1>7
  <2> QED
    BY <1>4, <1>5, <1>7, <2>1, SelectsOne
<1>9. ASSUME NEW k \in 0 .. n - 1 PROVE select(ef.d1, ef.high_bits, k) = HighPart(input, k) + k
  <2>1. k \in 0 .. Cardinality(Places(ef.high_bits)) - 1
    BY <1>7
  <2>2. select(darray(ef.high_bits), ef.high_bits, k) = One(ef.high_bits, k)
    BY <1>5, <2>1, SelectsOne
  <2> QED
    BY <1>4, <1>7, <2>2
<1>10. \A k \in 0 .. n - 1 : HighPart(input, k) \in Nat
  BY <1>2, HighsInOrder
<1> QED
  BY <1>2, <1>3, <1>4, <1>5, <1>7, <1>8, <1>9, <1>10

LEMMA OnesFound == Building => SelectFindsOnes
<1> SUFFICES ASSUME Building, Readable
             PROVE  /\ ef.d1.positions = n
                    /\ \A k \in 0 .. n - 1 :
                         LET p == select(ef.d1, ef.high_bits, k)
                         IN  /\ get_bits(ef.high_bits, p, 1) # {}
                             /\ Cardinality({q \in 0 .. p - 1 : get_bits(ef.high_bits, q, 1) # {}}) = k
  BY DEF SelectFindsOnes
<1>1. /\ n \in Nat \ {0} /\ BitVec(ef.high_bits) /\ Cardinality(Places(ef.high_bits)) = n
      /\ ef.d1.positions = n
      /\ \A k \in 0 .. n - 1 : select(ef.d1, ef.high_bits, k) = One(ef.high_bits, k)
  BY ReadableKnown
<1>2. ASSUME NEW k \in 0 .. n - 1, NEW p, p = select(ef.d1, ef.high_bits, k)
      PROVE  /\ get_bits(ef.high_bits, p, 1) # {}
             /\ Cardinality({q \in 0 .. p - 1 : get_bits(ef.high_bits, q, 1) # {}}) = k
  <2>1. /\ p \in Places(ef.high_bits) /\ p \in Nat /\ p < ef.high_bits.size
        /\ CountTo(Places(ef.high_bits), p) = k /\ ef.high_bits.size \in Nat
    <3>1. k \in 0 .. Cardinality(Places(ef.high_bits)) - 1
      BY <1>1
    <3>2. p = One(ef.high_bits, k)
      BY <1>1, <1>2
    <3> QED
      BY <1>1, <3>1, <3>2, OnesInOrder DEF BitVec
  <2>2. \A q \in 0 .. p : get_bits(ef.high_bits, q, 1) # {} <=> q \in Places(ef.high_bits)
    <3> TAKE q \in 0 .. p
    <3>1. q \in 0 .. ef.high_bits.size - 1
      BY <2>1
    <3> QED
      BY <1>1, <3>1, OneRead
  <2>3. {q \in 0 .. p - 1 : get_bits(ef.high_bits, q, 1) # {}} = Places(ef.high_bits) \cap Mask(p)
    BY <2>1, <2>2 DEF Mask
  <2>4. p \in 0 .. p
    BY <2>1
  <2> QED
    BY <2>1, <2>2, <2>3, <2>4 DEF CountTo
<1> QED
  BY <1>1, <1>2

(* For words, values and blocks of any size, the darray has the place of   *)
(* every one of the high bits.                                             *)
THEOREM OnesSelected == Spec => []SelectFindsOnes
<1> QED
  BY BuildingHolds, OnesFound, PTL

(* A value is put together from its high bits and its low bits.            *)
LEMMA ValueAccessed ==
  ASSUME Building, Readable, NEW k \in 0 .. n - 1
  PROVE  access(k) = ValueIn(input, k) /\ ValueIn(input, k) \in Nat
<1>1. /\ input \in Inputs /\ n \in Nat \ {0} /\ n = Len(input.values) /\ ef.l = LowWidth(input)
      /\ LowHeld(input, ef.low_bits, n)
      /\ select(ef.d1, ef.high_bits, k) = HighPart(input, k) + k
      /\ HighPart(input, k) \in Nat
  BY ReadableKnown
<1>2. ValueIn(input, k) \in Nat
  BY <1>1, ValuesInOrder
<1>3. get_bits(ef.low_bits, k * ef.l, ef.l) = bits_of(ValueIn(input, k)) \cap Mask(ef.l)
  BY <1>1, LowRead
<1>4. (HighPart(input, k) + k) - k = HighPart(input, k)
  BY <1>1
<1>5. access(k) = HighPart(input, k) * power[ef.l] + number(bits_of(ValueIn(input, k)) \cap Mask(ef.l))
  BY <1>1, <1>3, <1>4 DEF access, joined
<1>6. ef.l \in 0 .. word_width /\ HighPart(input, k) = ValueIn(input, k) \div power[ef.l]
  <2>1. LowWidth(input) \in 0 .. word_width - 1
    BY <1>1, LowWidthKnown
  <2>2. word_width \in Nat
    BY WordsAssumption
  <2> QED
    BY <1>1, <2>1, <2>2 DEF HighPart
<1> QED
  BY <1>2, <1>5, <1>6, LowBits

(* The bound of a range is the value before it.                            *)
LEMMA BoundRead ==
  ASSUME Building, Readable, nodes, NEW p \in 1 .. Len(input.pointers)
  PROVE  LET r == RangeOf(p)
         IN  /\ previous_range_upperbound(r) = Raised(input, input.pointers[p])
             /\ Raised(input, input.pointers[p]) \in Nat
<1>1. /\ n \in Nat \ {0} /\ n = Len(input.values) /\ NodesInput(input)
      /\ input.pointers[p] \in 0 .. n
  <2>1. n \in Nat \ {0} /\ n = Len(input.values) /\ NodesInput(input)
    BY ReadableKnown DEF NodesInput, nodes
  <2> QED
    BY <2>1, PointerFacts
<1>2. RangeOf(p).begin = input.pointers[p]
  BY DEF RangeOf
<1>3. CASE input.pointers[p] = 0
  <2>1. Raised(input, 0) = 0
    BY <1>1, RaisingKnown
  <2> QED
    BY <1>2, <1>3, <2>1 DEF previous_range_upperbound
<1>4. CASE input.pointers[p] # 0
  <2>1. input.pointers[p] - 1 \in 0 .. n - 1 /\ (input.pointers[p] - 1) + 1 = input.pointers[p]
    BY <1>1, <1>4
  <2>2. access(input.pointers[p] - 1) = Raised(input, input.pointers[p])
        /\ Raised(input, input.pointers[p]) \in Nat
    BY <2>1, ValueAccessed DEF ValueIn, nodes
  <2> QED
    BY <1>2, <1>4, <2>2 DEF previous_range_upperbound
<1> QED
  BY <1>3, <1>4

LEMMA ValuesAccessed == Building => AccessGivesNode
<1> SUFFICES ASSUME Building PROVE AccessGivesNode
  OBVIOUS
<1>1. pc # "refused"
  BY DEF Building
<1>2. ASSUME Readable, ~ nodes, NEW i \in 0 .. n - 1 PROVE access(i) = input.values[i + 1]
  BY <1>2, ValueAccessed DEF ValueIn, nodes
<1>3. ASSUME Readable, nodes
      PROVE  /\ [i \in 1 .. n |-> access(i - 1)]
                  = Nodes!build("ef", input.values, input.pointers).values
             /\ \A p \in Ranges : \A place \in Nodes!Positions(RangeOf(p)) :
                  access_in(RangeOf(p), place) = input.values[place + 1]
  <2>1. n \in Nat \ {0} /\ n = Len(input.values) /\ NodesInput(input)
    BY <1>3, ReadableKnown DEF NodesInput, nodes
  <2>2. ASSUME NEW i \in 1 .. n PROVE access(i - 1) = Raised(input, i) /\ Raised(input, i) \in Nat
    <3>1. i - 1 \in 0 .. n - 1 /\ (i - 1) + 1 = i
      BY <2>1
    <3> QED
      BY <1>3, <3>1, ValueAccessed DEF ValueIn, nodes
  <2>3. Nodes!build("ef", input.values, input.pointers).values
          = [i \in 1 .. n |-> Raised(input, i)]
    <3>1. Nodes!build("ef", input.values, input.pointers).values
            = Nodes!raised(input.values, input.pointers)
      BY DEF Nodes!build
    <3> QED
      BY <2>1, <3>1, RaisingKnown
  <2>4. [i \in 1 .. n |-> access(i - 1)] = [i \in 1 .. n |-> Raised(input, i)]
    BY <2>2
  <2>5. ASSUME NEW p \in Ranges, NEW place \in Nodes!Positions(RangeOf(p))
        PROVE  access_in(RangeOf(p), place) = input.values[place + 1]
    <3>1. /\ p \in 1 .. Len(input.pointers) - 1
          /\ place \in input.pointers[p] .. input.pointers[p + 1] - 1
          /\ RangeOf(p).begin = input.pointers[p]
      BY DEF Ranges, RangeOf, Nodes!Positions
    <3>2. /\ Len(input.pointers) \in Nat
          /\ \A q \in 1 .. Len(input.pointers) : input.pointers[q] \in 0 .. n
      BY <2>1, PointerFacts
    <3>3. /\ input.pointers[p] \in 0 .. n /\ input.pointers[p + 1] \in 0 .. n
          /\ input.pointers[p] \in Nat /\ input.pointers[p + 1] \in Nat
      BY <2>1, <3>1, <3>2
    <3>4. place \in Nat /\ place + 1 \in 1 .. n /\ (place + 1) - 1 = place
          /\ place + 1 \in input.pointers[p] + 1 .. input.pointers[p + 1]
      BY <2>1, <3>1, <3>3
    <3>5. Raised(input, place + 1) = input.values[place + 1] + Raised(input, input.pointers[p])
      BY <2>1, <3>1, <3>4, RaisedInRange
    <3>6. previous_range_upperbound(RangeOf(p)) = Raised(input, input.pointers[p])
          /\ Raised(input, input.pointers[p]) \in Nat
      <4>1. p \in 1 .. Len(input.pointers)
        BY <3>1, <3>2
      <4> QED
        BY <1>3, <4>1, BoundRead
    <3>7. access(place) = Raised(input, place + 1) /\ Raised(input, place + 1) \in Nat
      BY <2>2, <3>4
    <3>8. input.values[place + 1] \in Nat
      BY <2>1, <3>4, PointerFacts
    <3> QED
      BY <3>5, <3>6, <3>7, <3>8 DEF access_in
  <2> QED
    BY <2>3, <2>4, <2>5
<1> QED
  BY <1>1, <1>2, <1>3 DEF AccessGivesNode

(* For words, values, pointers and ranges of any size: no value is refused, *)
(* access gives the pointers as they are and the nodes as they are raised, *)
(* which come back when the bound of their range is taken away.            *)
THEOREM AccessCorrect == Spec => []AccessGivesNode
<1> QED
  BY BuildingHolds, ValuesAccessed, PTL
-----------------------------------------------------------------------------
IteratorType ==
  [pos : Nat, val : Int, last : Int, high : Nat, prev_range_upper_bound : Int, low_buf : Word,
   chunks_avail : Int, high_enum : [position : Nat, buf : Word]]

(* The buffer of low bits begins with those of m values, if there are any  *)
(* as far as that.                                                         *)
Chunks(e, x, m) ==
  \A b \in 0 .. m * e.l - 1 :
    /\ b \in Bits
    /\ x.pos * e.l + b < e.low_bits.size =>
         (b \in x.low_buf <=> BitAt(e.low_bits.words, x.pos * e.l + b))

(* The iterator has just consumed the one of the value at its position.    *)
OneConsumed(in, e, x) ==
  x.pos < e.size =>
    x.high = HighPart(in, x.pos) + x.pos /\ x.high_enum = Passed(e.high_bits, x.high)

(* Its buffer has the low bits of as many values as it counts, and of so   *)
(* many more; without low bits it counts enough for all that are left.     *)
ChunksCounted(e, x, more) ==
  IF e.l = 0 THEN x.chunks_avail \in e.size - x.pos .. e.size
  ELSE x.chunks_avail \in 0 .. (word_width \div e.l) - 1 /\ Chunks(e, x, x.chunks_avail + more)

Ready(in, e, x, more) ==
  /\ x \in IteratorType /\ x.pos <= e.size
  /\ OneConsumed(in, e, x) /\ ChunksCounted(e, x, more)

(* A read of a word gives the low bits of as many values as fit.           *)
LEMMA ChunksFit ==
  ASSUME NEW l \in Nat \ {0}, l <= word_width
  PROVE  /\ word_width \div l \in Nat \ {0}
         /\ \A m \in 0 .. word_width \div l : \A b \in 0 .. m * l - 1 : b \in Bits
<1>0. word_width \in Nat \ {0}
  BY WordsAssumption
<1>1. PICK q \in Nat, r \in 0 .. l - 1 : q = word_width \div l /\ word_width = l * q + r
  BY <1>0, Division
<1>2. q # 0
  <2>1. q = 0 => l * q = 0
    OBVIOUS
  <2> QED
    BY <1>0, <1>1, <2>1
<1>3. ASSUME NEW m \in 0 .. q, NEW b \in 0 .. m * l - 1 PROVE b \in Bits
  <2>1. m \in Nat /\ l * m <= l * q /\ l * m = m * l /\ l * m \in Nat /\ l * q \in Nat
    BY MultiplesOrdered
  <2> QED
    BY <1>0, <1>1, <2>1 DEF Bits
<1> QED
  BY <1>1, <1>2, <1>3

LEMMA Refilled ==
  ASSUME Building, Readable, NEW x \in IteratorType, ef.l # 0
  PROVE  LET y == refilled(x)
         IN  /\ y \in IteratorType /\ y.pos = x.pos /\ y.last = x.last /\ y.high = x.high
             /\ y.high_enum = x.high_enum /\ y.prev_range_upper_bound = x.prev_range_upper_bound
             /\ y.chunks_avail = (word_width \div ef.l) - 1
             /\ \A m \in 0 .. word_width \div ef.l : Chunks(ef, y, m)
<1> DEFINE y == refilled(x)
           word == get_word64(ef.low_bits, x.pos * ef.l)
           l == ef.l
<1>1. l \in Nat \ {0} /\ l <= word_width /\ BitVec(ef.low_bits)
  <2>1. input \in Inputs /\ ef.l = LowWidth(input) /\ LowHeld(input, ef.low_bits, n)
    BY ReadableKnown
  <2>2. word_width \in Nat \ {0} /\ LowWidth(input) \in 0 .. word_width - 1
    BY <2>1, WordsAssumption, LowWidthKnown
  <2> QED
    BY <2>1, <2>2 DEF LowHeld, Packed
<1>2. x.pos \in Nat /\ x.pos * l \in Nat
  <2>1. x.pos \in Nat
    BY DEF IteratorType
  <2> QED
    BY <1>1, <2>1
<1> HIDE DEF l
<1>3. /\ word \in Word
      /\ \A b \in Bits : x.pos * l + b < ef.low_bits.size =>
           (b \in word <=> BitAt(ef.low_bits.words, x.pos * l + b))
  BY <1>1, <1>2, WordRead DEF l
<1>4. word_width \div l \in Nat \ {0}
      /\ \A m \in 0 .. word_width \div l : \A b \in 0 .. m * l - 1 : b \in Bits
  BY <1>1, ChunksFit
<1> DEFINE avail == (word_width \div l) - 1
<1>5. y = [x EXCEPT !.low_buf = word, !.chunks_avail = avail] /\ avail \in Int
  BY <1>4 DEF refilled, chunks_in_word, l
<1> HIDE DEF word, y, avail
<1>6. /\ y \in IteratorType /\ y.pos = x.pos /\ y.last = x.last /\ y.high = x.high
      /\ y.high_enum = x.high_enum /\ y.prev_range_upper_bound = x.prev_range_upper_bound
      /\ y.chunks_avail = avail /\ y.low_buf = word
  BY <1>3, <1>5 DEF IteratorType
<1>7. \A m \in 0 .. word_width \div l : Chunks(ef, y, m)
  BY <1>3, <1>4, <1>6 DEF Chunks, l
<1> QED
  BY <1>6, <1>7 DEF y, avail, l

(* The iterator moves on to the one of the value at its position.          *)
LEMMA HighMoved ==
  ASSUME Building, Readable, NEW x \in IteratorType, x.pos < n,
         \/ x.high_enum = unary_iterator(ef.high_bits, One(ef.high_bits, x.pos))
         \/ x.pos >= 1 /\ x.high_enum = Passed(ef.high_bits, One(ef.high_bits, x.pos - 1))
  PROVE  LET y == high_next(x)
         IN  /\ y \in IteratorType /\ y.pos = x.pos /\ y.last = x.last /\ y.low_buf = x.low_buf
             /\ y.prev_range_upper_bound = x.prev_range_upper_bound
             /\ y.chunks_avail = x.chunks_avail /\ y.val = x.val
             /\ OneConsumed(input, ef, y)
<1> DEFINE y == high_next(x)
           k == x.pos
           h == One(ef.high_bits, k)
           e == next_one(ef.high_bits, x.high_enum)
<1>1. /\ n \in Nat /\ BitVec(ef.high_bits) /\ Cardinality(Places(ef.high_bits)) = n
      /\ \A j \in 0 .. n - 1 : One(ef.high_bits, j) = HighPart(input, j) + j /\ HighPart(input, j) \in Nat
  BY ReadableKnown
<1>2. k \in 0 .. n - 1 /\ k \in Nat
  <2>1. k \in Nat
    BY DEF IteratorType
  <2> QED
    BY <1>1, <2>1
<1> HIDE DEF k
<1>3. e = Passed(ef.high_bits, h)
  <2>1. CASE x.high_enum = unary_iterator(ef.high_bits, One(ef.high_bits, k))
    <3>1. k \in 0 .. Cardinality(Places(ef.high_bits)) - 1
      BY <1>1, <1>2
    <3> QED
      BY <1>1, <2>1, <3>1, OnesGivenInTurn
  <2>2. CASE k >= 1 /\ x.high_enum = Passed(ef.high_bits, One(ef.high_bits, k - 1))
    <3>1. /\ k - 1 \in 0 .. Cardinality(Places(ef.high_bits)) - 1 /\ (k - 1) + 1 = k
          /\ k < Cardinality(Places(ef.high_bits))
      BY <1>1, <1>2, <2>2
    <3> QED
      BY <1>1, <2>2, <3>1, OnesGivenInTurn
  <2> QED
    BY <2>1, <2>2 DEF k
<1>4. h \in Nat /\ h = HighPart(input, k) + k
  BY <1>1, <1>2
<1> HIDE DEF h
<1>5. e \in [position : Nat, buf : Word] /\ e.position = h
  <2>1. \A j : WordAt(ef.high_bits.words, j) \in SUBSET Bits
    <3>1. \A j \in DOMAIN ef.high_bits.words : ef.high_bits.words[j] \in SUBSET Bits
      BY <1>1 DEF BitVec, Word
    <3> QED
      BY <3>1 DEF WordAt
  <2> QED
    BY <1>3, <1>4, <2>1 DEF Passed, Word
<1>6. y = [x EXCEPT !.high_enum = e, !.high = e.position]
  BY DEF high_next
<1> HIDE DEF e, y
<1>7. /\ y \in IteratorType /\ y.pos = x.pos /\ y.last = x.last /\ y.low_buf = x.low_buf
      /\ y.prev_range_upper_bound = x.prev_range_upper_bound
      /\ y.chunks_avail = x.chunks_avail /\ y.val = x.val
      /\ y.high = h /\ y.high_enum = e
  <2>1. y = [x EXCEPT !.high_enum = e, !.high = h]
    BY <1>5, <1>6
  <2> QED
    BY <1>4, <1>5, <2>1 DEF IteratorType
<1>8. OneConsumed(input, ef, y)
  BY <1>3, <1>4, <1>7 DEF OneConsumed, k
<1> QED
  BY <1>7, <1>8 DEF y

(* After the low bits of one value those of the next are left.             *)
LEMMA ChunksShift ==
  ASSUME NEW e, e.l \in Nat, NEW m \in Nat, NEW x, x.pos \in Nat, Chunks(e, x, m + 1),
         NEW y, y.pos = x.pos + 1, y.low_buf = Right(x.low_buf, e.l)
  PROVE  Chunks(e, y, m)
<1> DEFINE l == e.l
<1>1. PICK a \in Nat, c \in Nat : a = m * l /\ c = x.pos * l
  OBVIOUS
<1>2. (m + 1) * l = a + l /\ y.pos * l = c + l
  <2>1. PICK k \in Nat, w \in Nat : k = x.pos /\ w = l
    OBVIOUS
  <2>2. (m + 1) * w = m * w + w /\ (k + 1) * w = k * w + w
    OBVIOUS
  <2>3. y.pos = k + 1
    BY <2>1
  <2> QED
    BY <1>1, <2>1, <2>2, <2>3
<1>3. ASSUME NEW b \in 0 .. m * l - 1
      PROVE  /\ b \in Bits
             /\ y.pos * l + b < e.low_bits.size =>
                  (b \in y.low_buf <=> BitAt(e.low_bits.words, y.pos * l + b))
  <2>1. b \in 0 .. (m + 1) * l - 1 /\ b + l \in 0 .. (m + 1) * l - 1 /\ c + (b + l) = (c + l) + b
    BY <1>1, <1>2
  <2>2. b \in Bits /\ (c + (b + l) < e.low_bits.size =>
          (b + l \in x.low_buf <=> BitAt(e.low_bits.words, c + (b + l))))
    BY <1>1, <2>1 DEF Chunks
  <2>3. b \in y.low_buf <=> b + l \in x.low_buf
    BY <2>2 DEF Right
  <2> QED
    BY <1>2, <2>1, <2>2, <2>3
<1> QED
  BY <1>3 DEF Chunks

LEMMA ChunksFewer ==
  ASSUME NEW e, e.l \in Nat, NEW x, NEW m \in Nat, Chunks(e, x, m + 1)
  PROVE  Chunks(e, x, m)
<1>1. PICK a \in Nat : a = m * e.l /\ (m + 1) * e.l = a + e.l
  OBVIOUS
<1>2. \A b \in 0 .. m * e.l - 1 : b \in 0 .. (m + 1) * e.l - 1
  BY <1>1
<1> QED
  BY <1>2 DEF Chunks

(* What is put together is the value at the position.                      *)
LEMMA CurrentKnown ==
  ASSUME Building, Readable, NEW x \in IteratorType, x.pos < n, OneConsumed(input, ef, x),
         ef.l # 0 => Chunks(ef, x, 1)
  PROVE  current(x) = ValueIn(input, x.pos) /\ ValueIn(input, x.pos) \in Nat
<1> DEFINE k == x.pos
           l == ef.l
<1>1. /\ input \in Inputs /\ n \in Nat \ {0} /\ n = Len(input.values) /\ l = LowWidth(input)
      /\ ef.size = n
      /\ LowHeld(input, ef.low_bits, n)
      /\ \A j \in 0 .. n - 1 : HighPart(input, j) \in Nat
  BY ReadableKnown
<1>2. k \in 0 .. n - 1 /\ k \in Nat
  <2>1. k \in Nat
    BY DEF IteratorType
  <2> QED
    BY <1>1, <2>1
<1>3. ValueIn(input, k) \in Nat
  BY <1>1, <1>2, ValuesInOrder
<1>4. word_width \in Nat \ {0} /\ l \in 0 .. word_width - 1 /\ l \in Nat /\ l \in 0 .. word_width
  <2>1. word_width \in Nat \ {0} /\ LowWidth(input) \in 0 .. word_width - 1
    BY <1>1, WordsAssumption, LowWidthKnown
  <2> QED
    BY <1>1, <2>1
<1>5. x.high = HighPart(input, k) + k
  BY <1>1, <1>2 DEF OneConsumed
<1>6. /\ ef.low_bits.size = n * l
      /\ \A b \in 0 .. l - 1 : BitAt(ef.low_bits.words, k * l + b) <=> b \in bits_of(ValueIn(input, k))
  BY <1>1, <1>2 DEF LowHeld
<1>7. x.low_buf \cap Mask(l) = bits_of(ValueIn(input, k)) \cap Mask(l)
  <2>1. CASE l = 0
    BY <2>1 DEF Mask
  <2>2. CASE l # 0
    <3>1. k * l + l <= n * l /\ k * l \in Nat /\ n * l \in Nat
      <4>1. k + 1 <= n /\ k + 1 \in Nat
        BY <1>1, <1>2
      <4>2. l * (k + 1) <= l * n /\ l * (k + 1) = l * k + l /\ l * k \in Nat
        BY <1>1, <1>2, <1>4, <2>2, <4>1, MultiplesOrdered
      <4>3. l * k = k * l /\ l * n = n * l
        BY <1>1, <1>2, <1>4
      <4> QED
        BY <1>1, <1>2, <1>4, <4>2, <4>3
    <3>2. PICK a \in Nat, c \in Nat : a = k * l /\ c = n * l /\ a + l <= c
      BY <3>1
    <3>3. \A b \in 0 .. l - 1 : b \in x.low_buf <=> BitAt(ef.low_bits.words, k * l + b)
      <4> TAKE b \in 0 .. l - 1
      <4>1. b \in 0 .. 1 * l - 1
        BY <1>4
      <4>2. k * l + b < ef.low_bits.size
        BY <1>4, <1>6, <3>2
      <4> QED
        BY <2>2, <4>1, <4>2 DEF Chunks
    <3> HIDE DEF k, l
    <3> QED
      BY <1>6, <3>3 DEF Mask
  <2> QED
    BY <2>1, <2>2
<1>8. current(x) = HighPart(input, k) * power[l] + number(bits_of(ValueIn(input, k)) \cap Mask(l))
  <2>1. x.high - k = HighPart(input, k)
    BY <1>1, <1>2, <1>5
  <2> QED
    BY <1>7, <2>1 DEF current, joined
<1>9. HighPart(input, k) = ValueIn(input, k) \div power[l]
  BY <1>1 DEF HighPart
<1> HIDE DEF k, l
<1>10. current(x) = ValueIn(input, k)
  BY <1>3, <1>4, <1>8, <1>9, LowBits
<1> QED
  BY <1>3, <1>10 DEF k

LEMMA ChunksAmong ==
  ASSUME NEW e, e.l \in Nat, NEW x, NEW k \in Nat, Chunks(e, x, k), NEW m \in 0 .. k
  PROVE  Chunks(e, x, m)
<1>1. PICK w \in Nat : w = e.l
  OBVIOUS
<1>2. w * m <= w * k /\ w * m = m * w /\ w * k = k * w /\ w * m \in Nat /\ w * k \in Nat
  BY MultiplesOrdered
<1>3. \A b \in 0 .. m * w - 1 : b \in 0 .. k * w - 1
  BY <1>2
<1> QED
  BY <1>1, <1>3 DEF Chunks

(* What is known of the parts of a sequence that can be read.              *)
LEMMA ReadableParts ==
  ASSUME Building, Readable
  PROVE  /\ n \in Nat \ {0} /\ ef.size = n /\ ef.d1.positions = n /\ ef.l \in Nat
         /\ ef.l \in 0 .. word_width - 1 /\ word_width \in Nat \ {0}
         /\ BitVec(ef.high_bits) /\ BitVec(ef.low_bits)
         /\ ef.l # 0 => word_width \div ef.l \in Nat \ {0}
<1>1. /\ input \in Inputs /\ n \in Nat \ {0} /\ ef.size = n /\ ef.d1.positions = n
      /\ ef.l = LowWidth(input) /\ BitVec(ef.high_bits) /\ LowHeld(input, ef.low_bits, n)
  BY ReadableKnown
<1>2. word_width \in Nat \ {0} /\ LowWidth(input) \in 0 .. word_width - 1
  BY <1>1, WordsAssumption, LowWidthKnown
<1>3. ef.l \in 0 .. word_width - 1 /\ ef.l \in Nat
  BY <1>1, <1>2
<1>4. BitVec(ef.low_bits)
  BY <1>1 DEF LowHeld, Packed
<1>5. ef.l # 0 => word_width \div ef.l \in Nat \ {0}
  BY <1>2, <1>3, ChunksFit
<1> QED
  BY <1>1, <1>2, <1>3, <1>4, <1>5

(* An iterator begins ready for the value at its position.                 *)
LEMMA IteratorReady ==
  ASSUME Building, Readable, NEW place \in 0 .. n - 1, NEW r, previous_range_upperbound(r) \in Int
  PROVE  LET x == iterator(r, place)
         IN  /\ Ready(input, ef, x, 1) /\ x.pos = place
             /\ x.prev_range_upper_bound = previous_range_upperbound(r)
<1> DEFINE u == universe
           prev == previous_range_upperbound(r)
           e == unary_iterator(ef.high_bits, One(ef.high_bits, place))
           x == [pos |-> place, val |-> u, last |-> 0, high |-> 0, prev_range_upper_bound |-> prev,
                 low_buf |-> {}, chunks_avail |-> ef.d1.positions, high_enum |-> e]
           y == IF ef.l = 0 THEN x ELSE refilled(x)
           z == high_next(y)
<1>1. /\ n \in Nat \ {0} /\ ef.size = n /\ ef.d1.positions = n /\ ef.l \in Nat
      /\ ef.l # 0 => word_width \div ef.l \in Nat \ {0}
      /\ BitVec(ef.high_bits)
  BY ReadableParts
<1>2. place \in Nat /\ place < n
  BY <1>1
<1>3. u \in Int
  <2>1. n - 1 \in 0 .. n - 1
    BY <1>1
  <2>2. access(n - 1) \in Nat
    BY <2>1, ValueAccessed
  <2> QED
    BY <1>1, <2>2 DEF universe
<1>4. select(ef.d1, ef.high_bits, place) = One(ef.high_bits, place) /\ One(ef.high_bits, place) \in Nat
  <2>1. /\ select(ef.d1, ef.high_bits, place) = HighPart(input, place) + place
        /\ One(ef.high_bits, place) = HighPart(input, place) + place /\ HighPart(input, place) \in Nat
    BY ReadableKnown
  <2> QED
    BY <1>2, <2>1
<1>5. e \in [position : Nat, buf : Word]
  <2>1. \A j : WordAt(ef.high_bits.words, j) \in SUBSET Bits
    <3>1. \A j \in DOMAIN ef.high_bits.words : ef.high_bits.words[j] \in SUBSET Bits
      BY <1>1 DEF BitVec, Word
    <3> QED
      BY <3>1 DEF WordAt
  <2> QED
    BY <1>4, <2>1 DEF unary_iterator, Word
<1>6. iterator(r, place) = z
  BY <1>4 DEF iterator
<1> HIDE DEF u, prev, e
<1>7. /\ x \in IteratorType /\ x.pos = place /\ x.chunks_avail = n /\ x.high_enum = e
      /\ x.prev_range_upper_bound = prev
  <2>1. {} \in Word /\ prev \in Int
    BY DEF Word, prev
  <2> QED
    BY <1>1, <1>2, <1>3, <1>5, <2>1 DEF IteratorType
<1> HIDE DEF x
<1>8. /\ y \in IteratorType /\ y.pos = place /\ y.high_enum = e /\ y.prev_range_upper_bound = prev
      /\ ChunksCounted(ef, y, 1)
  <2>1. CASE ef.l = 0
    BY <1>1, <1>2, <1>7, <2>1 DEF ChunksCounted
  <2>2. CASE ef.l # 0
    <3>1. /\ y \in IteratorType /\ y.pos = x.pos /\ y.high_enum = x.high_enum
          /\ y.prev_range_upper_bound = x.prev_range_upper_bound
          /\ y.chunks_avail = (word_width \div ef.l) - 1
          /\ \A m \in 0 .. word_width \div ef.l : Chunks(ef, y, m)
      BY <1>7, <2>2, Refilled
    <3>2. PICK q \in Nat \ {0} : q = word_width \div ef.l
      BY <1>1, <2>2
    <3>3. (q - 1) + 1 \in 0 .. q /\ q - 1 \in 0 .. q - 1
      OBVIOUS
    <3> QED
      BY <1>7, <2>2, <3>1, <3>2, <3>3 DEF ChunksCounted
  <2> QED
    BY <2>1, <2>2
<1> HIDE DEF y
<1>9. /\ z \in IteratorType /\ z.pos = y.pos /\ z.low_buf = y.low_buf
      /\ z.prev_range_upper_bound = y.prev_range_upper_bound /\ z.chunks_avail = y.chunks_avail
      /\ OneConsumed(input, ef, z)
  <2>1. y.high_enum = unary_iterator(ef.high_bits, One(ef.high_bits, y.pos)) /\ y.pos < n
    BY <1>2, <1>8 DEF e
  <2> QED
    BY <1>8, <2>1, HighMoved
<1> HIDE DEF z
<1>10. ChunksCounted(ef, z, 1)
  BY <1>8, <1>9 DEF ChunksCounted, Chunks
<1> QED
  BY <1>1, <1>2, <1>6, <1>8, <1>9, <1>10 DEF Ready, prev

LEMMA ReadyToGive ==
  ASSUME Building, Readable, NEW x, Ready(input, ef, x, 1)
  PROVE  Ready(input, ef, x, 0)
<1>1. ef.l \in Nat
  BY ReadableParts
<1>2. ASSUME ef.l # 0 PROVE Chunks(ef, x, x.chunks_avail + 0)
  <2>1. x.chunks_avail \in Nat /\ Chunks(ef, x, x.chunks_avail + 1)
    BY <1>2, ReadableParts DEF Ready, ChunksCounted
  <2>2. Chunks(ef, x, x.chunks_avail)
    BY <1>1, <2>1, ChunksFewer
  <2> QED
    BY <2>1, <2>2
<1> QED
  BY <1>2 DEF Ready, ChunksCounted

(* What value() reads of an iterator that is ready.                        *)
LEMMA ReadGiven ==
  ASSUME Building, Readable, NEW x, Ready(input, ef, x, 1), x.pos < n
  PROVE  LET y == value_read(x)
         IN  /\ Ready(input, ef, y, 1) /\ y.pos = x.pos
             /\ y.prev_range_upper_bound = x.prev_range_upper_bound
             /\ y.last = ValueIn(input, x.pos) /\ ValueIn(input, x.pos) \in Nat
             /\ value(x) = ValueIn(input, x.pos) - x.prev_range_upper_bound
<1>1. ef.size = n /\ ef.l \in Nat /\ n \in Nat /\ word_width \in Nat
  BY ReadableParts
<1>2. x \in IteratorType /\ OneConsumed(input, ef, x) /\ ChunksCounted(ef, x, 1) /\ x.pos \in Nat
  BY DEF Ready, IteratorType
<1>3. ef.l # 0 => Chunks(ef, x, 1)
  <2>1. SUFFICES ASSUME ef.l # 0 PROVE Chunks(ef, x, 1)
    OBVIOUS
  <2>2. x.chunks_avail \in Nat /\ Chunks(ef, x, x.chunks_avail + 1)
    BY <1>2, <2>1, ReadableParts DEF ChunksCounted
  <2>3. 1 \in 0 .. x.chunks_avail + 1 /\ x.chunks_avail + 1 \in Nat
    BY <2>2
  <2> QED
    BY <1>1, <2>2, <2>3, ChunksAmong
<1>4. current(x) = ValueIn(input, x.pos) /\ ValueIn(input, x.pos) \in Nat
  BY <1>2, <1>3, CurrentKnown
<1> DEFINE v == ValueIn(input, x.pos)
           d == deref(x)
           y == value_read(x)
<1> HIDE DEF v
<1>5. d = [x EXCEPT !.val = v] /\ v \in Nat
  BY <1>1, <1>2, <1>4 DEF deref, v
<1>6. d.val = v /\ y = [d EXCEPT !.last = v]
  BY <1>2, <1>5 DEF value_read, IteratorType
<1>7. value(x) = v - x.prev_range_upper_bound
  BY <1>6 DEF value
<1> HIDE DEF d, y
<1>8. /\ y \in IteratorType /\ y.pos = x.pos /\ y.high = x.high /\ y.high_enum = x.high_enum
      /\ y.prev_range_upper_bound = x.prev_range_upper_bound /\ y.last = v
      /\ y.low_buf = x.low_buf /\ y.chunks_avail = x.chunks_avail
  <2>1. d = [x EXCEPT !.val = v] /\ v \in Int
    BY <1>5
  <2>2. /\ d \in IteratorType /\ d.pos = x.pos /\ d.high = x.high /\ d.high_enum = x.high_enum
        /\ d.prev_range_upper_bound = x.prev_range_upper_bound
        /\ d.low_buf = x.low_buf /\ d.chunks_avail = x.chunks_avail
    BY <1>2, <2>1 DEF IteratorType
  <2>3. y = [d EXCEPT !.last = v]
    BY <1>6
  <2> QED
    BY <2>1, <2>2, <2>3 DEF IteratorType
<1>9. Ready(input, ef, y, 1)
  BY <1>8 DEF Ready, OneConsumed, ChunksCounted, Chunks
<1> QED
  BY <1>5, <1>7, <1>8, <1>9 DEF v, y

(* ++ leaves it ready for the next value, while there is one.              *)
LEMMA Incremented ==
  ASSUME Building, Readable, NEW x, Ready(input, ef, x, 1), x.pos + 1 < n
  PROVE  LET y == increment(x)
         IN  /\ Ready(input, ef, y, 1) /\ y.pos = x.pos + 1
             /\ y.last = x.last /\ y.prev_range_upper_bound = x.prev_range_upper_bound
<1> DEFINE y == [x EXCEPT !.pos = x.pos + 1]
           h == high_next(y)
           z == [h EXCEPT !.low_buf = Right(h.low_buf, ef.l), !.chunks_avail = h.chunks_avail - 1]
           w == IF x.chunks_avail = 0 THEN refilled(z) ELSE z
<1>1. /\ ef.size = n /\ ef.l \in Nat /\ n \in Nat /\ word_width \in Nat
      /\ ef.l # 0 => word_width \div ef.l \in Nat \ {0}
  BY ReadableParts
<1>2. /\ x \in IteratorType /\ OneConsumed(input, ef, x) /\ ChunksCounted(ef, x, 1) /\ x.pos \in Nat
      /\ x.chunks_avail \in Int /\ x.low_buf \in Word
  BY DEF Ready, IteratorType
<1>3. increment(x) = w
  <2>1. y.pos = x.pos + 1
    BY <1>2 DEF IteratorType
  <2>2. y.pos # ef.size
    BY <1>1, <1>2, <2>1
  <2> QED
    BY <2>2 DEF increment
<1>4. /\ y \in IteratorType /\ y.pos = x.pos + 1 /\ y.last = x.last /\ y.low_buf = x.low_buf
      /\ y.prev_range_upper_bound = x.prev_range_upper_bound
      /\ y.chunks_avail = x.chunks_avail /\ y.high_enum = x.high_enum
  BY <1>2 DEF IteratorType
<1> HIDE DEF y
<1>5. y.pos >= 1 /\ y.high_enum = Passed(ef.high_bits, One(ef.high_bits, y.pos - 1)) /\ y.pos < n
  <2>1. x.pos \in 0 .. n - 1
    BY <1>1, <1>2
  <2>2. One(ef.high_bits, x.pos) = HighPart(input, x.pos) + x.pos
    BY <2>1, ReadableKnown
  <2>3. x.high_enum = Passed(ef.high_bits, HighPart(input, x.pos) + x.pos)
    BY <1>1, <1>2, <2>1 DEF OneConsumed
  <2>4. y.pos - 1 = x.pos /\ y.pos >= 1 /\ y.pos < n
    BY <1>1, <1>2, <1>4
  <2> QED
    BY <1>4, <2>2, <2>3, <2>4
<1>6. /\ h \in IteratorType /\ h.pos = x.pos + 1 /\ h.last = x.last /\ h.low_buf = x.low_buf
      /\ h.prev_range_upper_bound = x.prev_range_upper_bound /\ h.chunks_avail = x.chunks_avail
      /\ OneConsumed(input, ef, h)
  BY <1>4, <1>5, HighMoved
<1> HIDE DEF h
<1>7. /\ z \in IteratorType /\ z.pos = x.pos + 1 /\ z.last = x.last
      /\ z.low_buf = Right(x.low_buf, ef.l)
      /\ z.prev_range_upper_bound = x.prev_range_upper_bound
      /\ z.chunks_avail = x.chunks_avail - 1 /\ z.high = h.high /\ z.high_enum = h.high_enum
  <2>1. Right(h.low_buf, ef.l) \in Word /\ h.chunks_avail - 1 \in Int
    BY <1>2, <1>6 DEF Right, Word
  <2> QED
    BY <1>6, <2>1 DEF IteratorType
<1>8. OneConsumed(input, ef, z)
  BY <1>6, <1>7 DEF OneConsumed
<1> HIDE DEF z
<1>9. /\ w \in IteratorType /\ w.pos = x.pos + 1 /\ w.last = x.last
      /\ w.prev_range_upper_bound = x.prev_range_upper_bound
      /\ OneConsumed(input, ef, w) /\ ChunksCounted(ef, w, 1)
  <2>1. CASE ef.l = 0
    <3>1. x.chunks_avail \in n - x.pos .. n
      BY <1>1, <1>2, <2>1 DEF ChunksCounted
    <3>2. x.chunks_avail # 0 /\ x.chunks_avail - 1 \in n - (x.pos + 1) .. n
      BY <1>1, <1>2, <3>1
    <3>3. w = z
      BY <3>2
    <3> QED
      BY <1>1, <1>7, <1>8, <2>1, <3>2, <3>3 DEF ChunksCounted
  <2>2. CASE ef.l # 0
    <3>1. PICK q \in Nat \ {0} : q = word_width \div ef.l
      BY <1>1, <2>2
    <3>2. x.chunks_avail \in 0 .. q - 1 /\ Chunks(ef, x, x.chunks_avail + 1)
      BY <1>2, <2>2, <3>1 DEF ChunksCounted
    <3>3. CASE x.chunks_avail = 0
      <4>1. /\ w \in IteratorType /\ w.pos = z.pos /\ w.last = z.last /\ w.high = z.high
            /\ w.high_enum = z.high_enum /\ w.prev_range_upper_bound = z.prev_range_upper_bound
            /\ w.chunks_avail = (word_width \div ef.l) - 1
            /\ \A m \in 0 .. word_width \div ef.l : Chunks(ef, w, m)
        BY <1>7, <2>2, <3>3, Refilled
      <4>2. (q - 1) + 1 \in 0 .. q /\ q - 1 \in 0 .. q - 1
        OBVIOUS
      <4>3. OneConsumed(input, ef, w)
        BY <1>8, <4>1 DEF OneConsumed
      <4>4. ChunksCounted(ef, w, 1)
        BY <2>2, <3>1, <4>1, <4>2 DEF ChunksCounted
      <4> QED
        BY <1>7, <4>1, <4>3, <4>4
    <3>4. CASE x.chunks_avail # 0
      <4>1. w = z
        BY <3>4
      <4>2. x.chunks_avail \in Nat
        BY <3>2
      <4>3. Chunks(ef, z, x.chunks_avail)
        BY <1>1, <1>2, <1>7, <3>2, <4>2, ChunksShift
      <4>4. z.chunks_avail \in 0 .. q - 1 /\ z.chunks_avail + 1 = x.chunks_avail
        BY <1>7, <3>2, <3>4
      <4>5. ChunksCounted(ef, z, 1)
        BY <2>2, <3>1, <4>3, <4>4 DEF ChunksCounted
      <4> QED
        BY <1>7, <1>8, <4>1, <4>5
    <3> QED
      BY <3>3, <3>4
  <2> QED
    BY <2>1, <2>2
<1> HIDE DEF w
<1>10. w.pos <= ef.size
  BY <1>1, <1>2, <1>9
<1> QED
  BY <1>3, <1>9, <1>10 DEF Ready

(* next() gives the value at the position, and repeats the last at the end. *)
LEMMA NextGiven ==
  ASSUME Building, Readable, NEW x, Ready(input, ef, x, 0)
  PROVE  IF x.pos = n THEN next(x) = x
         ELSE LET y == next(x)
              IN  Ready(input, ef, y, 0) /\ y.pos = x.pos + 1 /\ y.val = ValueIn(input, x.pos)
<1> DEFINE y == IF x.chunks_avail = 0 THEN refilled(x)
                ELSE [x EXCEPT !.chunks_avail = x.chunks_avail - 1]
           v == current(y)
           z == [y EXCEPT !.val = v, !.pos = y.pos + 1, !.low_buf = Right(y.low_buf, ef.l)]
           w == IF z.pos = n THEN z ELSE high_next(z)
<1>1. /\ ef.size = n /\ ef.l \in Nat /\ n \in Nat /\ word_width \in Nat
      /\ ef.l # 0 => word_width \div ef.l \in Nat \ {0}
  BY ReadableParts
<1>2. /\ x \in IteratorType /\ OneConsumed(input, ef, x) /\ ChunksCounted(ef, x, 0) /\ x.pos \in Nat
      /\ x.chunks_avail \in Int /\ x.pos <= n
  BY <1>1 DEF Ready, IteratorType
<1>3. next(x) = IF x.pos = n THEN x ELSE w
  BY <1>1 DEF next
<1>4. SUFFICES ASSUME x.pos # n
               PROVE  Ready(input, ef, w, 0) /\ w.pos = x.pos + 1 /\ w.val = ValueIn(input, x.pos)
  BY <1>3
<1>5. x.pos < n /\ x.pos \in 0 .. n - 1 /\ x.pos + 1 \in Nat /\ x.pos + 1 <= n
  BY <1>1, <1>2, <1>4
(* The low bits of the value, and of as many more as are counted.          *)
<1>6. /\ y \in IteratorType /\ y.pos = x.pos /\ y.high = x.high /\ y.high_enum = x.high_enum
      /\ y.last = x.last
      /\ IF ef.l = 0 THEN y.chunks_avail \in n - (x.pos + 1) .. n
         ELSE /\ y.chunks_avail \in 0 .. (word_width \div ef.l) - 1
              /\ Chunks(ef, y, y.chunks_avail + 1)
  <2> DEFINE d == [x EXCEPT !.chunks_avail = x.chunks_avail - 1]
  <2>1. /\ d \in IteratorType /\ d.pos = x.pos /\ d.high = x.high /\ d.high_enum = x.high_enum
        /\ d.last = x.last /\ d.low_buf = x.low_buf /\ d.chunks_avail = x.chunks_avail - 1
    <3>1. x.chunks_avail - 1 \in Int
      BY <1>2
    <3> QED
      BY <1>2, <3>1 DEF IteratorType
  <2> HIDE DEF d
  <2>2. CASE ef.l = 0
    <3>1. x.chunks_avail \in n - x.pos .. n
      BY <1>1, <1>2, <2>2 DEF ChunksCounted
    <3>2. x.chunks_avail # 0 /\ x.chunks_avail - 1 \in n - (x.pos + 1) .. n
      BY <1>1, <1>5, <3>1
    <3> QED
      BY <2>1, <2>2, <3>2 DEF d
  <2>3. CASE ef.l # 0
    <3>1. PICK q \in Nat \ {0} : q = word_width \div ef.l
      BY <1>1, <2>3
    <3>2. x.chunks_avail \in 0 .. q - 1 /\ Chunks(ef, x, x.chunks_avail + 0)
      BY <1>2, <2>3, <3>1 DEF ChunksCounted
    <3>3. CASE x.chunks_avail = 0
      <4>1. /\ y \in IteratorType /\ y.pos = x.pos /\ y.last = x.last /\ y.high = x.high
            /\ y.high_enum = x.high_enum
            /\ y.chunks_avail = (word_width \div ef.l) - 1
            /\ \A m \in 0 .. word_width \div ef.l : Chunks(ef, y, m)
        BY <1>2, <2>3, <3>3, Refilled
      <4>2. (q - 1) + 1 \in 0 .. q /\ q - 1 \in 0 .. q - 1
        OBVIOUS
      <4> QED
        BY <2>3, <3>1, <4>1, <4>2
    <3>4. CASE x.chunks_avail # 0
      <4>1. y = d
        BY <3>4 DEF d
      <4>2. x.chunks_avail + 0 = (x.chunks_avail - 1) + 1 /\ x.chunks_avail - 1 \in 0 .. q - 1
        BY <3>2, <3>4
      <4>3. Chunks(ef, d, d.chunks_avail + 1)
        BY <2>1, <3>2, <4>2 DEF Chunks
      <4> QED
        BY <2>1, <2>3, <3>1, <4>1, <4>2, <4>3
    <3> QED
      BY <3>3, <3>4
  <2> QED
    BY <2>2, <2>3
<1> HIDE DEF y
<1>7. v = ValueIn(input, x.pos) /\ v \in Nat
  <2>1. OneConsumed(input, ef, y)
    BY <1>2, <1>6 DEF OneConsumed
  <2>2. ef.l # 0 => Chunks(ef, y, 1)
    <3>1. SUFFICES ASSUME ef.l # 0 PROVE Chunks(ef, y, 1)
      OBVIOUS
    <3>2. y.chunks_avail + 1 \in Nat /\ Chunks(ef, y, y.chunks_avail + 1) /\ 1 \in 0 .. y.chunks_avail + 1
      BY <1>1, <1>6, <3>1
    <3> QED
      BY <1>1, <3>2, ChunksAmong
  <2> QED
    BY <1>5, <1>6, <2>1, <2>2, CurrentKnown
<1> HIDE DEF v
<1>8. /\ z \in IteratorType /\ z.pos = x.pos + 1 /\ z.val = v /\ z.chunks_avail = y.chunks_avail
      /\ z.low_buf = Right(y.low_buf, ef.l) /\ z.high_enum = x.high_enum
  <2>1. Right(y.low_buf, ef.l) \in Word /\ v \in Int /\ y.pos + 1 = x.pos + 1
    BY <1>6, <1>7 DEF Right, Word
  <2> QED
    BY <1>5, <1>6, <2>1 DEF IteratorType
<1> HIDE DEF z
<1>9. ChunksCounted(ef, z, 0)
  <2>1. CASE ef.l = 0
    BY <1>1, <1>6, <1>8, <2>1 DEF ChunksCounted
  <2>2. CASE ef.l # 0
    <3>1. y.chunks_avail \in Nat /\ Chunks(ef, y, y.chunks_avail + 1)
      BY <1>1, <1>6, <2>2
    <3>2. y.pos \in Nat /\ z.pos = y.pos + 1
      BY <1>2, <1>6, <1>8
    <3>3. Chunks(ef, z, y.chunks_avail)
      BY <1>1, <1>8, <3>1, <3>2, ChunksShift
    <3>4. z.chunks_avail + 0 = y.chunks_avail
      BY <1>8, <3>1
    <3> QED
      BY <1>6, <1>8, <2>2, <3>3, <3>4 DEF ChunksCounted
  <2> QED
    BY <2>1, <2>2
<1>10. CASE z.pos = n
  BY <1>1, <1>7, <1>8, <1>9, <1>10 DEF Ready, OneConsumed
<1>11. CASE z.pos # n
  <2>1. z.pos < n /\ z.pos >= 1 /\ z.pos - 1 = x.pos
    BY <1>1, <1>2, <1>5, <1>8, <1>11
  <2>2. z.high_enum = Passed(ef.high_bits, One(ef.high_bits, z.pos - 1))
    <3>1. One(ef.high_bits, x.pos) = HighPart(input, x.pos) + x.pos
      BY <1>5, ReadableKnown
    <3>2. x.high_enum = Passed(ef.high_bits, HighPart(input, x.pos) + x.pos)
      BY <1>1, <1>2, <1>5 DEF OneConsumed
    <3> QED
      BY <1>8, <2>1, <3>1, <3>2
  <2>3. w = high_next(z)
    BY <1>11
  <2>4. /\ w \in IteratorType /\ w.pos = z.pos /\ w.low_buf = z.low_buf
        /\ w.chunks_avail = z.chunks_avail /\ w.val = z.val
        /\ OneConsumed(input, ef, w)
    BY <1>8, <2>1, <2>2, <2>3, HighMoved
  <2>5. ChunksCounted(ef, w, 0)
    BY <1>9, <2>4 DEF ChunksCounted, Chunks
  <2>6. w.pos <= ef.size
    BY <1>1, <1>5, <1>8, <2>4
  <2> QED
    BY <1>7, <1>8, <2>4, <2>5, <2>6 DEF Ready
<1> QED
  BY <1>10, <1>11

NoneEmpty(in) == \A q \in 1 .. Len(in.pointers) - 1 : in.pointers[q] < in.pointers[q + 1]

(* A client that goes through nodes: its iterator is ready for the value   *)
(* at its position, inside its range, and has the bound of that range.     *)
AtNode(in, e, x, p) ==
  /\ Ready(in, e, x, 1)
  /\ p \in 1 .. Len(in.pointers) - 1 /\ x.pos \in in.pointers[p] .. in.pointers[p + 1] - 1
  /\ x.prev_range_upper_bound = Raised(in, in.pointers[p])

NodesWalk(in, e, i) ==
  /\ NoneEmpty(in) /\ AtNode(in, e, i.iterator, i.range)
  /\ i.iterator.last = Raised(in, i.iterator.pos + 1)
  /\ i.given = in.values[i.iterator.pos + 1]

(* A client that reads pointers is past the one it has been given.         *)
PointersWalk(in, e, i) ==
  /\ Ready(in, e, i.iterator, 0) /\ i.iterator.pos >= 1
  /\ i.iterator.val = in.values[i.iterator.pos] /\ i.given = i.iterator.val

Walking ==
  /\ Building
  /\ pc \in {"filling", "raising"} => ef = no_ef
  /\ pc = "walking" => IF nodes THEN NodesWalk(input, ef, it) ELSE PointersWalk(input, ef, it)

LEMMA NodeGiven ==
  ASSUME Building, Readable, nodes, NoneEmpty(input), NEW x, NEW p, AtNode(input, ef, x, p)
  PROVE  NodesWalk(input, ef, Given(x, p))
<1> DEFINE y == value_read(x)
           g == Given(x, p)
<1>1. /\ n \in Nat \ {0} /\ n = Len(input.values) /\ NodesInput(input)
      /\ input.pointers[p] \in 0 .. n /\ input.pointers[p + 1] \in 0 .. n
  <2>1. n \in Nat \ {0} /\ n = Len(input.values) /\ NodesInput(input)
    BY ReadableKnown DEF NodesInput, nodes
  <2>2. Len(input.pointers) \in Nat /\ \A q \in 1 .. Len(input.pointers) : input.pointers[q] \in 0 .. n
    BY <2>1, PointerFacts
  <2>3. p \in 1 .. Len(input.pointers) /\ p + 1 \in 1 .. Len(input.pointers)
    BY <2>2 DEF AtNode
  <2> QED
    BY <2>1, <2>2, <2>3
<1>2. PICK k \in Nat : k = x.pos /\ k < n /\ k + 1 \in input.pointers[p] + 1 .. input.pointers[p + 1]
      /\ k + 1 \in 1 .. n /\ k \in 0 .. n - 1
  BY <1>1 DEF AtNode
<1>3. /\ Ready(input, ef, y, 1) /\ y.pos = k
      /\ y.prev_range_upper_bound = x.prev_range_upper_bound
      /\ y.last = ValueIn(input, k) /\ ValueIn(input, k) \in Nat
      /\ value(x) = ValueIn(input, k) - x.prev_range_upper_bound
  BY <1>2, ReadGiven DEF AtNode
<1>4. ValueIn(input, k) = Raised(input, k + 1)
  BY DEF ValueIn, nodes
<1>5. Raised(input, k + 1) = input.values[k + 1] + Raised(input, input.pointers[p])
  BY <1>1, <1>2, RaisedInRange DEF AtNode
<1>6. Raised(input, input.pointers[p]) \in Nat /\ input.values[k + 1] \in Nat
  <2>1. Raised(input, input.pointers[p]) \in Nat
    BY <1>1, RaisingKnown
  <2>2. input.values \in Seq(Nat)
    BY <1>1, PointerFacts
  <2> QED
    BY <1>1, <1>2, <2>1, <2>2
<1>7. value(x) = input.values[k + 1]
  BY <1>3, <1>4, <1>5, <1>6 DEF AtNode
<1>8. g.iterator = y /\ g.range = p /\ g.given = value(x)
  BY DEF Given
<1> HIDE DEF y, g
<1> QED
  BY <1>2, <1>3, <1>4, <1>7, <1>8 DEF NodesWalk, AtNode, g

LEMMA WalkNodesWalks ==
  ASSUME Building, NEW p \in Ranges, WalkNodes(p)
  PROVE  nodes /\ NodesWalk(input, ef, it')
<1>1. Readable /\ nodes /\ Cardinality(Ranges) = Len(input.pointers) - 1
      /\ it' = Given(iterator(RangeOf(p), RangeOf(p).begin), p)
  BY DEF WalkNodes, Readable
<1>2. n \in Nat \ {0} /\ n = Len(input.values) /\ NodesInput(input)
  BY <1>1, ReadableKnown DEF NodesInput, nodes
<1>3. /\ Len(input.pointers) \in Nat \ {0, 1}
      /\ \A q \in 1 .. Len(input.pointers) : input.pointers[q] \in 0 .. n
  BY <1>2, PointerFacts
<1>4. NoneEmpty(input)
  <2>0. \A len \in Nat \ {0, 1} : len - 1 \in Nat
    OBVIOUS
  <2>1. PICK m \in Nat : m = Len(input.pointers) - 1
    BY <1>3, <2>0
  <2>2. IsFiniteSet(1 .. m) /\ Cardinality(1 .. m) = m
    BY FS_Interval
  <2>3. Ranges \subseteq 1 .. m /\ Cardinality(Ranges) = m
    BY <1>1, <2>1 DEF Ranges
  <2>4. Ranges = 1 .. m
    BY <2>2, <2>3, FS_Subset
  <2> QED
    BY <2>1, <2>4 DEF NoneEmpty, Ranges, RangeOf
<1>5. PICK k \in Nat, s \in Nat : /\ k = input.pointers[p] /\ s = input.pointers[p + 1] /\ k < s /\ s <= n
                                  /\ p \in 1 .. Len(input.pointers) - 1 /\ p \in 1 .. Len(input.pointers)
  <2>1. p \in 1 .. Len(input.pointers) - 1 /\ input.pointers[p] < input.pointers[p + 1]
    BY DEF Ranges, RangeOf
  <2>2. p \in 1 .. Len(input.pointers) /\ p + 1 \in 1 .. Len(input.pointers)
    BY <1>3, <2>1
  <2>3. input.pointers[p] \in 0 .. n /\ input.pointers[p + 1] \in 0 .. n
    BY <1>3, <2>2
  <2> QED
    BY <2>1, <2>2, <2>3
<1>6. RangeOf(p).begin = k
  BY <1>5 DEF RangeOf
<1> DEFINE x == iterator(RangeOf(p), k)
<1>7. /\ previous_range_upperbound(RangeOf(p)) = Raised(input, input.pointers[p])
      /\ Raised(input, input.pointers[p]) \in Nat
  BY <1>1, <1>5, BoundRead
<1>8. k \in 0 .. n - 1 /\ previous_range_upperbound(RangeOf(p)) \in Int
  BY <1>2, <1>5, <1>7
<1>9. /\ Ready(input, ef, x, 1) /\ x.pos = k
      /\ x.prev_range_upper_bound = previous_range_upperbound(RangeOf(p))
  BY <1>1, <1>8, IteratorReady
<1> HIDE DEF x
<1>10. AtNode(input, ef, x, p)
  BY <1>5, <1>7, <1>9 DEF AtNode
<1>11. NodesWalk(input, ef, Given(x, p))
  BY <1>1, <1>4, <1>10, NodeGiven
<1> QED
  BY <1>1, <1>6, <1>11 DEF x

LEMMA StepNodesWalks ==
  ASSUME Building, NodesWalk(input, ef, it), StepNodes
  PROVE  nodes /\ NodesWalk(input, ef, it')
<1> DEFINE x == it.iterator
           y == increment(x)
           p == it.range
           leaves == y.pos = RangeOf(p).end
<1>1. /\ Readable /\ nodes /\ x.pos + 1 < n
      /\ it' = IF leaves THEN Given(switch_range(y), p + 1) ELSE Given(y, p)
  BY DEF StepNodes, Readable
<1>2. n \in Nat \ {0} /\ n = Len(input.values) /\ NodesInput(input)
  BY <1>1, ReadableKnown DEF NodesInput, nodes
<1>3. /\ Len(input.pointers) \in Nat \ {0, 1}
      /\ \A q \in 1 .. Len(input.pointers) : input.pointers[q] \in 0 .. n
      /\ input.pointers[Len(input.pointers)] = n
  BY <1>2, PointerFacts
<1>4. /\ NoneEmpty(input) /\ AtNode(input, ef, x, p) /\ x.last = Raised(input, x.pos + 1)
      /\ x.pos \in Nat /\ p \in 1 .. Len(input.pointers) - 1
  BY DEF NodesWalk, AtNode, Ready, IteratorType
<1>5. /\ Ready(input, ef, y, 1) /\ y.pos = x.pos + 1
      /\ y.last = x.last /\ y.prev_range_upper_bound = x.prev_range_upper_bound
  BY <1>1, <1>4, Incremented DEF AtNode
<1>6. RangeOf(p).end = input.pointers[p + 1]
  BY DEF RangeOf
<1> HIDE DEF x, y, p
<1>7. PICK k \in Nat, a \in Nat, b \in Nat :
        k = x.pos /\ a = input.pointers[p] /\ b = input.pointers[p + 1] /\ a <= k /\ k < b
  <2>1. p \in 1 .. Len(input.pointers) /\ p + 1 \in 1 .. Len(input.pointers)
    BY <1>3, <1>4
  <2>2. input.pointers[p] \in 0 .. n /\ input.pointers[p + 1] \in 0 .. n
    BY <1>3, <2>1
  <2> QED
    BY <1>2, <1>4, <2>2 DEF AtNode
<1>8. CASE ~ leaves
  <2>1. k + 1 # b
    BY <1>5, <1>6, <1>7, <1>8
  <2>2. y.pos \in a .. b - 1
    BY <1>5, <1>7, <2>1
  <2>3. AtNode(input, ef, y, p)
    BY <1>4, <1>5, <1>7, <2>2 DEF AtNode
  <2>4. NodesWalk(input, ef, Given(y, p))
    BY <1>1, <1>4, <2>3, NodeGiven
  <2> QED
    BY <1>1, <1>8, <2>4
<1>9. CASE leaves
  <2> DEFINE z == switch_range(y)
  <2>1. k + 1 = b
    BY <1>5, <1>6, <1>7, <1>9
  <2>2. p + 1 \in 1 .. Len(input.pointers) - 1
    <3>1. p + 1 # Len(input.pointers)
      BY <1>1, <1>2, <1>3, <1>7, <2>1
    <3> QED
      BY <1>3, <1>4, <3>1
  <2>3. PICK c \in Nat : c = input.pointers[(p + 1) + 1] /\ b < c
    <3>1. input.pointers[p + 1] < input.pointers[(p + 1) + 1]
      BY <1>4, <2>2 DEF NoneEmpty
    <3>2. (p + 1) + 1 \in 1 .. Len(input.pointers)
      BY <1>3, <1>4, <2>2
    <3>3. input.pointers[(p + 1) + 1] \in 0 .. n
      BY <1>3, <3>2
    <3> QED
      BY <1>2, <1>7, <3>1, <3>3
  <2>4. z = [y EXCEPT !.prev_range_upper_bound = y.last] /\ y \in IteratorType /\ y.last \in Int
    BY <1>5 DEF switch_range, Ready, IteratorType
  <2> HIDE DEF z
  <2>5. /\ z \in IteratorType /\ z.pos = y.pos /\ z.high = y.high /\ z.high_enum = y.high_enum
        /\ z.prev_range_upper_bound = y.last
        /\ z.low_buf = y.low_buf /\ z.chunks_avail = y.chunks_avail
    BY <2>4 DEF IteratorType
  <2>6. Ready(input, ef, z, 1)
    BY <1>5, <2>5 DEF Ready, OneConsumed, ChunksCounted, Chunks
  <2>7. z.prev_range_upper_bound = Raised(input, input.pointers[p + 1])
    BY <1>4, <1>5, <1>7, <2>1, <2>5
  <2>8. z.pos \in b .. c - 1
    BY <1>5, <1>7, <2>1, <2>3, <2>5
  <2>9. AtNode(input, ef, z, p + 1)
    BY <1>7, <2>2, <2>3, <2>6, <2>7, <2>8 DEF AtNode
  <2>10. NodesWalk(input, ef, Given(z, p + 1))
    BY <1>1, <1>4, <2>9, NodeGiven
  <2> QED
    BY <1>1, <1>9, <2>10 DEF z
<1> QED
  BY <1>1, <1>8, <1>9

LEMMA PointerGiven ==
  ASSUME Building, Readable, ~ nodes, NEW x, Ready(input, ef, x, 0),
         x.pos = n => x.val = input.values[n]
  PROVE  LET y == next(x)
         IN  PointersWalk(input, ef, [iterator |-> y, range |-> 0, given |-> y.val])
<1> DEFINE y == next(x)
           g == [iterator |-> y, range |-> 0, given |-> y.val]
<1>1. n \in Nat \ {0} /\ ef.size = n
  BY ReadableParts
<1>2. x.pos \in Nat /\ x.pos <= n
  BY <1>1 DEF Ready, IteratorType
<1>3. g.iterator = y /\ g.given = y.val
  OBVIOUS
<1>4. CASE x.pos = n
  <2>1. y = x
    BY <1>4, NextGiven
  <2> QED
    BY <1>1, <1>3, <1>4, <2>1 DEF PointersWalk
<1>5. CASE x.pos # n
  <2>1. Ready(input, ef, y, 0) /\ y.pos = x.pos + 1 /\ y.val = ValueIn(input, x.pos)
    BY <1>5, NextGiven
  <2> HIDE DEF y
  <2>2. y.val = input.values[y.pos]
    BY <2>1 DEF ValueIn, nodes
  <2>3. y.pos >= 1
    BY <1>2, <2>1
  <2> QED
    BY <1>3, <2>1, <2>2, <2>3 DEF PointersWalk, y
<1> QED
  BY <1>4, <1>5

LEMMA WalkPointersWalks ==
  ASSUME Building, NEW place \in 0 .. n - 1, WalkPointers(place)
  PROVE  ~ nodes /\ PointersWalk(input, ef, it')
<1> DEFINE x == iterator(no_range, place)
<1>1. /\ Readable /\ ~ nodes
      /\ it' = [iterator |-> next(x), range |-> 0, given |-> next(x).val]
  BY DEF WalkPointers, Readable
<1>2. n \in Nat
  BY <1>1, ReadableParts
<1>3. previous_range_upperbound(no_range) = 0
  BY DEF previous_range_upperbound, no_range
<1>4. Ready(input, ef, x, 1) /\ x.pos = place
  BY <1>1, <1>3, IteratorReady
<1> HIDE DEF x
<1>5. Ready(input, ef, x, 0) /\ x.pos # n
  BY <1>1, <1>2, <1>4, ReadyToGive
<1> QED
  BY <1>1, <1>5, PointerGiven

LEMMA StepPointersWalks ==
  ASSUME Building, PointersWalk(input, ef, it), StepPointers
  PROVE  ~ nodes /\ PointersWalk(input, ef, it')
<1> DEFINE x == it.iterator
<1>1. /\ Readable /\ ~ nodes
      /\ it' = [iterator |-> next(x), range |-> 0, given |-> next(x).val]
  BY DEF StepPointers, Readable
<1>2. Ready(input, ef, x, 0) /\ (x.pos = n => x.val = input.values[n])
  BY DEF PointersWalk
<1> HIDE DEF x
<1> QED
  BY <1>1, <1>2, PointerGiven

LEMMA InitWalking == Init => Walking
  BY InitBuilding DEF Init, Walking

LEMMA StepWalking == Walking /\ [Next]_vars => Walking'
<1> SUFFICES ASSUME Walking, [Next]_vars PROVE Walking'
  OBVIOUS
<1>1. Building'
  BY StepBuilding DEF Walking
<1>2. CASE PushBack \/ \E i \in 0 .. n - 1 : Set(i)
  BY <1>1, <1>2 DEF Walking, PushBack, Set
<1>3. CASE StartNodes \/ Raise
  BY <1>1, <1>3 DEF Walking, StartNodes, Raise
<1>4. CASE StartPointers \/ EndRaise
  BY <1>1, <1>4 DEF Walking, StartPointers, EndRaise, Encoding
<1>5. CASE Encode \/ EndEncode \/ Stop
  <2>1. pc' \in {"encoding", "refused", "loaded"}
    BY <1>5 DEF Encode, EndEncode, Stop
  <2> QED
    BY <1>1, <2>1 DEF Walking
<1>6. CASE StepNodes \/ \E p \in Ranges : WalkNodes(p)
  <2>1. pc' = "walking" /\ input' = input /\ ef' = ef
    BY <1>6 DEF StepNodes, WalkNodes
  <2>2. nodes /\ NodesWalk(input, ef, it')
    <3>1. CASE StepNodes
      <4>1. pc = "walking" /\ nodes
        BY <3>1 DEF StepNodes
      <4> QED
        BY <3>1, <4>1, StepNodesWalks DEF Walking
    <3>2. CASE \E p \in Ranges : WalkNodes(p)
      BY <3>2, WalkNodesWalks DEF Walking
    <3> QED
      BY <1>6, <3>1, <3>2
  <2>3. nodes'
    BY <2>1, <2>2 DEF nodes
  <2> QED
    BY <1>1, <2>1, <2>2, <2>3 DEF Walking
<1>7. CASE StepPointers \/ \E place \in 0 .. n - 1 : WalkPointers(place)
  <2>1. pc' = "walking" /\ input' = input /\ ef' = ef
    BY <1>7 DEF StepPointers, WalkPointers
  <2>2. ~ nodes /\ PointersWalk(input, ef, it')
    <3>1. CASE StepPointers
      <4>1. pc = "walking" /\ ~ nodes
        BY <3>1 DEF StepPointers
      <4> QED
        BY <3>1, <4>1, StepPointersWalks DEF Walking
    <3>2. CASE \E place \in 0 .. n - 1 : WalkPointers(place)
      BY <3>2, WalkPointersWalks DEF Walking
    <3> QED
      BY <1>7, <3>1, <3>2
  <2>3. ~ nodes'
    BY <2>1, <2>2 DEF nodes
  <2> QED
    BY <1>1, <2>1, <2>2, <2>3 DEF Walking
<1>8. CASE UNCHANGED vars
  BY <1>1, <1>8 DEF Walking, vars, nodes
<1> QED
  BY <1>2, <1>3, <1>4, <1>5, <1>6, <1>7, <1>8 DEF Next

(* The parts of a sequence have their types as it is built.                *)
LEMMA PartsTyped ==
  ASSUME Walking
  PROVE  /\ ef.l \in 0 .. word_width - 1
         /\ ef.high_bits.words \in Seq(Word) /\ ef.low_bits.words \in Seq(Word)
<1>1. CASE pc \in {"filling", "raising"}
  <2>1. ef = no_ef /\ word_width \in Nat \ {0}
    BY <1>1, WordsAssumption DEF Walking
  <2>2. no_ef.l = 0 /\ no_ef.high_bits.words = <<>> /\ no_ef.low_bits.words = <<>>
    BY DEF no_ef, no_bits
  <2>3. <<>> \in Seq(Word) /\ 0 \in 0 .. word_width - 1
    BY <2>1
  <2> QED
    BY <2>1, <2>2, <2>3
<1>2. CASE pc = "encoding" \/ Readable
  <2>0. \E i \in Nat : \E d : Kept(i, d)
    <3>1. pc # "filling" /\ Filling
      BY <1>2 DEF Walking, Building, Readable
    <3>2. n \in Nat
      BY <3>1, FilledKnown
    <3>3. CASE pc = "encoding"
      BY <3>2, <3>3 DEF Walking, Building, EncodingOn
    <3>4. CASE Readable
      BY <3>2, <3>4 DEF Walking, Building
    <3> QED
      BY <1>2, <3>3, <3>4
  <2>1. PICK i \in Nat : \E d : Kept(i, d)
    BY <2>0
  <2>2. ef.l = LowWidth(input) /\ HighHeld(input, ef.high_bits, i) /\ LowHeld(input, ef.low_bits, i)
    <3>1. PICK h, w, d : ef = EfOf(LowWidth(input), n, h, w, d)
      BY <2>1 DEF Kept
    <3>2. ef.l = LowWidth(input)
      BY <3>1 DEF EfOf
    <3> QED
      BY <2>1, <3>2 DEF Kept
  <2>3. input \in Inputs
    BY DEF Walking, Building, Filling
  <2>4. LowWidth(input) \in 0 .. word_width - 1
    BY <2>3, LowWidthKnown
  <2> QED
    BY <2>2, <2>4 DEF HighHeld, LowHeld, Packed, BitVec
<1> QED
  BY <1>1, <1>2 DEF Walking, Building, Readable

LEMMA WalkTyped ==
  ASSUME Walking, pc = "walking"
  PROVE  /\ it.iterator.pos \in 0 .. n
         /\ it.iterator.chunks_avail \in 0 .. n + word_width
         /\ it.iterator.low_buf \in Word /\ it.iterator.high_enum.buf \in Word
<1>1. Readable /\ Building
  BY DEF Readable, Walking
<1>2. PICK more \in {0, 1} : Ready(input, ef, it.iterator, more)
  BY DEF Walking, NodesWalk, PointersWalk, AtNode
<1>3. /\ n \in Nat /\ ef.size = n /\ ef.l \in Nat /\ word_width \in Nat \ {0}
      /\ ef.l # 0 => word_width \div ef.l \in Nat \ {0}
  BY <1>1, ReadableParts
<1>4. it.iterator \in IteratorType /\ it.iterator.pos <= n /\ it.iterator.pos \in Nat
  BY <1>2, <1>3 DEF Ready, IteratorType
<1>5. it.iterator.chunks_avail \in 0 .. n + word_width
  <2>1. CASE ef.l = 0
    <3>1. it.iterator.chunks_avail \in n - it.iterator.pos .. n
      BY <1>2, <1>3, <2>1 DEF Ready, ChunksCounted
    <3> QED
      BY <1>3, <1>4, <3>1
  <2>2. CASE ef.l # 0
    <3>1. it.iterator.chunks_avail \in 0 .. (word_width \div ef.l) - 1
      BY <1>2, <2>2 DEF Ready, ChunksCounted
    <3>2. PICK q \in Nat, r \in 0 .. ef.l - 1 : q = word_width \div ef.l /\ word_width = ef.l * q + r
      BY <1>3, <2>2, Division
    <3>3. q <= ef.l * q /\ ef.l * q \in Nat
      <4>1. 1 <= ef.l
        BY <1>3, <2>2
      <4>2. q * 1 <= q * ef.l /\ q * ef.l = ef.l * q /\ q * 1 = q
        BY <1>3, <4>1, MultiplesOrdered
      <4> QED
        BY <1>3, <4>2
    <3> QED
      BY <1>3, <3>1, <3>2, <3>3
  <2> QED
    BY <2>1, <2>2
<1> QED
  BY <1>4, <1>5 DEF IteratorType

LEMMA WalkingTyped == Walking => TypeOK
<1> SUFFICES ASSUME Walking PROVE TypeOK
  OBVIOUS
<1>1. from.bits \in Seq(Word) /\ filled \subseteq 0 .. n - 1
  BY DEF Walking, Building, Filling, Vector
<1>2. pc \in {"filling", "raising", "encoding", "refused", "loaded", "walking"}
  BY DEF Walking, Building
<1> QED
  BY <1>1, <1>2, PartsTyped, WalkTyped DEF TypeOK

LEMMA WalkingGives == Walking => WalkGivesNodes /\ WalkGivesPointers
  BY DEF Walking, NodesWalk, PointersWalk, WalkGivesNodes, WalkGivesPointers

(* Wherever a client has gone, its iterator has just passed the one of the *)
(* high bits of the value it is at, holds the low bits of as many values as*)
(* it counts, and has the bound of the range it is in.                     *)
THEOREM WalkingHolds == Spec => []Walking
<1> QED
  BY InitWalking, StepWalking, PTL DEF Spec

(* The builder, the sequence and the iterator have their types, the count  *)
(* of low bits that are left among them.                                   *)
THEOREM TypesHold == Spec => []TypeOK
<1> QED
  BY WalkingHolds, WalkingTyped, PTL

(* For words of any width and ranges of any size, the nodes that ++ and    *)
(* switch_range go over are the ones the sequence was built from.          *)
THEOREM NodesWalked == Spec => []WalkGivesNodes
<1> QED
  BY WalkingHolds, WalkingGives, PTL

(* So are the pointers next() gives, which repeats the last past the end.  *)
THEOREM PointersWalked == Spec => []WalkGivesPointers
<1> QED
  BY WalkingHolds, WalkingGives, PTL
-----------------------------------------------------------------------------
(* scan_binary_search, which finds in the values. The inductive invariant  *)
(* says that the id is nowhere in the range outside what is left to look   *)
(* at.                                                                     *)

(* If the id is in the range at all, it is between a and b.                *)
OnlyWithin(a, b) ==
  \A p \in search.begin .. search.end - 1 : Value(p) = search.id => a <= p /\ p <= b

IInv ==
  /\ SearchTypeOK
  /\ search \in Searches
  /\ search.begin <= lo /\ hi < search.end
  /\ phase = "halving" => lo <= hi /\ OnlyWithin(lo, hi)
  /\ phase = "scanning" => lo <= pos /\ OnlyWithin(pos, hi)
  /\ FindsExactly

(* A search is over natural numbers that increase in a range not empty.    *)
LEMMA SearchFacts ==
  ASSUME NEW s \in Searches
  PROVE  /\ s.begin \in Nat /\ s.end \in Nat /\ s.id \in Nat /\ s.begin < s.end
         /\ \A p \in s.begin .. s.end - 1 : s.sequence[p + 1] \in Nat
         /\ \A p, q \in s.begin .. s.end - 1 :
              p < q => s.sequence[p + 1] < s.sequence[q + 1]
<1>1. WellFormedSearch(s)
  BY SearchesAssumption
<1>2. /\ s.sequence \in Seq(Nat)
      /\ s.begin \in Nat /\ s.end \in Nat /\ s.id \in Nat
      /\ s.begin < s.end /\ s.end <= Len(s.sequence)
  BY <1>1 DEF WellFormedSearch
<1>3. \A p \in s.begin .. s.end - 1 : p + 1 \in 1 .. Len(s.sequence)
  BY <1>2
<1>4. \A p \in s.begin .. s.end - 1 : s.sequence[p + 1] \in Nat
  BY <1>2, <1>3
<1> QED
  BY <1>1, <1>2, <1>4 DEF WellFormedSearch

(* What find returns, from where the id is.                                *)
LEMMA FoundAt ==
  ASSUME search \in Searches,
         NEW p \in search.begin .. search.end - 1, Value(p) = search.id
  PROVE  find(search.sequence, [begin |-> search.begin, end |-> search.end], search.id) = p
<1> DEFINE r == [begin |-> search.begin, end |-> search.end]
<1>1. Positions(r) = search.begin .. search.end - 1
  BY DEF Positions
<1>2. ASSUME NEW q \in search.begin .. search.end - 1, Value(q) = search.id
      PROVE  q = p
  <2>1. /\ p \in Int /\ q \in Int
        /\ ~ (p < q) /\ ~ (q < p)
    BY <1>2, SearchFacts DEF Value
  <2> QED
    BY <2>1
<1>3. p \in Positions(r) /\ search.sequence[p + 1] = search.id
  BY <1>1 DEF Value
<1>4. \A q \in Positions(r) : search.sequence[q + 1] = search.id => q = p
  BY <1>1, <1>2 DEF Value
<1> QED
  BY <1>3, <1>4 DEF find

(* An id that no position has is not found.                                *)
LEMMA NotFound ==
  ASSUME search \in Searches,
         \A p \in search.begin .. search.end - 1 : Value(p) # search.id
  PROVE  find(search.sequence, [begin |-> search.begin, end |-> search.end], search.id)
           = not_found
  BY DEF find, Positions, Value

(* The invariant holds when a search begins.                               *)
LEMMA InitIInv == SearchInit => IInv
<1> SUFFICES ASSUME SearchInit PROVE IInv
  OBVIOUS
<1>1. /\ search \in Searches /\ phase = "halving"
      /\ lo = search.begin /\ hi = search.end - 1 /\ pos = search.begin /\ result = not_found
  BY DEF SearchInit
<1>2. /\ search.begin \in Nat /\ search.end \in Nat /\ search.begin < search.end
  BY <1>1, SearchFacts
<1>3. hi \in Nat /\ hi < search.end /\ lo <= hi
  BY <1>1, <1>2
<1>4. OnlyWithin(lo, hi)
  BY <1>1, <1>2 DEF OnlyWithin
<1> QED
  BY <1>1, <1>2, <1>3, <1>4 DEF IInv, SearchTypeOK, FindsExactly

(* Half of an interval of more than two values leaves a value on each side.*)
LEMMA Middle ==
  ASSUME NEW l \in Nat, NEW h \in Nat, h - l > 1
  PROVE  LET m == l + (h - l) \div 2 IN m \in Nat /\ l < m /\ m < h /\ m - 1 \in Nat
  OBVIOUS

(* Halving the interval keeps the id inside, if it is anywhere.            *)
LEMMA HalveStep ==
  ASSUME IInv, Halve
  PROVE  IInv'
<1>1. PICK m : m = lo + (hi - lo) \div 2
  OBVIOUS
<1>2. /\ search \in Searches /\ search' = search /\ phase = "halving"
      /\ lo \in Nat /\ hi \in Nat /\ search.begin <= lo /\ hi < search.end
      /\ OnlyWithin(lo, hi) /\ hi - lo > linear_scan_threshold /\ result \in Nat \cup {not_found}
  BY DEF IInv, SearchTypeOK, Halve
<1>3. /\ search.begin \in Nat /\ search.end \in Nat /\ search.id \in Nat
      /\ \A p \in search.begin .. search.end - 1 : Value(p) \in Nat
      /\ \A p, q \in search.begin .. search.end - 1 : p < q => Value(p) < Value(q)
  BY <1>2, SearchFacts DEF Value
<1>4. hi - lo > 1
  BY <1>2, ThresholdAssumption
<1>5. m \in Nat /\ lo < m /\ m < hi /\ m - 1 \in Nat
  BY <1>1, <1>2, <1>4, Middle
<1>6. m \in search.begin .. search.end - 1
  BY <1>2, <1>3, <1>5
<1>7. pos' = m
  BY <1>1 DEF Halve
<1>8. CASE Value(m) = search.id /\ Return(m) /\ UNCHANGED <<lo, hi>>
  <2>1. find(search.sequence, [begin |-> search.begin, end |-> search.end], search.id) = m
    BY <1>2, <1>6, <1>8, FoundAt
  <2> QED
    BY <1>2, <1>5, <1>7, <1>8, <2>1 DEF IInv, SearchTypeOK, FindsExactly, Return
<1>9. CASE Value(m) > search.id /\ hi' = m - 1 /\ UNCHANGED <<phase, lo, result>>
  <2>1. ASSUME NEW p \in search.begin .. search.end - 1, Value(p) = search.id
        PROVE  lo <= p /\ p <= m - 1
    <3>1. lo <= p /\ p \in Nat
      BY <1>2, <1>3, <2>1 DEF OnlyWithin
    <3>2. Value(m) \in Nat /\ p # m /\ ~ (m < p)
      BY <1>3, <1>6, <1>9, <2>1
    <3> QED
      BY <1>5, <3>1, <3>2
  <2>2. OnlyWithin(lo, m - 1)
    BY <2>1 DEF OnlyWithin
  <2>3. m - 1 < search.end /\ lo <= m - 1
    BY <1>2, <1>3, <1>5
  <2>4. OnlyWithin(lo, hi)'
    BY <1>2, <1>9, <2>2 DEF OnlyWithin, Value
  <2> QED
    BY <1>2, <1>5, <1>7, <1>9, <2>3, <2>4 DEF IInv, SearchTypeOK, FindsExactly
<1>10. CASE Value(m) < search.id /\ lo' = m + 1 /\ UNCHANGED <<phase, hi, result>>
  <2>1. ASSUME NEW p \in search.begin .. search.end - 1, Value(p) = search.id
        PROVE  m + 1 <= p /\ p <= hi
    <3>1. p <= hi /\ p \in Nat
      BY <1>2, <1>3, <2>1 DEF OnlyWithin
    <3>2. Value(m) \in Nat /\ p # m /\ ~ (p < m)
      BY <1>3, <1>6, <1>10, <2>1
    <3> QED
      BY <1>5, <3>1, <3>2
  <2>2. OnlyWithin(m + 1, hi)
    BY <2>1 DEF OnlyWithin
  <2>3. m + 1 \in Nat /\ search.begin <= m + 1 /\ m + 1 <= hi
    BY <1>2, <1>3, <1>5
  <2>4. OnlyWithin(lo, hi)'
    BY <1>2, <1>10, <2>2 DEF OnlyWithin, Value
  <2> QED
    BY <1>2, <1>5, <1>7, <1>10, <2>3, <2>4 DEF IInv, SearchTypeOK, FindsExactly
<1> QED
  BY <1>7, <1>8, <1>9, <1>10 DEF Halve

(* Each step keeps the invariant.                                          *)
LEMMA NextIInv == IInv /\ [SearchNext]_search_vars => IInv'
<1> SUFFICES ASSUME IInv, [SearchNext]_search_vars PROVE IInv'
  OBVIOUS
<1>1. /\ search \in Searches
      /\ lo \in Nat /\ hi \in Nat /\ pos \in Nat
      /\ search.begin <= lo /\ hi < search.end
      /\ search.begin \in Nat /\ search.end \in Nat
  BY SearchFacts DEF IInv, SearchTypeOK
<1>2. CASE StartScan
  BY <1>1, <1>2 DEF IInv, SearchTypeOK, FindsExactly, StartScan, OnlyWithin, Value
<1>3. CASE Halve
  BY <1>3, HalveStep
<1>4. CASE Scan
  <2>1. /\ phase = "scanning" /\ pos <= hi /\ lo <= pos /\ OnlyWithin(pos, hi)
        /\ search' = search /\ lo' = lo /\ hi' = hi
    BY <1>4 DEF IInv, Scan
  <2>2. pos \in search.begin .. search.end - 1
    BY <1>1, <2>1
  <2>3. CASE Value(pos) = search.id
    <3>1. Return(pos) /\ pos' = pos
      BY <1>4, <2>3 DEF Scan
    <3>2. find(search.sequence, [begin |-> search.begin, end |-> search.end], search.id) = pos
      BY <1>1, <2>2, <2>3, FoundAt
    <3> QED
      BY <1>1, <2>1, <3>1, <3>2 DEF IInv, SearchTypeOK, FindsExactly, Return
  <2>4. CASE Value(pos) # search.id
    <3>1. pos' = pos + 1 /\ phase' = phase /\ result' = result
      BY <1>4, <2>4 DEF Scan
    <3>2. OnlyWithin(pos + 1, hi)
      <4>1. ASSUME NEW p \in search.begin .. search.end - 1, Value(p) = search.id
            PROVE  pos + 1 <= p /\ p <= hi
        <5>1. pos <= p /\ p <= hi /\ p # pos /\ p \in Nat
          BY <1>1, <2>1, <2>4, <4>1 DEF OnlyWithin
        <5> QED
          BY <1>1, <5>1
      <4> QED
        BY <4>1 DEF OnlyWithin
    <3>3. OnlyWithin(pos, hi)'
      BY <2>1, <3>1, <3>2 DEF OnlyWithin, Value
    <3>4. pos + 1 \in Nat /\ lo <= pos + 1
      BY <1>1, <2>1
    <3> QED
      BY <1>1, <2>1, <3>1, <3>3, <3>4 DEF IInv, SearchTypeOK, FindsExactly
  <2> QED
    BY <2>3, <2>4
<1>5. CASE EndScan
  <2>1. \A p \in search.begin .. search.end - 1 : Value(p) # search.id
    BY <1>1, <1>5 DEF IInv, EndScan, OnlyWithin
  <2>2. find(search.sequence, [begin |-> search.begin, end |-> search.end], search.id) = not_found
    BY <1>1, <2>1, NotFound
  <2> QED
    BY <1>1, <1>5, <2>2 DEF IInv, SearchTypeOK, FindsExactly, EndScan, Return
<1>6. CASE UNCHANGED search_vars
  BY <1>6 DEF search_vars, IInv, SearchTypeOK, FindsExactly, OnlyWithin, Value
<1> QED
  BY <1>2, <1>3, <1>4, <1>5, <1>6 DEF SearchNext

(* So it holds throughout.                                                 *)
LEMMA AlwaysIInv == SearchSpec => []IInv
  BY InitIInv, NextIInv, PTL DEF SearchSpec
(* The cursors of scan_binary_search stay naturals: hi = pos - 1 never     *)
(* wraps around.                                                           *)
THEOREM TypeCorrect == SearchSpec => []SearchTypeOK
<1>1. IInv => SearchTypeOK
  BY DEF IInv
<1> QED
  BY <1>1, AlwaysIInv, PTL

(* It reads no value outside the range it is given.                        *)
THEOREM NoReadOutsideRange == SearchSpec => []ReadsStayInRange
<1>1. IInv => ReadsStayInRange
  <2> SUFFICES ASSUME IInv PROVE ReadsStayInRange
    OBVIOUS
  <2>1. /\ search \in Searches /\ lo \in Nat /\ hi \in Nat /\ pos \in Nat
        /\ search.begin <= lo /\ hi < search.end
        /\ phase = "halving" => lo <= hi
        /\ phase = "scanning" => lo <= pos
    BY DEF IInv, SearchTypeOK
  <2>2. search.begin \in Nat /\ search.end \in Nat
    BY <2>1, SearchFacts
  <2> QED
    BY <2>1, <2>2 DEF ReadsStayInRange
<1> QED
  BY <1>1, AlwaysIInv, PTL

(* What it returns is the position of the id in the range, or not_found    *)
(* when the range has no such id: what the model of the tries takes find   *)
(* to be.                                                                  *)
THEOREM FindCorrect == SearchSpec => []FindsExactly
<1>1. IInv => FindsExactly
  BY DEF IInv
<1> QED
  BY <1>1, AlwaysIInv, PTL
=============================================================================
