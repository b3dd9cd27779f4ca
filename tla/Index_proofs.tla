----------------------------- MODULE Index_proofs -----------------------------
(***************************************************************************)
(* The indexes answer as a triple store does where the guards of Index     *)
(* hold (Unguarded is FALSE): for every index type, on every well-formed   *)
(* data set on which each pef_sequence of the index has several partitions *)
(* (SeveralPartitions), and every query but those for which find is asked  *)
(* for what is not there and does not refuse it (AbsenceUnseen) or select  *)
(* for a pair that is in no triplet (PairAbsent).                          *)
(***************************************************************************)
EXTENDS Index, Basics_proofs, SequenceTheorems

(* What encodes these nodes well: pef_sequence not in a single partition.  *)
Encodings(from) ==
  {enc \in {"compact", "ef", "pef", "vb"} : enc = "pef" => ~ (Len(from) <= partition_size)}
-----------------------------------------------------------------------------
(* The pointers of a level increase, from 0 to its size.                   *)
LEMMA PointersGrow ==
  ASSUME NEW nodes, NEW pointers, WellFormedRanges(nodes, pointers),
         NEW p \in 1 .. Len(pointers), NEW q \in 1 .. Len(pointers), p < q
  PROVE  pointers[p] < pointers[q] /\ pointers[p] \in Nat /\ pointers[q] \in Nat
<1>1. PICK n \in Nat : n = Len(pointers)
  BY DEF WellFormedRanges
<1>2. /\ \A k \in 1 .. n : pointers[k] \in Nat
      /\ \A k \in 1 .. n - 1 : pointers[k] < pointers[k + 1]
  BY <1>1 DEF WellFormedRanges
<1> DEFINE P == {d \in Nat : p + d + 1 <= n => pointers[p] < pointers[p + d + 1]}
<1>3. 0 \in P
  BY <1>1, <1>2
<1>4. ASSUME NEW d \in 0 .. n - 1, d \in P PROVE d + 1 \in P
  <2> SUFFICES ASSUME p + (d + 1) + 1 <= n
               PROVE  pointers[p] < pointers[p + (d + 1) + 1]
    OBVIOUS
  <2>1. /\ p + d + 1 \in 1 .. n - 1 /\ p + d + 1 <= n /\ p + (d + 1) + 1 = (p + d + 1) + 1
        /\ p \in 1 .. n /\ (p + d + 1) + 1 \in 1 .. n /\ p + d + 1 \in 1 .. n
    BY <1>1, <1>4
  <2>2. pointers[p] < pointers[p + d + 1]
    BY <1>4, <2>1
  <2>3. pointers[p + d + 1] < pointers[(p + d + 1) + 1]
    BY <1>2, <2>1
  <2>4. pointers[p] \in Nat /\ pointers[p + d + 1] \in Nat /\ pointers[(p + d + 1) + 1] \in Nat
    BY <1>2, <2>1
  <2> QED
    BY <2>1, <2>2, <2>3, <2>4
<1> HIDE DEF P
<1>5. q - p - 1 \in 0 .. n /\ p + (q - p - 1) + 1 = q
  BY <1>1
<1>6. q - p - 1 \in P
  BY <1>1, <1>3, <1>4, <1>5, InductionUpTo
<1>7. pointers[p] < pointers[q]
  BY <1>1, <1>5, <1>6 DEF P
<1> QED
  BY <1>1, <1>2, <1>7

(* A position of a level lies in one range.                                *)
LEMMA InOneRange ==
  ASSUME NEW nodes, NEW pointers, WellFormedRanges(nodes, pointers),
         NEW i \in 0 .. Len(nodes) - 1
  PROVE  \E p \in 0 .. Len(pointers) - 2 : i \in Positions(RangeAt(pointers, p))
<1>1. PICK n \in Nat : n = Len(pointers) /\ n > 1
  BY DEF WellFormedRanges
<1>2. /\ \A k \in 1 .. n : pointers[k] \in Nat
      /\ pointers[1] = 0 /\ pointers[n] = Len(nodes)
      /\ Len(nodes) \in Nat
  BY <1>1 DEF WellFormedRanges
<1> DEFINE T == {k \in Nat : k \in 1 .. n /\ i < pointers[k]}
<1>3. n \in T
  BY <1>1, <1>2
<1>4. PICK k \in T : \A y \in T : k <= y
  <2>1. T \subseteq Nat /\ T # {}
    BY <1>3
  <2> HIDE DEF T
  <2> QED
    BY <2>1, LeastNatural
<1>5. k \in 2 .. n /\ k - 1 \in 1 .. n /\ k - 1 \notin T
  BY <1>1, <1>2, <1>4
<1>6. pointers[k - 1] <= i /\ i < pointers[k]
  BY <1>2, <1>4, <1>5
<1>7. k - 2 \in 0 .. n - 2 /\ (k - 2) + 1 = k - 1 /\ (k - 2) + 2 = k
  BY <1>5
<1>8. pointers[k - 1] \in Nat /\ pointers[k] \in Nat
  BY <1>2, <1>5
<1>9. i \in pointers[k - 1] .. pointers[k] - 1
  BY <1>2, <1>6, <1>8
<1>10. i \in Positions(RangeAt(pointers, k - 2))
  BY <1>7, <1>9 DEF RangeAt, Positions
<1> QED
  BY <1>1, <1>7, <1>10

(* A range lies in its level: its positions, and what is at its ends.      *)
LEMMA RangeIn ==
  ASSUME NEW nodes, NEW pointers, WellFormedRanges(nodes, pointers),
         NEW p \in 0 .. Len(pointers) - 2
  PROVE  /\ p + 1 \in 1 .. Len(pointers) /\ p + 2 \in 1 .. Len(pointers)
         /\ pointers[p + 1] \in 0 .. Len(nodes) - 1 /\ pointers[p + 2] \in 1 .. Len(nodes)
         /\ pointers[p + 1] < pointers[p + 2]
         /\ Len(pointers) \in Nat /\ Len(nodes) \in Nat
         /\ RangeAt(pointers, p) = [begin |-> pointers[p + 1], end |-> pointers[p + 2]]
         /\ \A i \in Positions(RangeAt(pointers, p)) : /\ i \in 0 .. Len(nodes) - 1
                                                       /\ nodes[i + 1] \in Nat
                                                       /\ pointers[p + 1] <= i
                                                       /\ i < pointers[p + 2]
<1>1. PICK n \in Nat : n = Len(pointers) /\ n > 1
  BY DEF WellFormedRanges
<1>2. PICK m \in Nat : m = Len(nodes)
  BY DEF WellFormedRanges
<1>3. /\ \A k \in 1 .. n : pointers[k] \in Nat
      /\ pointers[1] = 0 /\ pointers[n] = m
      /\ \A k \in 1 .. m : nodes[k] \in Nat
  <2>1. nodes \in Seq(Nat) /\ pointers \in Seq(Nat) /\ pointers[1] = 0 /\ pointers[n] = m
    BY <1>1, <1>2 DEF WellFormedRanges
  <2> QED
    BY <1>1, <1>2, <2>1
<1>4. p + 1 \in 1 .. n - 1 /\ p + 1 \in 1 .. n /\ p + 2 \in 1 .. n /\ (p + 1) + 1 = p + 2
  BY <1>1
<1>5. pointers[p + 1] < pointers[p + 2]
  BY <1>1, <1>4 DEF WellFormedRanges
<1>6. pointers[p + 2] <= m
  <2>1. CASE p + 2 = n
    BY <1>3, <2>1
  <2>2. CASE p + 2 # n
    BY <1>1, <1>3, <1>4, <2>2, PointersGrow
  <2> QED
    BY <2>1, <2>2
<1>7. pointers[p + 1] \in 0 .. m - 1 /\ pointers[p + 2] \in 1 .. m
  BY <1>3, <1>4, <1>5, <1>6
<1>8. RangeAt(pointers, p) = [begin |-> pointers[p + 1], end |-> pointers[p + 2]]
  BY DEF RangeAt
<1>9. ASSUME NEW i \in Positions(RangeAt(pointers, p))
      PROVE  i \in 0 .. m - 1 /\ nodes[i + 1] \in Nat /\ pointers[p + 1] <= i /\ i < pointers[p + 2]
  <2>1. i \in pointers[p + 1] .. pointers[p + 2] - 1
    BY <1>8 DEF Positions
  <2>2. i \in 0 .. m - 1 /\ pointers[p + 1] <= i /\ i < pointers[p + 2]
    BY <1>3, <1>4, <1>7, <2>1
  <2>3. i + 1 \in 1 .. m
    BY <1>2, <2>2
  <2> QED
    BY <1>3, <2>2, <2>3
<1> QED
  BY <1>1, <1>2, <1>4, <1>5, <1>7, <1>8, <1>9

(* The ranges of two indexes have no position in common.                   *)
LEMMA RangesApart ==
  ASSUME NEW nodes, NEW pointers, WellFormedRanges(nodes, pointers),
         NEW p \in 0 .. Len(pointers) - 2, NEW q \in 0 .. Len(pointers) - 2, p < q
  PROVE  \A i \in Positions(RangeAt(pointers, p)) :
           \A k \in Positions(RangeAt(pointers, q)) : i < k
<1>1. /\ p + 2 \in 1 .. Len(pointers) /\ q + 1 \in 1 .. Len(pointers)
      /\ pointers[p + 2] \in Nat /\ pointers[q + 1] \in Nat
      /\ p + 2 = q + 1 \/ p + 2 < q + 1
  <2>1. /\ p + 2 \in 1 .. Len(pointers) /\ q + 1 \in 1 .. Len(pointers) /\ Len(pointers) \in Nat
        /\ pointers[p + 2] \in 1 .. Len(nodes) /\ pointers[q + 1] \in 0 .. Len(nodes) - 1
    BY RangeIn
  <2>2. p \in Nat /\ q \in Nat
    OBVIOUS
  <2> QED
    BY <2>1, <2>2
<1>2. pointers[p + 2] <= pointers[q + 1]
  BY <1>1, PointersGrow
<1> TAKE i \in Positions(RangeAt(pointers, p))
<1> TAKE k \in Positions(RangeAt(pointers, q))
<1>3. i \in Nat /\ k \in Nat /\ i < pointers[p + 2] /\ pointers[q + 1] <= k
  BY RangeIn
<1> QED
  BY <1>1, <1>2, <1>3

(* find gives the position of an id that is in the range, for the nodes of *)
(* a range are distinct, and otherwise not_found.                          *)
LEMMA FindIn ==
  ASSUME NEW nodes, NEW pointers, WellFormedRanges(nodes, pointers),
         NEW p \in 0 .. Len(pointers) - 2, NEW id
  PROVE  /\ \A i \in Positions(RangeAt(pointers, p)) :
              nodes[i + 1] = id => find(nodes, RangeAt(pointers, p), id) = i
         /\ (\A i \in Positions(RangeAt(pointers, p)) : nodes[i + 1] # id)
              => find(nodes, RangeAt(pointers, p), id) = not_found
<1>1. ASSUME NEW i \in Positions(RangeAt(pointers, p)), NEW k \in Positions(RangeAt(pointers, p)),
             nodes[i + 1] = nodes[k + 1]
      PROVE  i = k
  <2>1. /\ i \in Nat /\ k \in Nat /\ p + 1 \in 1 .. Len(pointers) - 1
        /\ nodes[i + 1] \in Nat /\ nodes[k + 1] \in Nat
    BY RangeIn
  <2>2. /\ i + 1 \in pointers[p + 1] + 1 .. pointers[p + 2]
        /\ k + 1 \in pointers[p + 1] + 1 .. pointers[p + 2]
        /\ (p + 1) + 1 = p + 2
    BY RangeIn
  <2>3. \A a, b \in pointers[p + 1] + 1 .. pointers[p + 2] : a < b => nodes[a] < nodes[b]
    BY <2>1, <2>2 DEF WellFormedRanges
  <2>4. ~ (i + 1 < k + 1) /\ ~ (k + 1 < i + 1)
    BY <1>1, <2>1, <2>2, <2>3
  <2> QED
    BY <2>1, <2>4
<1>2. ASSUME NEW i \in Positions(RangeAt(pointers, p)), nodes[i + 1] = id
      PROVE  find(nodes, RangeAt(pointers, p), id) = i
  <2>1. find(nodes, RangeAt(pointers, p), id)
          = CHOOSE pos \in Positions(RangeAt(pointers, p)) : nodes[pos + 1] = id
    BY <1>2 DEF find
  <2> QED
    BY <1>1, <1>2, <2>1
<1>3. (\A i \in Positions(RangeAt(pointers, p)) : nodes[i + 1] # id)
        => find(nodes, RangeAt(pointers, p), id) = not_found
  BY DEF find
<1> QED
  BY <1>2, <1>3
-----------------------------------------------------------------------------
(* The loop of ef_sequence's build, as raised has it.                      *)
Loops(from, pointers, loop) ==
  loop = [i \in 0 .. Len(from) |->
            IF i = 0 THEN <<0, 0>>
            ELSE LET prev_upper == loop[i - 1][IF Begins(pointers, i) THEN 2 ELSE 1]
                 IN  <<prev_upper, from[i] + prev_upper>>]

(* There is such a loop.                                                   *)
LEMMA LoopExists ==
  ASSUME NEW from \in Seq(Nat), NEW pointers
  PROVE  \E loop : Loops(from, pointers, loop) /\ loop \in [0 .. Len(from) -> Nat \X Nat]
<1>0. PICK n \in Nat : n = Len(from) /\ \A i \in 1 .. n : from[i] \in Nat
  OBVIOUS
<1> DEFINE S == Nat \X Nat
           Raise(i, b) == LET prev_upper == b[IF Begins(pointers, i) THEN 2 ELSE 1]
                          IN  <<prev_upper, from[i] + prev_upper>>
           step == [e \in Nat \X S |-> IF e[1] + 1 \in 1 .. n THEN Raise(e[1] + 1, e[2])
                                       ELSE e[2]]
<1>1. ASSUME NEW i \in 1 .. n, NEW b \in S PROVE Raise(i, b) \in S
  <2>1. b[1] \in Nat /\ b[2] \in Nat /\ from[i] \in Nat
    BY <1>0
  <2>2. CASE Begins(pointers, i)
    BY <2>1, <2>2
  <2>3. CASE ~ Begins(pointers, i)
    BY <2>1, <2>3
  <2> QED
    BY <2>2, <2>3
<1> HIDE DEF Raise
<1>2. step \in [Nat \X S -> S]
  <2>1. ASSUME NEW e \in Nat \X S
        PROVE  (IF e[1] + 1 \in 1 .. n THEN Raise(e[1] + 1, e[2]) ELSE e[2]) \in S
    <3>1. e[2] \in S
      OBVIOUS
    <3> HIDE DEF S
    <3>2. CASE e[1] + 1 \in 1 .. n
      BY <1>1, <3>1, <3>2
    <3>3. CASE ~ (e[1] + 1 \in 1 .. n)
      BY <3>1, <3>3
    <3> QED
      BY <3>2, <3>3
  <2> QED
    BY <2>1
<1>3. ASSUME NEW k \in 0 .. n - 1, NEW b \in S
      PROVE  step[<<k, b>>] = Raise(k + 1, b)
  <2>1. <<k, b>> \in Nat \X S /\ <<k, b>>[1] + 1 = k + 1 /\ <<k, b>>[2] = b /\ k + 1 \in 1 .. n
    OBVIOUS
  <2>2. step[<<k, b>>] = IF <<k, b>>[1] + 1 \in 1 .. n THEN Raise(<<k, b>>[1] + 1, <<k, b>>[2])
                         ELSE <<k, b>>[2]
    BY <2>1
  <2> HIDE DEF step
  <2> QED
    BY <2>1, <2>2
<1>4. PICK f \in [Nat -> S] : f[0] = <<0, 0>> /\ \A k \in Nat : f[k + 1] = step[<<k, f[k]>>]
  <2>1. <<0, 0>> \in S
    OBVIOUS
  <2> HIDE DEF step, S
  <2>2. Steps(S, <<0, 0>>, step)
    BY <1>2, <2>1 DEF Steps
  <2>3. HasRecursion(S, <<0, 0>>, step)
    BY <2>2, Recursion
  <2> QED
    BY <2>3 DEF HasRecursion
<1> HIDE DEF step
<1> DEFINE g == [k \in 0 .. n |-> f[k]]
<1>5. ASSUME NEW i \in 0 .. n
      PROVE  g[i] = IF i = 0 THEN <<0, 0>> ELSE Raise(i, g[i - 1])
  <2>1. CASE i = 0
    BY <1>4, <2>1
  <2>2. CASE i # 0
    <3>1. /\ i - 1 \in Nat /\ i - 1 \in 0 .. n - 1 /\ (i - 1) + 1 = i
          /\ g[i] = f[i] /\ g[i - 1] = f[i - 1]
      BY <1>0, <2>2
    <3> HIDE DEF g
    <3>2. f[i] = step[<<i - 1, f[i - 1]>>] /\ f[i - 1] \in S
      BY <1>4, <3>1
    <3> QED
      BY <1>3, <2>2, <3>1, <3>2
  <2> QED
    BY <2>1, <2>2
<1>6. g = [i \in 0 .. n |-> g[i]] /\ g \in [0 .. n -> S]
  <2> HIDE DEF S
  <2>1. \A k \in 0 .. n : k \in Nat /\ f[k] \in S
    BY <1>0, <1>4
  <2> QED
    BY <2>1
<1> HIDE DEF g
<1>7. g = [i \in 0 .. n |-> IF i = 0 THEN <<0, 0>> ELSE Raise(i, g[i - 1])]
  BY <1>5, <1>6
<1>8. Loops(from, pointers, g)
  BY <1>0, <1>7 DEF Loops, Raise
<1> QED
  BY <1>0, <1>6, <1>8

(* What a range's values are raised by.                                    *)
upper(stored, pointers, p) == IF p = 0 THEN 0 ELSE stored[pointers[p + 1]]

(* A range of a level begins at its pointer, and nowhere else.             *)
LEMMA RangeBegins ==
  ASSUME NEW nodes, NEW pointers, WellFormedRanges(nodes, pointers),
         NEW p \in 0 .. Len(pointers) - 2,
         NEW i \in Positions(RangeAt(pointers, p))
  PROVE  Begins(pointers, i + 1) <=> i = pointers[p + 1]
<1>1. PICK n \in Nat : n = Len(pointers) /\ DOMAIN pointers = 1 .. n
  BY DEF WellFormedRanges
<1>2. /\ p + 1 \in 1 .. n /\ p + 2 \in 1 .. n /\ p + 2 = (p + 1) + 1 /\ i \in Nat
      /\ pointers[p + 1] <= i /\ i < pointers[p + 2]
      /\ pointers[p + 1] \in Nat /\ pointers[p + 2] \in Nat
  BY <1>1, RangeIn
<1>3. (i + 1) - 1 = i
  BY <1>2
<1>4. ASSUME NEW q \in 1 .. n, pointers[q] = i PROVE i = pointers[p + 1]
  <2>1. CASE q < p + 1
    BY <1>1, <1>2, <1>4, <2>1, PointersGrow
  <2>2. CASE q > p + 2
    BY <1>1, <1>2, <1>4, <2>2, PointersGrow
  <2>3. CASE q = p + 1
    BY <1>4, <2>3
  <2>4. CASE q = p + 2
    BY <1>2, <1>4, <2>4
  <2> QED
    BY <1>2, <2>1, <2>2, <2>3, <2>4
<1> QED
  BY <1>1, <1>2, <1>3, <1>4 DEF Begins

(* ef_sequence stores every node raised by the last value of the range     *)
(* before its own.                                                         *)
LEMMA Raised ==
  ASSUME NEW from, NEW pointers, WellFormedRanges(from, pointers)
  PROVE  /\ raised(from, pointers) \in [1 .. Len(from) -> Nat]
         /\ \A p \in 0 .. Len(pointers) - 2 :
              \A i \in Positions(RangeAt(pointers, p)) :
                raised(from, pointers)[i + 1]
                  = from[i + 1] + upper(raised(from, pointers), pointers, p)
<1>0. PICK m \in Nat : m = Len(from) /\ \A i \in 1 .. m : from[i] \in Nat
  <2>1. from \in Seq(Nat)
    BY DEF WellFormedRanges
  <2> QED
    BY <2>1
<1> DEFINE loop == CHOOSE f : Loops(from, pointers, f)
<1>1. Loops(from, pointers, loop)
  <2>1. from \in Seq(Nat)
    BY DEF WellFormedRanges
  <2> QED
    BY <2>1, LoopExists
<1>2. raised(from, pointers) = [i \in 1 .. Len(from) |-> loop[i][2]]
  BY DEF raised, Loops
<1> HIDE DEF loop
<1>3. loop[0] = <<0, 0>>
  BY <1>0, <1>1 DEF Loops
<1>4. ASSUME NEW i \in 1 .. m
      PROVE  /\ Begins(pointers, i) => loop[i] = <<loop[i - 1][2], from[i] + loop[i - 1][2]>>
             /\ ~ Begins(pointers, i) => loop[i] = <<loop[i - 1][1], from[i] + loop[i - 1][1]>>
  BY <1>0, <1>1 DEF Loops
<1> DEFINE P == {i \in Nat : loop[i] \in Nat \X Nat}
<1>5. ASSUME NEW i \in 0 .. m PROVE loop[i] \in Nat \X Nat
  <2>1. 0 \in P
    BY <1>3
  <2>2. ASSUME NEW k \in 0 .. m - 1, k \in P PROVE k + 1 \in P
    <3>1. k + 1 \in 1 .. m /\ (k + 1) - 1 = k /\ from[k + 1] \in Nat /\ k + 1 \in Nat
      BY <1>0
    <3>2. loop[k][1] \in Nat /\ loop[k][2] \in Nat
      BY <2>2
    <3>3. PICK u \in Nat : loop[k + 1] = <<u, from[k + 1] + u>>
      BY <1>4, <3>1, <3>2
    <3>4. loop[k + 1] \in Nat \X Nat
      BY <3>1, <3>3
    <3> QED
      BY <3>1, <3>4
  <2> HIDE DEF P
  <2>3. i \in P
    BY <1>0, <2>1, <2>2, InductionUpTo
  <2> QED
    BY <2>3 DEF P
<1> HIDE DEF P
<1>6. ASSUME NEW i \in 0 .. m PROVE loop[i][1] \in Nat /\ loop[i][2] \in Nat
  BY <1>5
<1>7. raised(from, pointers) \in [1 .. m -> Nat]
  BY <1>0, <1>2, <1>6
<1>8. ASSUME NEW p \in 0 .. Len(pointers) - 2, NEW i \in Positions(RangeAt(pointers, p))
      PROVE  raised(from, pointers)[i + 1]
               = from[i + 1] + upper(raised(from, pointers), pointers, p)
  <2>1. PICK b \in 0 .. m - 1 : b = pointers[p + 1]
    BY <1>0, RangeIn
  <2>2. PICK e \in 1 .. m : e = pointers[p + 2]
    BY <1>0, RangeIn
  <2>3. /\ b < e /\ i \in b .. e - 1 /\ Positions(RangeAt(pointers, p)) = b .. e - 1
    BY <2>1, <2>2, RangeIn DEF Positions
  <2>4. PICK u \in Nat : u = loop[b][2]
    BY <1>6, <2>1
  <2>5. u = upper(raised(from, pointers), pointers, p)
    <3>1. CASE p = 0
      <4>1. b = 0
        BY <2>1, <3>1 DEF WellFormedRanges
      <4> QED
        BY <1>3, <2>4, <3>1, <4>1 DEF upper
    <3>2. CASE p # 0
      <4>1. 1 \in 1 .. Len(pointers) /\ p + 1 \in 1 .. Len(pointers) /\ 1 < p + 1
        BY <3>2, RangeIn
      <4>2. pointers[1] < pointers[p + 1] /\ pointers[1] = 0
        BY <4>1, PointersGrow DEF WellFormedRanges
      <4>3. b \in 1 .. m
        BY <2>1, <4>2
      <4>4. raised(from, pointers)[b] = loop[b][2]
        BY <1>0, <1>2, <4>3
      <4> QED
        BY <2>1, <2>4, <3>2, <4>4 DEF upper
    <3> QED
      BY <3>1, <3>2
  <2> DEFINE Q == {d \in Nat : b + d < e => loop[b + d + 1] = <<u, from[b + d + 1] + u>>}
  <2>6. 0 \in Q
    <3>1. b \in Positions(RangeAt(pointers, p)) /\ b + 1 \in 1 .. m /\ (b + 1) - 1 = b
      BY <2>3
    <3>2. Begins(pointers, b + 1)
      BY <2>1, <3>1, RangeBegins
    <3>3. loop[b + 1] = <<u, from[b + 1] + u>>
      BY <1>4, <2>4, <3>1, <3>2
    <3> QED
      BY <3>3
  <2>7. ASSUME NEW d \in 0 .. m - 1, d \in Q PROVE d + 1 \in Q
    <3> SUFFICES ASSUME b + (d + 1) < e
                 PROVE  loop[b + (d + 1) + 1] = <<u, from[b + (d + 1) + 1] + u>>
      OBVIOUS
    <3>1. /\ b + d < e /\ b + (d + 1) = b + d + 1 /\ b + d + 1 \in b .. e - 1 /\ b + d + 1 # b
          /\ b + d + 1 + 1 \in 1 .. m /\ (b + d + 1 + 1) - 1 = b + d + 1
      OBVIOUS
    <3>2. ~ Begins(pointers, b + d + 1 + 1)
      BY <2>1, <2>3, <3>1, RangeBegins
    <3>3. loop[b + d + 1] = <<u, from[b + d + 1] + u>>
      BY <2>7, <3>1
    <3> HIDE DEF Q
    <3>4. loop[b + d + 1 + 1] = <<u, from[b + d + 1 + 1] + u>>
      BY <1>4, <3>1, <3>2, <3>3
    <3> QED
      BY <3>1, <3>4
  <2> HIDE DEF Q
  <2>8. i - b \in 0 .. m /\ b + (i - b) = i /\ b + (i - b) + 1 = i + 1 /\ i < e
    BY <2>3
  <2>9. i - b \in Q
    BY <2>6, <2>7, <2>8, InductionUpTo
  <2>10. loop[i + 1] = <<u, from[i + 1] + u>>
    BY <2>8, <2>9 DEF Q
  <2>11. i + 1 \in 1 .. m
    BY <2>3
  <2> QED
    BY <1>0, <1>2, <2>5, <2>10, <2>11
<1> QED
  BY <1>0, <1>7, <1>8

(* block_sequence stores the first node of a range as it is, and of every  *)
(* other one the difference, less one, which is not negative.              *)
LEMMA Differs ==
  ASSUME NEW from, NEW pointers, WellFormedRanges(from, pointers),
         NEW p \in 0 .. Len(pointers) - 2,
         NEW i \in Positions(RangeAt(pointers, p))
  PROVE  /\ DOMAIN differences(from, pointers) = 1 .. Len(from)
         /\ i = pointers[p + 1] => differences(from, pointers)[i + 1] = from[i + 1]
         /\ i # pointers[p + 1] =>
              /\ i - 1 \in Positions(RangeAt(pointers, p))
              /\ differences(from, pointers)[i + 1] = from[i + 1] - (from[i] + 1)
<1>1. /\ i \in 0 .. Len(from) - 1 /\ Len(from) \in Nat
      /\ pointers[p + 1] \in Nat /\ pointers[p + 2] \in Nat
      /\ pointers[p + 1] <= i /\ i < pointers[p + 2]
      /\ Positions(RangeAt(pointers, p)) = pointers[p + 1] .. pointers[p + 2] - 1
  BY RangeIn DEF Positions
<1>2. i + 1 \in 1 .. Len(from) /\ (i + 1) - 1 = i
  BY <1>1
<1>3. differences(from, pointers)[i + 1]
        = from[i + 1] - (IF Begins(pointers, i + 1) THEN 0 ELSE from[i] + 1)
  BY <1>2 DEF differences
<1>4. from[i + 1] \in Nat
  BY RangeIn
<1>5. i = pointers[p + 1] => differences(from, pointers)[i + 1] = from[i + 1]
  BY <1>3, <1>4, RangeBegins
<1>6. i # pointers[p + 1] =>
        /\ i - 1 \in Positions(RangeAt(pointers, p))
        /\ differences(from, pointers)[i + 1] = from[i + 1] - (from[i] + 1)
  BY <1>1, <1>3, RangeBegins
<1> QED
  BY <1>5, <1>6 DEF differences

(* Their sum, from the first of a range, is the node.                      *)
LEMMA SummedUp ==
  ASSUME NEW from, NEW pointers, WellFormedRanges(from, pointers),
         NEW p \in 0 .. Len(pointers) - 2,
         NEW pos \in Positions(RangeAt(pointers, p)),
         NEW r, r.begin = pointers[p + 1]
  PROVE  Summed(build("vb", from, pointers), r, pos) = from[pos + 1]
<1> DEFINE values == differences(from, pointers)
           Recursive(f) == f = [k \in r.begin .. pos |->
                                  At(values, k) + (IF k = r.begin THEN 0 ELSE f[k - 1] + 1)]
           h == [k \in r.begin .. pos |-> from[k + 1]]
           sum == CHOOSE f : Recursive(f)
<1>1. PICK b \in 0 .. Len(from) - 1 : b = r.begin /\ b = pointers[p + 1]
  BY RangeIn
<1>2. /\ pos \in Nat /\ b <= pos /\ pointers[p + 2] \in Nat /\ Len(from) \in Nat
      /\ Positions(RangeAt(pointers, p)) = b .. pointers[p + 2] - 1 /\ pos < pointers[p + 2]
  BY SMTT(30), <1>1, RangeIn DEF Positions
<1>3. ASSUME NEW k \in b .. pos
      PROVE  /\ k \in Positions(RangeAt(pointers, p)) /\ from[k + 1] \in Nat
             /\ k = b => At(values, k) = from[k + 1]
             /\ k # b => /\ k - 1 \in b .. pos /\ from[(k - 1) + 1] \in Nat
                         /\ At(values, k) = from[k + 1] - (from[(k - 1) + 1] + 1)
  <2>1. k \in Positions(RangeAt(pointers, p))
    BY <1>2
  <2>2. k \in 0 .. Len(from) - 1 /\ from[k + 1] \in Nat
    BY <2>1, RangeIn
  <2>3. k + 1 \in DOMAIN values
    BY <1>2, <2>1, <2>2, Differs
  <2>4. At(values, k) = values[k + 1]
    BY <2>3 DEF At
  <2>5. k = b => At(values, k) = from[k + 1]
    BY <1>1, <2>1, <2>4, Differs
  <2>6. k # b => /\ k - 1 \in b .. pos /\ k - 1 \in Positions(RangeAt(pointers, p)) /\ (k - 1) + 1 = k
                 /\ At(values, k) = from[k + 1] - (from[k] + 1)
    BY SMTT(30), <1>1, <1>2, <2>1, <2>4, Differs
  <2>7. k # b => from[(k - 1) + 1] \in Nat
    BY <2>6, RangeIn
  <2> QED
    BY <2>1, <2>2, <2>5, <2>6, <2>7
<1> HIDE DEF values
<1>4. \E f : Recursive(f)
  <2>1. ASSUME NEW k \in b .. pos
        PROVE  h[k] = At(values, k) + (IF k = r.begin THEN 0 ELSE h[k - 1] + 1)
    <3>1. CASE k = b
      BY <1>1, <1>3, <3>1
    <3>2. CASE k # b
      <4>1. h[k] = from[k + 1] /\ h[k - 1] = from[(k - 1) + 1]
        BY <1>1, <1>3, <3>2
      <4> HIDE DEF h
      <4> QED
        BY <1>1, <1>3, <3>2, <4>1
    <3> QED
      BY <3>1, <3>2
  <2>2. h = [k \in r.begin .. pos |-> h[k]]
    OBVIOUS
  <2> HIDE DEF h
  <2>3. Recursive(h)
    BY <1>1, <2>1, <2>2
  <2> QED
    BY <2>3
<1>5. Recursive(sum)
  BY <1>4
<1>6. Summed(build("vb", from, pointers), r, pos) = sum[pos]
  BY DEF Summed, build, values
<1> HIDE DEF sum
<1>7. ASSUME NEW k \in b .. pos
      PROVE  sum[k] = At(values, k) + (IF k = b THEN 0 ELSE sum[k - 1] + 1)
  BY <1>1, <1>5
<1> DEFINE P == {d \in Nat : b + d <= pos => sum[b + d] = from[b + d + 1]}
<1>8. 0 \in P
  <2>1. b \in b .. pos /\ b + 0 = b /\ from[b + 1] \in Nat
    BY <1>2, <1>3
  <2>2. sum[b] = At(values, b) + 0 /\ At(values, b) = from[b + 1]
    BY <1>3, <1>7, <2>1
  <2> QED
    BY <2>1, <2>2
<1>9. ASSUME NEW d \in 0 .. pos - 1, d \in P PROVE d + 1 \in P
  <2> SUFFICES ASSUME b + (d + 1) <= pos
               PROVE  sum[b + (d + 1)] = from[b + (d + 1) + 1]
    OBVIOUS
  <2>1. /\ b + d <= pos /\ b + (d + 1) \in b .. pos /\ b + (d + 1) # b
        /\ (b + (d + 1)) - 1 = b + d
    BY <1>2
  <2>2. sum[b + d] = from[b + d + 1]
    BY <1>9, <2>1
  <2> HIDE DEF P
  <2>3. /\ sum[b + (d + 1)] = At(values, b + (d + 1)) + (sum[b + d] + 1)
        /\ At(values, b + (d + 1)) = from[b + (d + 1) + 1] - (from[b + d + 1] + 1)
        /\ from[b + d + 1] \in Nat /\ from[b + (d + 1) + 1] \in Nat
    BY <1>3, <1>7, <2>1
  <2> QED
    BY <2>2, <2>3
<1> HIDE DEF P
<1>10. pos - b \in 0 .. pos /\ b + (pos - b) = pos
  BY <1>2
<1>11. pos - b \in P
  BY <1>2, <1>8, <1>9, <1>10, InductionUpTo
<1>12. sum[pos] = from[pos + 1]
  BY <1>2, <1>10, <1>11 DEF P
<1> QED
  BY <1>6, <1>12

-----------------------------------------------------------------------------
(* What an encoder stores of a level, position by position.                *)
LEMMA BuiltFields ==
  ASSUME NEW from, NEW enc \in Encodings(from), NEW pointers, WellFormedRanges(from, pointers)
  PROVE  /\ build(enc, from, pointers).encoding = enc
         /\ size(build(enc, from, pointers)) = Len(from)
         /\ DOMAIN build(enc, from, pointers).values = 1 .. Len(from)
         /\ enc = "compact" => build(enc, from, pointers).values = from
         /\ enc \in {"ef", "pef"} => build(enc, from, pointers).values = raised(from, pointers)
         /\ enc = "vb" => build(enc, from, pointers).values = differences(from, pointers)
<1> DEFINE values == build(enc, from, pointers).values
<1>0. from \in Seq(Nat) /\ Len(from) \in Nat
  BY DEF WellFormedRanges
<1>1. /\ build(enc, from, pointers).encoding = enc
      /\ enc = "compact" => values = from
      /\ enc \in {"ef", "pef"} => values = raised(from, pointers)
      /\ enc = "vb" => values = differences(from, pointers)
  BY DEF build
<1>2. size(build(enc, from, pointers)) = Len(values)
  BY DEF size
<1> HIDE DEF values
<1>3. DOMAIN values = 1 .. Len(from) /\ Len(values) = Len(from)
  <2>1. CASE enc = "compact"
    BY <1>0, <1>1, <2>1
  <2>2. CASE enc \in {"ef", "pef"}
    <3>1. values \in [1 .. Len(from) -> Nat]
      BY <1>1, <2>2, Raised
    <3>2. values \in Seq(Nat)
      BY <1>0, <3>1
    <3> QED
      BY <1>0, <3>1, <3>2
  <2>3. CASE enc = "vb"
    <3>1. values = [i \in 1 .. Len(from) |->
                      from[i] - (IF Begins(pointers, i) THEN 0 ELSE from[i - 1] + 1)]
      BY <1>1, <2>3 DEF differences
    <3> QED
      BY <1>0, <3>1
  <2> QED
    BY <2>1, <2>2, <2>3 DEF Encodings
<1> QED
  BY <1>1, <1>2, <1>3 DEF values

(* What the bound before a range is read as.                               *)
LEMMA UpperBound ==
  ASSUME NEW from, NEW enc \in Encodings(from), NEW pointers, WellFormedRanges(from, pointers),
         NEW p \in 0 .. Len(pointers) - 2, NEW r, r.begin = pointers[p + 1]
  PROVE  previous_range_upperbound(build(enc, from, pointers), r)
           = IF enc \in {"ef", "pef"} THEN upper(raised(from, pointers), pointers, p) ELSE 0
<1> DEFINE seq == build(enc, from, pointers)
<1>0. /\ seq.encoding = enc /\ DOMAIN seq.values = 1 .. Len(from)
      /\ enc \in {"ef", "pef"} => seq.values = raised(from, pointers)
  BY BuiltFields
<1>1. pointers[p + 1] \in 0 .. Len(from) - 1 /\ Len(from) \in Nat
  BY RangeIn
<1> HIDE DEF seq
<1>2. CASE enc \notin {"ef", "pef"}
  BY <1>0, <1>2 DEF previous_range_upperbound, seq
<1>3. CASE enc \in {"ef", "pef"} /\ p = 0
  <2>1. pointers[p + 1] = 0
    BY <1>3 DEF WellFormedRanges
  <2> QED
    BY <1>3, <2>1 DEF previous_range_upperbound, upper
<1>4. CASE enc \in {"ef", "pef"} /\ p # 0
  <2>1. 1 \in 1 .. Len(pointers) /\ p + 1 \in 1 .. Len(pointers) /\ 1 < p + 1
    BY <1>4, RangeIn
  <2>2. pointers[1] < pointers[p + 1] /\ pointers[1] = 0
    BY <2>1, PointersGrow DEF WellFormedRanges
  <2>3. pointers[p + 1] # 0 /\ (pointers[p + 1] - 1) + 1 = pointers[p + 1]
        /\ pointers[p + 1] \in 1 .. Len(from)
    BY <1>1, <2>2
  <2>4. At(seq.values, pointers[p + 1] - 1) = raised(from, pointers)[pointers[p + 1]]
    BY <1>0, <1>4, <2>3 DEF At
  <2>5. previous_range_upperbound(seq, r) = At(seq.values, pointers[p + 1] - 1)
    BY <1>0, <1>4, <2>3 DEF previous_range_upperbound
  <2> QED
    BY <1>4, <2>4, <2>5 DEF upper, seq
<1> QED
  BY <1>2, <1>3, <1>4

(* That bound is a number.                                                 *)
LEMMA UpperIsNat ==
  ASSUME NEW from, NEW pointers, WellFormedRanges(from, pointers),
         NEW p \in 0 .. Len(pointers) - 2
  PROVE  upper(raised(from, pointers), pointers, p) \in Nat
<1>1. CASE p = 0
  BY <1>1 DEF upper
<1>2. CASE p # 0
  <2>1. 1 \in 1 .. Len(pointers) /\ p + 1 \in 1 .. Len(pointers) /\ 1 < p + 1
    BY <1>2, RangeIn
  <2>2. pointers[1] < pointers[p + 1] /\ pointers[1] = 0
    BY <2>1, PointersGrow DEF WellFormedRanges
  <2>3. pointers[p + 1] \in 0 .. Len(from) - 1 /\ Len(from) \in Nat
    BY RangeIn
  <2>4. pointers[p + 1] \in 1 .. Len(from)
    BY <2>2, <2>3
  <2> QED
    BY <1>2, <2>4, Raised DEF upper
<1> QED
  BY <1>1, <1>2

(* A find that does not refuse an id that is not there.                    *)
Unrefused(seq, r, id) == seq.encoding = "vb" \/ past_bounds(seq, r, id)

(* find, of whatever encoder: the position of an id that is in the range;  *)
(* not_found, unless it does not refuse, if it is not there.               *)
LEMMA FindsNode ==
  ASSUME NEW from, NEW enc \in Encodings(from), NEW pointers, WellFormedRanges(from, pointers),
         NEW p \in 0 .. Len(pointers) - 2, NEW id \in Int
  PROVE  LET seq == build(enc, from, pointers)
             r == RangeAt(pointers, p)
         IN  /\ \A i \in Positions(r) : from[i + 1] = id => find_node(seq, r, id) = i
             /\ (~ Unrefused(seq, r, id) /\ \A i \in Positions(r) : from[i + 1] # id)
                  => find_node(seq, r, id) = not_found
<1> DEFINE seq == build(enc, from, pointers)
           r == RangeAt(pointers, p)
<1>0. /\ seq.encoding = enc /\ size(seq) = Len(from)
      /\ enc = "compact" => seq.values = from
      /\ enc \in {"ef", "pef"} => seq.values = raised(from, pointers)
  BY BuiltFields
<1>10. ~ OnePartition(seq)
  BY <1>0 DEF OnePartition, Encodings
<1>11. enc # "vb" =>
         find_node(seq, r, id) = IF past_bounds(seq, r, id) THEN garbage
                                 ELSE find(seq.values, r, id + previous_range_upperbound(seq, r))
  BY <1>0, <1>10, Zenon DEF find_node
<1>1. r.begin = pointers[p + 1]
  BY DEF RangeAt
<1>2. \A i \in Positions(r) : from[i + 1] \in Nat /\ i \in Nat
  BY RangeIn
<1>3. ASSUME NEW i \in Positions(r), NEW k \in Positions(r), from[i + 1] = from[k + 1]
      PROVE  i = k
  <2>1. find(from, r, from[i + 1]) = i
    BY FindIn
  <2>2. find(from, r, from[k + 1]) = k
    BY FindIn
  <2> QED
    BY <1>3, <2>1, <2>2
<1>4. CASE enc = "compact"
  <2>1. previous_range_upperbound(seq, r) = 0
    BY <1>0, <1>4 DEF previous_range_upperbound
  <2>2. find_node(seq, r, id) = find(from, r, id)
    <3>1. ~ past_bounds(seq, r, id)
      BY <1>0, <1>4 DEF past_bounds
    <3>2. find_node(seq, r, id) = find(from, r, id + 0)
      BY <1>0, <1>4, <1>11, <2>1, <3>1
    <3> QED
      BY <3>2
  <2> QED
    BY <2>2, FindIn
<1>5. CASE enc \in {"ef", "pef"}
  <2> DEFINE u == upper(raised(from, pointers), pointers, p)
             values == raised(from, pointers)
  <2>1. previous_range_upperbound(seq, r) = u
    BY <1>1, <1>5, UpperBound
  <2>2. ~ past_bounds(seq, r, id) => find_node(seq, r, id) = find(values, r, id + u)
    BY <1>0, <1>5, <1>11, <2>1
  <2>9. past_bounds(seq, r, id) =>
          Len(from) - 1 \in Positions(r) /\ id + u > values[(Len(from) - 1) + 1]
    <3>1. /\ pointers[p + 1] \in 0 .. Len(from) - 1 /\ pointers[p + 2] \in 1 .. Len(from)
          /\ pointers[p + 1] < pointers[p + 2]
      BY RangeIn
    <3>4. r.end = pointers[p + 2]
      BY DEF RangeAt
    <3>2. Len(from) \in Nat /\ (Len(from) - 1) + 1 = Len(from)
      BY DEF WellFormedRanges
    <3>3. r.end = Len(from) => Len(from) - 1 \in Positions(r)
      BY <1>1, <3>1, <3>2, <3>4 DEF Positions
    <3> QED
      BY <1>0, <1>5, <2>1, <3>2, <3>3 DEF past_bounds
  <2>3. \A i \in Positions(r) : values[i + 1] = from[i + 1] + u
    BY Raised
  <2>4. \A i \in Positions(r) : values[i + 1] \in Nat
    <3> TAKE i \in Positions(r)
    <3>1. i + 1 \in 1 .. Len(from)
      BY RangeIn
    <3> QED
      BY <3>1, Raised
  <2> HIDE DEF u, values, seq, r
  <2>5. u \in Nat
    BY UpperIsNat DEF u
  <2>6. ASSUME NEW i \in Positions(r) PROVE values[i + 1] = id + u <=> from[i + 1] = id
    <3>1. u \in Int /\ from[i + 1] \in Int /\ values[i + 1] = from[i + 1] + u
      BY <1>2, <2>3, <2>5
    <3> QED
      BY <3>1
  <2>10. ASSUME NEW i \in Positions(r), from[i + 1] = id PROVE ~ past_bounds(seq, r, id)
    <3> SUFFICES ASSUME past_bounds(seq, r, id) PROVE FALSE
      OBVIOUS
    <3> DEFINE last == Len(from) - 1
    <3>1. /\ last \in Positions(r) /\ id + u > values[last + 1]
          /\ values[last + 1] = from[last + 1] + u /\ from[last + 1] \in Nat /\ last \in Nat
      BY <1>2, <2>3, <2>9
    <3>2. i \in Nat /\ i <= last /\ from[i + 1] \in Nat
      BY <1>2, RangeIn DEF r
    <3>3. from[i + 1] <= from[last + 1]
      <4>1. /\ p + 1 \in 1 .. Len(pointers) - 1 /\ (p + 1) + 1 = p + 2
            /\ i + 1 \in pointers[p + 1] + 1 .. pointers[p + 2]
            /\ last + 1 \in pointers[p + 1] + 1 .. pointers[p + 2]
        BY SMTT(30), <3>1, RangeIn DEF r
      <4>2. i + 1 < last + 1 => from[i + 1] < from[last + 1]
        BY <4>1 DEF WellFormedRanges
      <4>3. i + 1 = last + 1 \/ i + 1 < last + 1
        BY <3>1, <3>2
      <4> QED
        BY <3>1, <3>2, <4>2, <4>3
    <3> QED
      BY <2>5, <2>10, <3>1, <3>2, <3>3
  <2>7. ASSUME NEW i \in Positions(r), from[i + 1] = id
        PROVE  find(values, r, id + u) = i
    <3>1. values[i + 1] = id + u
      BY <2>6, <2>7
    <3>2. find(values, r, id + u) = CHOOSE pos \in Positions(r) : values[pos + 1] = id + u
      BY <3>1 DEF find
    <3>3. \A pos \in Positions(r) : values[pos + 1] = id + u => pos = i
      BY <1>3, <2>6, <2>7
    <3> QED
      BY <3>1, <3>2, <3>3
  <2>8. (\A i \in Positions(r) : from[i + 1] # id) => find(values, r, id + u) = not_found
    BY <2>6 DEF find
  <2> QED
    BY <2>2, <2>7, <2>8, <2>10 DEF r, seq, Unrefused
<1>6. CASE enc = "vb"
  <2> DEFINE at_least == {pos \in Positions(r) : Summed(seq, r, pos) >= id}
  <2>1. \A pos \in Positions(r) : Summed(seq, r, pos) = from[pos + 1]
    BY <1>1, <1>6, SummedUp
  <2> SUFFICES ASSUME NEW i \in Positions(r), from[i + 1] = id
               PROVE  find_node(seq, r, id) = i
    BY <1>0, <1>6 DEF Unrefused
  <2>2. find_node(seq, r, id)
          = IF at_least = {} THEN garbage
            ELSE CHOOSE pos \in at_least : \A other \in at_least : pos <= other
    <3>1. ~ past_bounds(seq, r, id)
      BY <1>0, <1>6 DEF past_bounds
    <3> QED
      BY <1>0, <1>6, <1>10, <3>1, Zenon DEF find_node
  <2>3. i \in at_least
    BY <1>2, <2>1
  <2>4. ASSUME NEW pos \in at_least PROVE i <= pos /\ pos \in Nat
    <3>1. pos \in Positions(r) /\ from[pos + 1] >= from[i + 1] /\ pos \in Nat /\ i \in Nat
      BY <1>2, <2>1
    <3>2. ~ (pos < i)
      <4>1. /\ p + 1 \in 1 .. Len(pointers) - 1 /\ (p + 1) + 1 = p + 2
            /\ pos + 1 \in pointers[p + 1] + 1 .. pointers[p + 2]
            /\ i + 1 \in pointers[p + 1] + 1 .. pointers[p + 2]
        BY SMTT(30), <3>1, RangeIn
      <4>2. pos + 1 < i + 1 => from[pos + 1] < from[i + 1]
        BY <4>1 DEF WellFormedRanges
      <4>3. from[pos + 1] \in Nat /\ from[i + 1] \in Nat
        BY <1>2, <3>1
      <4> QED
        BY <3>1, <4>2, <4>3
    <3> QED
      BY <3>1, <3>2
  <2> HIDE DEF at_least
  <2>5. \A pos \in at_least : (\A other \in at_least : pos <= other) => pos = i
    <3> TAKE pos \in at_least
    <3> HAVE \A other \in at_least : pos <= other
    <3>1. pos <= i /\ i <= pos /\ pos \in Nat /\ i \in Nat
      BY <1>2, <2>3, <2>4
    <3> QED
      BY <3>1
  <2>6. (CHOOSE pos \in at_least : \A other \in at_least : pos <= other) = i
    BY <2>3, <2>4, <2>5
  <2> QED
    BY <2>2, <2>3, <2>6
<1> QED
  BY <1>4, <1>5, <1>6 DEF Encodings

-----------------------------------------------------------------------------
(* A cursor on the i-th node of a level, which is in its p-th range, before *)
(* and after the node is read.                                             *)
Cursor(pos, slot, last, up) ==
  [pos |-> pos, slot |-> slot, last |-> last, prev_range_upper_bound |-> up]

Placed(enc, from, pointers, c, p, i) ==
  \E slot, last, up :
    /\ c = Cursor(i, slot, last, up)
    /\ enc = "compact" => slot = i
    /\ enc \in {"ef", "pef"} => up = upper(raised(from, pointers), pointers, p)
    /\ enc = "vb" => last = from[i + 1] /\ up = 0

Reads(enc, from, pointers, c, p, i) ==
  \E slot, last, up :
    /\ c = Cursor(i, slot, last, up)
    /\ enc = "compact" => slot = i + 1
    /\ enc \in {"ef", "pef"} => /\ last = raised(from, pointers)[i + 1]
                     /\ up = upper(raised(from, pointers), pointers, p)
    /\ enc = "vb" => last = from[i + 1] /\ up = 0

(* A cursor that is made for a position is placed there.                   *)
LEMMA CursorPlaced ==
  ASSUME NEW from, NEW enc \in Encodings(from), NEW pointers, WellFormedRanges(from, pointers),
         NEW p \in 0 .. Len(pointers) - 2, NEW i \in Positions(RangeAt(pointers, p)),
         NEW r, r.begin = pointers[p + 1]
  PROVE  Placed(enc, from, pointers, cursor(build(enc, from, pointers), r, i), p, i)
<1> DEFINE seq == build(enc, from, pointers)
<1>1. seq.encoding = enc
  BY BuiltFields
<1>2. previous_range_upperbound(seq, r)
        = IF enc \in {"ef", "pef"} THEN upper(raised(from, pointers), pointers, p) ELSE 0
  BY UpperBound
<1>3. enc = "vb" => Summed(seq, r, i) = from[i + 1]
  BY SummedUp
<1> HIDE DEF seq
<1>4. \E last : /\ cursor(seq, r, i) = Cursor(i, i, last, previous_range_upperbound(seq, r))
                /\ enc = "vb" => last = Summed(seq, r, i)
  BY <1>1 DEF cursor, Cursor
<1>5. PICK last : /\ cursor(seq, r, i) = Cursor(i, i, last, previous_range_upperbound(seq, r))
                  /\ enc = "vb" => last = Summed(seq, r, i)
  BY <1>4
<1>6. Placed(enc, from, pointers, cursor(seq, r, i), p, i)
  BY <1>2, <1>3, <1>5 DEF Placed
<1> QED
  BY <1>6 DEF seq

(* value() gives the node of the place, and leaves the cursor there.       *)
LEMMA ReadsNode ==
  ASSUME NEW from, NEW enc \in Encodings(from), NEW pointers, WellFormedRanges(from, pointers),
         NEW p \in 0 .. Len(pointers) - 2, NEW i \in Positions(RangeAt(pointers, p)),
         NEW c, Placed(enc, from, pointers, c, p, i)
  PROVE  /\ value(build(enc, from, pointers), c) = from[i + 1]
         /\ Reads(enc, from, pointers, read(build(enc, from, pointers), c), p, i)
<1> DEFINE seq == build(enc, from, pointers)
<1>1. /\ seq.encoding = enc /\ size(seq) = Len(from) /\ DOMAIN seq.values = 1 .. Len(from)
      /\ enc = "compact" => seq.values = from
      /\ enc \in {"ef", "pef"} => seq.values = raised(from, pointers)
  BY BuiltFields
<1>2. i \in 0 .. Len(from) - 1 /\ from[i + 1] \in Nat /\ Len(from) \in Nat
  BY RangeIn
<1>3. i + 1 \in DOMAIN seq.values /\ i # size(seq)
  BY <1>1, <1>2
<1>4. At(seq.values, i) = seq.values[i + 1]
  BY <1>3 DEF At
<1>10. ~ OnePartition(seq)
  BY <1>1 DEF OnePartition, Encodings
<1> HIDE DEF seq
<1>5. PICK slot, last, up :
        /\ c = Cursor(i, slot, last, up)
        /\ enc = "compact" => slot = i
        /\ enc \in {"ef", "pef"} => up = upper(raised(from, pointers), pointers, p)
        /\ enc = "vb" => last = from[i + 1] /\ up = 0
  BY DEF Placed
<1>6. c.pos = i /\ c.slot = slot /\ c.last = last /\ c.prev_range_upper_bound = up
  BY <1>5 DEF Cursor
<1>7. CASE enc = "compact"
  <2>1. value(seq, c) = from[i + 1]
    BY <1>1, <1>4, <1>5, <1>6, <1>7 DEF value
  <2>2. read(seq, c) = Cursor(i, i + 1, last, up)
    BY <1>1, <1>5, <1>7 DEF read, Cursor
  <2> QED
    BY <1>7, <2>1, <2>2 DEF Reads, seq
<1>8. CASE enc \in {"ef", "pef"}
  <2>1. read(seq, c) = Cursor(i, slot, At(seq.values, i), up)
    <3>1. ASSUME enc = "ef" PROVE read(seq, c) = [c EXCEPT !.last = At(seq.values, i)]
      <4>1. read(seq, c)
              = [c EXCEPT !.last = IF c.pos = size(seq) THEN c.last ELSE At(seq.values, c.pos)]
        BY <1>1, <3>1 DEF read
      <4> QED
        BY <1>3, <1>6, <4>1
    <3>3. ASSUME enc = "pef" PROVE read(seq, c) = [c EXCEPT !.last = At(seq.values, i)]
      <4>1. read(seq, c)
              = [c EXCEPT !.last = IF OnePartition(seq) \/ c.pos = size(seq) THEN past_end(seq)
                                   ELSE At(seq.values, c.pos)]
        BY <1>1, <3>3 DEF read
      <4> QED
        BY <1>3, <1>6, <1>10, <4>1
    <3>2. read(seq, c) = [c EXCEPT !.last = At(seq.values, i)]
      BY <1>8, <3>1, <3>3
    <3> QED
      BY <1>5, <3>2 DEF Cursor
  <2>2. read(seq, c).last = At(seq.values, i)
    BY <2>1 DEF Cursor
  <2>3. value(seq, c) = At(seq.values, i) - up
    BY <1>1, <1>6, <1>8, <2>2 DEF value
  <2>4. At(seq.values, i) = from[i + 1] + up /\ up \in Nat
    BY <1>1, <1>4, <1>5, <1>8, Raised, UpperIsNat
  <2>5. value(seq, c) = from[i + 1]
    BY <1>2, <2>3, <2>4
  <2> QED
    BY <1>1, <1>4, <1>5, <1>8, <2>1, <2>5 DEF Reads, seq
<1>9. CASE enc = "vb"
  <2>1. read(seq, c) = c
    BY <1>1, <1>9 DEF read
  <2>2. value(seq, c) = from[i + 1] - 0
    BY <1>1, <1>5, <1>6, <1>9, <2>1 DEF value
  <2> QED
    BY <1>2, <1>5, <1>9, <2>1, <2>2 DEF Reads, seq
<1> QED
  BY <1>7, <1>8, <1>9 DEF Encodings

(* A cursor of which the place and the last value change.                  *)
Move(c, pos, last) == [c EXCEPT !.pos = pos, !.last = last]

(* The rest of it stays.                                                   *)
LEMMA CursorMoved ==
  ASSUME NEW pos, NEW slot, NEW last, NEW up, NEW pos2, NEW last2,
         NEW c, c = Cursor(pos, slot, last, up)
  PROVE  Move(c, pos2, last2) = Cursor(pos2, slot, last2, up)
<1>1. Move(c, pos2, last2) = [[c EXCEPT !.pos = pos2] EXCEPT !.last = last2]
  BY DEF Cursor, Move
<1>2. [c EXCEPT !.pos = pos2] = Cursor(pos2, slot, last, up)
  BY DEF Cursor
<1>3. [Cursor(pos2, slot, last, up) EXCEPT !.last = last2] = Cursor(pos2, slot, last2, up)
  BY DEF Cursor
<1> QED
  BY <1>1, <1>2, <1>3

(* A step goes to the next place, in the range or, with switch_range, in   *)
(* the next one.                                                           *)
LEMMA CursorSteps ==
  ASSUME NEW from, NEW enc \in Encodings(from), NEW pointers, WellFormedRanges(from, pointers),
         NEW p \in 0 .. Len(pointers) - 2, NEW i \in Positions(RangeAt(pointers, p)),
         NEW c, Reads(enc, from, pointers, c, p, i)
  PROVE  LET seq == build(enc, from, pointers)
         IN  /\ i + 1 \in Positions(RangeAt(pointers, p))
                  => Placed(enc, from, pointers, next(seq, c), p, i + 1)
             /\ (i + 1 = pointers[p + 2] /\ i + 1 < Len(from))
                  => Placed(enc, from, pointers, switch_range(seq, next(seq, c)), p + 1, i + 1)
<1> DEFINE seq == build(enc, from, pointers)
<1>1. /\ seq.encoding = enc /\ DOMAIN seq.values = 1 .. Len(from)
      /\ enc \in {"ef", "pef"} => seq.values = raised(from, pointers)
      /\ enc = "vb" => seq.values = differences(from, pointers)
  BY BuiltFields
<1>2. i \in Nat /\ i \in 0 .. Len(from) - 1 /\ from[i + 1] \in Nat /\ Len(from) \in Nat
  BY RangeIn
<1> HIDE DEF seq
<1>3. PICK slot, last, up :
        /\ c = Cursor(i, slot, last, up)
        /\ enc = "compact" => slot = i + 1
        /\ enc \in {"ef", "pef"} => /\ last = raised(from, pointers)[i + 1]
                         /\ up = upper(raised(from, pointers), pointers, p)
        /\ enc = "vb" => last = from[i + 1] /\ up = 0
  BY DEF Reads
<1>4. /\ enc # "vb" => next(seq, c) = Cursor(i + 1, slot, last, up)
      /\ enc = "vb" => next(seq, c) = Cursor(i + 1, slot, last + At(seq.values, i + 1) + 1, up)
  <2>1. c.pos = i /\ c.last = last /\ c = Cursor(i, slot, last, up)
    BY <1>3 DEF Cursor
  <2>2. CASE enc # "vb"
    <3>1. next(seq, c) = Move(c, i + 1, last)
      BY <1>1, <2>1, <2>2 DEF next, Move
    <3>2. next(seq, c) = Cursor(i + 1, slot, last, up)
      BY <2>1, <3>1, CursorMoved
    <3> QED
      BY <2>2, <3>2
  <2>3. CASE enc = "vb"
    <3>1. next(seq, c) = Move(c, i + 1, last + At(seq.values, i + 1) + 1)
      BY <1>1, <2>1, <2>3 DEF next, Move
    <3>2. next(seq, c) = Cursor(i + 1, slot, last + At(seq.values, i + 1) + 1, up)
      BY <2>1, <3>1, CursorMoved
    <3> QED
      BY <2>3, <3>2
  <2> QED
    BY <2>2, <2>3
<1>5. ASSUME i + 1 \in Positions(RangeAt(pointers, p))
      PROVE  Placed(enc, from, pointers, next(seq, c), p, i + 1)
  <2>1. CASE enc # "vb"
    BY <1>3, <1>4, <2>1 DEF Placed, Encodings
  <2>2. CASE enc = "vb"
    <3>1. i + 1 # pointers[p + 1] /\ (i + 1) - 1 = i /\ i + 1 \in 0 .. Len(from) - 1
          /\ from[(i + 1) + 1] \in Nat
      BY <1>2, <1>5, RangeIn
    <3>2. (i + 1) + 1 \in DOMAIN seq.values
      BY <1>1, <1>2, <3>1
    <3>3. seq.values[(i + 1) + 1] = from[(i + 1) + 1] - (from[i + 1] + 1)
      BY <1>1, <1>5, <2>2, <3>1, Differs
    <3>4. At(seq.values, i + 1) = from[(i + 1) + 1] - (from[i + 1] + 1)
      BY <3>2, <3>3 DEF At
    <3>5. last + At(seq.values, i + 1) + 1 = from[(i + 1) + 1]
      BY SMTT(30), <1>2, <1>3, <2>2, <3>1, <3>4
    <3>6. up = 0
      BY <1>3, <2>2
    <3> QED
      BY <1>4, <2>2, <3>5, <3>6 DEF Placed
  <2> QED
    BY <2>1, <2>2
<1>6. ASSUME i + 1 = pointers[p + 2], i + 1 < Len(from)
      PROVE  Placed(enc, from, pointers, switch_range(seq, next(seq, c)), p + 1, i + 1)
  <2>1. /\ p + 1 \in 0 .. Len(pointers) - 2 /\ (p + 1) + 1 = p + 2 /\ (p + 1) + 2 = p + 3
    <3>1. Len(pointers) \in Nat /\ p + 2 \in 1 .. Len(pointers)
      BY RangeIn
    <3>2. p + 2 # Len(pointers)
      BY <1>6 DEF WellFormedRanges
    <3> QED
      BY <3>1, <3>2
  <2>2. i + 1 \in Positions(RangeAt(pointers, p + 1))
    <3>1. pointers[p + 2] < pointers[p + 3] /\ pointers[p + 3] \in Nat
          /\ RangeAt(pointers, p + 1) = [begin |-> pointers[p + 2], end |-> pointers[p + 3]]
      <4>1. PICK q \in 0 .. Len(pointers) - 2 : q = p + 1
        BY <2>1
      <4>2. q + 1 = p + 2 /\ q + 2 = p + 3
        BY <2>1, <4>1
      <4>3. /\ pointers[q + 1] < pointers[q + 2] /\ pointers[q + 2] \in 1 .. Len(from)
            /\ RangeAt(pointers, q) = [begin |-> pointers[q + 1], end |-> pointers[q + 2]]
        BY RangeIn
      <4> QED
        BY <4>1, <4>2, <4>3
    <3>2. i + 1 \in pointers[p + 2] .. pointers[p + 3] - 1
      BY <1>2, <1>6, <3>1
    <3> QED
      BY <3>1, <3>2 DEF Positions
  <2>3. CASE enc = "compact"
    BY <1>1, <1>3, <1>4, <2>3 DEF Placed, switch_range
  <2>4. CASE enc \in {"ef", "pef"}
    <3>1. switch_range(seq, next(seq, c)) = Cursor(i + 1, slot, last, last)
      BY <1>1, <1>4, <2>4 DEF switch_range, Cursor
    <3>2. upper(raised(from, pointers), pointers, p + 1) = raised(from, pointers)[i + 1]
      BY <1>6, <2>1 DEF upper
    <3> QED
      BY <1>3, <2>4, <3>1, <3>2 DEF Placed
  <2>5. CASE enc = "vb"
    <3>1. switch_range(seq, next(seq, c)) = Cursor(i + 1, slot, At(seq.values, i + 1), up)
      <4>1. next(seq, c).pos = i + 1
        BY <1>4, <2>5 DEF Cursor
      <4>2. switch_range(seq, next(seq, c)) = [next(seq, c) EXCEPT !.last = At(seq.values, i + 1)]
        BY <1>1, <2>5, <4>1 DEF switch_range
      <4> QED
        BY <1>4, <2>5, <4>2 DEF Cursor
    <3>2. i + 1 \in 0 .. Len(from) - 1 /\ (i + 1) + 1 \in DOMAIN seq.values
      BY <1>1, <1>2, <1>6
    <3>3. At(seq.values, i + 1) = seq.values[(i + 1) + 1]
      BY <3>2 DEF At
    <3>4. seq.values[(i + 1) + 1] = from[(i + 1) + 1]
      BY <1>1, <1>6, <2>1, <2>2, <2>5, Differs
    <3>5. up = 0
      BY <1>3, <2>5
    <3> QED
      BY <2>5, <3>1, <3>3, <3>4, <3>5 DEF Placed
  <2> QED
    BY <2>3, <2>4, <2>5 DEF Encodings
<1> QED
  BY <1>5, <1>6 DEF seq

-----------------------------------------------------------------------------
(* The iterator of a level, in its p-th range, whatever its node; and on   *)
(* the i-th node. OnTrack when it also knows how far into the range it is, *)
(* as it does unless select put it at a second id.                         *)
LevelFields ==
  {"nodes_it", "pointers_it", "begin", "end", "pos_in_range", "node", "switch_range"}

InRange(pointers, iter, p) ==
  /\ DOMAIN iter = LevelFields
  /\ iter.pointers_it = p + 2
  /\ iter.begin = pointers[p + 1]
  /\ iter.end = pointers[p + 2]

InLevel(enc, from, pointers, iter, p, i) ==
  /\ InRange(pointers, iter, p)
  /\ Reads(enc, from, pointers, iter.nodes_it, p, i)
  /\ iter.node = from[i + 1]

OnTrack(pointers, iter, p, i) == iter.pos_in_range = i - pointers[p + 1]

(* next_pointer goes to the next range, and touches nothing else.          *)
LEMMA NextPointer ==
  ASSUME NEW nodes, NEW pointers, WellFormedRanges(nodes, pointers),
         NEW p \in 0 .. Len(pointers) - 2, NEW iter, InRange(pointers, iter, p)
  PROVE  LET to == next_pointer(pointers, iter)
         IN  /\ DOMAIN to = LevelFields
             /\ p + 1 < Len(pointers) - 1 => InRange(pointers, to, p + 1)
             /\ to.nodes_it = iter.nodes_it /\ to.node = iter.node
             /\ to.pos_in_range = iter.pos_in_range /\ to.switch_range = iter.switch_range
<1>1. /\ DOMAIN iter = LevelFields /\ iter.pointers_it = p + 2 /\ iter.end = pointers[p + 2]
      /\ Len(pointers) \in Nat
  BY RangeIn DEF InRange
<1> DEFINE to == next_pointer(pointers, iter)
<1>2. /\ DOMAIN to = LevelFields
      /\ to.nodes_it = iter.nodes_it /\ to.node = iter.node
      /\ to.pos_in_range = iter.pos_in_range /\ to.switch_range = iter.switch_range
      /\ to.begin = pointers[p + 2]
      /\ to.end = PointerAt(pointers, p + 2)
      /\ to.pointers_it = IF p + 2 < Len(pointers) THEN (p + 2) + 1 ELSE p + 2
  BY <1>1 DEF next_pointer, LevelFields
<1> HIDE DEF to
<1>3. ASSUME p + 1 < Len(pointers) - 1 PROVE InRange(pointers, to, p + 1)
  <2>1. p + 2 < Len(pointers) /\ (p + 2) + 1 = (p + 1) + 2 /\ (p + 1) + 1 = p + 2
    BY <1>1, <1>3
  <2>2. PointerAt(pointers, p + 2) = pointers[(p + 1) + 2]
    BY <2>1 DEF PointerAt
  <2> QED
    BY <1>2, <2>1, <2>2 DEF InRange
<1> QED
  BY <1>2, <1>3 DEF to

(* read() on a cursor that is placed.                                      *)
LEMMA ReadInLevel ==
  ASSUME NEW from, NEW enc \in Encodings(from), NEW pointers, WellFormedRanges(from, pointers),
         NEW p \in 0 .. Len(pointers) - 2, NEW i \in Positions(RangeAt(pointers, p)),
         NEW iter, InRange(pointers, iter, p),
         Placed(enc, from, pointers,
                IF iter.switch_range THEN switch_range(build(enc, from, pointers), iter.nodes_it)
                ELSE iter.nodes_it, p, i)
  PROVE  LET to == read_node(build(enc, from, pointers), iter)
         IN  /\ InLevel(enc, from, pointers, to, p, i)
             /\ to.pos_in_range = iter.pos_in_range /\ to.switch_range = iter.switch_range
<1> DEFINE seq == build(enc, from, pointers)
<1>1. PICK c : /\ c = IF iter.switch_range THEN switch_range(seq, iter.nodes_it) ELSE iter.nodes_it
               /\ Placed(enc, from, pointers, c, p, i)
  OBVIOUS
<1>2. value(seq, c) = from[i + 1] /\ Reads(enc, from, pointers, read(seq, c), p, i)
  BY <1>1, ReadsNode
<1> HIDE DEF seq
<1>3. read_node(seq, iter) = [iter EXCEPT !.node = value(seq, c), !.nodes_it = read(seq, c)]
  BY <1>1, Zenon DEF read_node
<1>4. /\ DOMAIN iter = LevelFields /\ iter.pointers_it = p + 2
      /\ iter.begin = pointers[p + 1] /\ iter.end = pointers[p + 2]
  BY DEF InRange
<1> DEFINE to == read_node(seq, iter)
<1>5. /\ DOMAIN to = LevelFields
      /\ to.pointers_it = iter.pointers_it /\ to.begin = iter.begin /\ to.end = iter.end
      /\ to.pos_in_range = iter.pos_in_range /\ to.switch_range = iter.switch_range
      /\ to.node = value(seq, c) /\ to.nodes_it = read(seq, c)
  BY <1>3, <1>4 DEF LevelFields
<1> HIDE DEF to
<1>6. InLevel(enc, from, pointers, to, p, i)
  BY <1>2, <1>4, <1>5 DEF InLevel, InRange
<1> QED
  BY <1>5, <1>6 DEF to, seq

(* The constructor puts the iterator of a level on the node of its cursor. *)
LEMMA LevelStarts ==
  ASSUME NEW from, NEW enc \in Encodings(from), NEW pointers, WellFormedRanges(from, pointers),
         NEW p \in 0 .. Len(pointers) - 2, NEW i \in Positions(RangeAt(pointers, p)),
         NEW r, r.begin = pointers[p + 1]
  PROVE  LET seq == build(enc, from, pointers)
             iter == level_iterator(seq, pointers, cursor(seq, r, i), p)
         IN  /\ InLevel(enc, from, pointers, iter, p, i)
             /\ i = pointers[p + 1] => OnTrack(pointers, iter, p, i)
<1> DEFINE seq == build(enc, from, pointers)
           c == cursor(seq, r, i)
           start == [nodes_it |-> c, pointers_it |-> p + 1,
                     begin |-> 0, end |-> PointerAt(pointers, p),
                     pos_in_range |-> 0, node |-> 0, switch_range |-> FALSE]
           from_pointer == next_pointer(pointers, start)
           iter == level_iterator(seq, pointers, c, p)
<1>1. Placed(enc, from, pointers, c, p, i)
  BY CursorPlaced
<1>2. iter = read_node(seq, from_pointer)
  BY Zenon DEF level_iterator
<1> HIDE DEF c, seq, iter
<1>3. /\ p \in Nat /\ Len(pointers) \in Nat /\ p + 1 < Len(pointers) /\ p < Len(pointers)
      /\ pointers[p + 1] \in Nat
  <2>1. Len(pointers) \in Nat /\ pointers[p + 1] \in 0 .. Len(from) - 1
    BY RangeIn
  <2> QED
    BY <2>1
<1>4. PointerAt(pointers, p) = pointers[p + 1] /\ PointerAt(pointers, p + 1) = pointers[p + 2]
  BY <1>3 DEF PointerAt
<1>5. /\ DOMAIN from_pointer = LevelFields
      /\ from_pointer.nodes_it = c
      /\ from_pointer.pointers_it = p + 2
      /\ from_pointer.begin = pointers[p + 1]
      /\ from_pointer.end = pointers[p + 2]
      /\ from_pointer.pos_in_range = 0
      /\ from_pointer.switch_range = FALSE
  <2>1. /\ DOMAIN start = LevelFields /\ start.nodes_it = c /\ start.pointers_it = p + 1
        /\ start.end = pointers[p + 1] /\ start.pos_in_range = 0 /\ start.switch_range = FALSE
    BY <1>4 DEF LevelFields
  <2> HIDE DEF start
  <2> QED
    BY <1>3, <1>4, <2>1 DEF next_pointer, LevelFields
<1> HIDE DEF from_pointer
<1>6. InRange(pointers, from_pointer, p)
  BY <1>5 DEF InRange
<1>7. Placed(enc, from, pointers,
             IF from_pointer.switch_range THEN switch_range(seq, from_pointer.nodes_it)
             ELSE from_pointer.nodes_it, p, i)
  BY <1>1, <1>5
<1>8. InLevel(enc, from, pointers, iter, p, i) /\ iter.pos_in_range = 0
  BY <1>2, <1>5, <1>6, <1>7, ReadInLevel DEF seq
<1> QED
  BY <1>3, <1>8 DEF OnTrack, iter, c, seq

(* ++ goes to the next node, in the range or in the next one, and says     *)
(* which.                                                                  *)
LEMMA Advances ==
  ASSUME NEW from, NEW enc \in Encodings(from), NEW pointers, WellFormedRanges(from, pointers),
         NEW p \in 0 .. Len(pointers) - 2, NEW i \in Positions(RangeAt(pointers, p)),
         NEW iter, InLevel(enc, from, pointers, iter, p, i), OnTrack(pointers, iter, p, i)
  PROVE  LET to == advance(build(enc, from, pointers), pointers, iter)
         IN  /\ to.switch_range <=> i + 1 = pointers[p + 2]
             /\ i + 1 < pointers[p + 2] =>
                  /\ InLevel(enc, from, pointers, to, p, i + 1)
                  /\ OnTrack(pointers, to, p, i + 1)
             /\ i + 1 = pointers[p + 2] /\ i + 1 < Len(from) =>
                  /\ InLevel(enc, from, pointers, to, p + 1, i + 1)
                  /\ OnTrack(pointers, to, p + 1, i + 1)
<1> DEFINE seq == build(enc, from, pointers)
           moved == [iter EXCEPT !.pos_in_range = @ + 1, !.nodes_it = next(seq, @)]
           over == [next_pointer(pointers, moved) EXCEPT !.pos_in_range = 0, !.switch_range = TRUE]
           within == [moved EXCEPT !.switch_range = FALSE]
           left == moved.pos_in_range = iter.end - iter.begin
           to == advance(seq, pointers, iter)
<1>1. /\ DOMAIN iter = LevelFields /\ iter.begin = pointers[p + 1] /\ iter.end = pointers[p + 2]
      /\ iter.pointers_it = p + 2 /\ iter.pos_in_range = i - pointers[p + 1]
      /\ Reads(enc, from, pointers, iter.nodes_it, p, i)
  BY DEF InLevel, InRange, OnTrack
<1>2. /\ i \in Nat /\ pointers[p + 1] \in Nat /\ pointers[p + 2] \in Nat /\ Len(pointers) \in Nat
      /\ pointers[p + 1] <= i /\ i < pointers[p + 2]
      /\ Positions(RangeAt(pointers, p)) = pointers[p + 1] .. pointers[p + 2] - 1
  <2>1. /\ pointers[p + 1] \in 0 .. Len(from) - 1 /\ pointers[p + 2] \in 1 .. Len(from)
        /\ RangeAt(pointers, p) = [begin |-> pointers[p + 1], end |-> pointers[p + 2]]
        /\ Len(pointers) \in Nat
    BY RangeIn
  <2>2. i \in 0 .. Len(from) - 1 /\ pointers[p + 1] <= i /\ i < pointers[p + 2]
    BY RangeIn
  <2> QED
    BY <2>1, <2>2 DEF Positions
<1>3. to = read_node(seq, IF left THEN over ELSE within)
  BY Zenon DEF advance
<1> HIDE DEF seq, to
<1>4. /\ InRange(pointers, moved, p)
      /\ moved.pos_in_range = i + 1 - pointers[p + 1] /\ moved.nodes_it = next(seq, iter.nodes_it)
  BY <1>1, <1>2 DEF InRange, LevelFields
<1> HIDE DEF moved
<1>5. left <=> i + 1 = pointers[p + 2]
  BY <1>1, <1>2, <1>4
<1> HIDE DEF left
<1>6. CASE i + 1 < pointers[p + 2]
  <2>1. to = read_node(seq, within)
    BY <1>2, <1>3, <1>5, <1>6
  <2>2. /\ InRange(pointers, within, p) /\ within.pos_in_range = i + 1 - pointers[p + 1]
        /\ within.nodes_it = next(seq, iter.nodes_it) /\ within.switch_range = FALSE
    BY <1>4 DEF InRange, LevelFields
  <2> HIDE DEF within
  <2>3. i + 1 \in Positions(RangeAt(pointers, p))
    BY <1>2, <1>6
  <2>4. Placed(enc, from, pointers, next(seq, iter.nodes_it), p, i + 1)
    BY <1>1, <2>3, CursorSteps DEF seq
  <2>5. /\ InLevel(enc, from, pointers, to, p, i + 1)
        /\ to.pos_in_range = within.pos_in_range /\ to.switch_range = FALSE
    BY <2>1, <2>2, <2>3, <2>4, ReadInLevel DEF seq
  <2> QED
    BY <1>2, <1>6, <2>2, <2>5 DEF OnTrack, to, seq
<1>7. CASE i + 1 = pointers[p + 2]
  <2>1. to = read_node(seq, over)
    BY <1>3, <1>5, <1>7
  <2>2. /\ DOMAIN next_pointer(pointers, moved) = LevelFields
        /\ p + 1 < Len(pointers) - 1 => InRange(pointers, next_pointer(pointers, moved), p + 1)
        /\ next_pointer(pointers, moved).nodes_it = next(seq, iter.nodes_it)
    BY <1>4, NextPointer
  <2>3. /\ DOMAIN over = LevelFields
        /\ p + 1 < Len(pointers) - 1 => InRange(pointers, over, p + 1)
        /\ over.pos_in_range = 0 /\ over.nodes_it = next(seq, iter.nodes_it)
        /\ over.switch_range = TRUE
    BY <2>2 DEF InRange, LevelFields
  <2> HIDE DEF over
  <2>4. to.switch_range = TRUE
    BY <2>1, <2>3 DEF read_node, LevelFields
  <2>5. ASSUME i + 1 < Len(from)
        PROVE  /\ InLevel(enc, from, pointers, to, p + 1, i + 1)
               /\ OnTrack(pointers, to, p + 1, i + 1)
    <3>1. p + 1 \in 0 .. Len(pointers) - 2 /\ p + 1 < Len(pointers) - 1 /\ (p + 1) + 1 = p + 2
      <4>1. Len(pointers) \in Nat /\ p + 2 \in 1 .. Len(pointers)
        BY RangeIn
      <4>2. p + 2 # Len(pointers)
        BY <1>7, <2>5 DEF WellFormedRanges
      <4> QED
        BY <4>1, <4>2
    <3>2. i + 1 \in Positions(RangeAt(pointers, p + 1))
      <4>1. PICK q \in 0 .. Len(pointers) - 2 : q = p + 1
        BY <3>1
      <4>2. /\ pointers[q + 1] < pointers[q + 2] /\ pointers[q + 2] \in 1 .. Len(from)
            /\ RangeAt(pointers, q) = [begin |-> pointers[q + 1], end |-> pointers[q + 2]]
        BY RangeIn
      <4>3. i + 1 = pointers[q + 1]
        BY <1>7, <3>1, <4>1
      <4>4. i + 1 \in pointers[q + 1] .. pointers[q + 2] - 1
        BY <1>2, <4>2, <4>3
      <4> QED
        BY <4>1, <4>2, <4>4 DEF Positions
    <3>3. Placed(enc, from, pointers, switch_range(seq, next(seq, iter.nodes_it)), p + 1, i + 1)
      BY <1>1, <1>7, <2>5, CursorSteps DEF seq
    <3>4. /\ InLevel(enc, from, pointers, to, p + 1, i + 1)
          /\ to.pos_in_range = over.pos_in_range
      BY <2>1, <2>3, <3>1, <3>2, <3>3, ReadInLevel DEF seq
    <3> QED
      BY <1>2, <1>7, <2>3, <3>1, <3>4 DEF OnTrack
  <2> QED
    BY <1>2, <1>7, <2>4, <2>5 DEF to, seq
<1> QED
  BY <1>2, <1>6, <1>7

-----------------------------------------------------------------------------
(* A part of the pairs that has with every one those before it is counted  *)
(* by the rank at which it ends.                                           *)
LEMMA DownPairs ==
  ASSUME NEW S, S \subseteq Nat \X Nat, IsFiniteSet(S), NEW D, D \subseteq S,
         \A q \in D : \A r \in S : Before(r, q) => r \in D
  PROVE  /\ Cardinality(D) \in 0 .. Cardinality(S)
         /\ \A q \in S : q \in D <=> Rank(S, q) < Cardinality(D)
<1>1. PICK m \in Nat : m = Cardinality(S)
  BY FS_CardinalityType
<1> DEFINE f == [j \in 0 .. m - 1 |-> Nth(S, j)]
           T == {k \in 1 .. m : f[k - 1] \in D}
<1>2. /\ \A q \in S : Rank(S, q) \in 0 .. m - 1 /\ Nth(S, Rank(S, q)) = q
      /\ \A k \in 0 .. m - 1 : Nth(S, k) \in S /\ Rank(S, Nth(S, k)) = k
      /\ \A q, r \in S : Before(q, r) => Rank(S, q) < Rank(S, r)
  BY <1>1, RanksArePositions
<1>3. \A q, r \in S : Before(q, r) \/ Before(r, q) \/ q = r
  BY DEF Before
<1>4. RankOrder(f, S, m)
  <2>1. f \in [0 .. m - 1 -> S] /\ \A q \in S : \E j \in 0 .. m - 1 : f[j] = q
    BY <1>2
  <2>2. ASSUME NEW a \in 0 .. m - 1, NEW b \in 0 .. m - 1, a < b
        PROVE  Before(f[a], f[b])
    <3>1. f[a] \in S /\ f[b] \in S /\ Rank(S, f[a]) = a /\ Rank(S, f[b]) = b
      BY <1>2
    <3> HIDE DEF f
    <3>2. a \in Int /\ b \in Int /\ ~ (b < a) /\ a # b
      BY <2>2
    <3> QED
      BY <1>2, <1>3, <3>1, <3>2
  <2> HIDE DEF f
  <2> QED
    BY <2>1, <2>2 DEF RankOrder
<1>5. \A i \in T : \A k \in 1 .. m : k < i => k \in T
  <2> TAKE i \in T
  <2> TAKE k \in 1 .. m
  <2> SUFFICES ASSUME k < i PROVE k \in T
    OBVIOUS
  <2>1. i \in 1 .. m /\ f[i - 1] \in D /\ i - 1 \in 0 .. m - 1 /\ k - 1 \in 0 .. m - 1 /\ k - 1 < i - 1
    OBVIOUS
  <2> HIDE DEF f, T
  <2>2. Before(f[k - 1], f[i - 1]) /\ f[k - 1] \in S
    BY <1>4, <2>1 DEF RankOrder
  <2>3. f[k - 1] \in D
    BY <2>1, <2>2
  <2> QED
    BY <2>3 DEF T
<1>6. T \subseteq 1 .. m
  OBVIOUS
<1>7. PICK c \in 0 .. m : \A k \in 1 .. m : k \in T <=> k <= c
  <2> HIDE DEF T
  <2> QED
    BY <1>5, <1>6, DownLines
<1>8. HasFirst(D, c, f, m)
  <2>1. ASSUME NEW j \in 0 .. m - 1 PROVE f[j] \in D <=> j < c
    <3>1. j + 1 \in 1 .. m /\ (j + 1) - 1 = j /\ (j + 1 <= c <=> j < c)
      OBVIOUS
    <3> HIDE DEF f
    <3> QED
      BY <1>7, <3>1
  <2> HIDE DEF f
  <2> QED
    BY <2>1 DEF HasFirst
<1> HIDE DEF f, T
<1>9. Cardinality(D) = c
  BY <1>4, <1>8, CountsInitialPart
<1>10. ASSUME NEW q \in S PROVE q \in D <=> Rank(S, q) < c
  <2>1. Rank(S, q) \in 0 .. m - 1 /\ f[Rank(S, q)] = q
    BY <1>2 DEF f
  <2> QED
    BY <1>8, <2>1 DEF HasFirst
<1> QED
  BY <1>1, <1>9, <1>10


(* The level of a trie that a set of pairs is written to: where the pairs  *)
(* of each first id begin, and of each pair the second id.                 *)
PairPointers(S, top) == [f \in 1 .. top + 2 |-> Cardinality({q \in S : q[1] < f - 1})]
PairNodes(S) == [j \in 1 .. Cardinality(S) |-> Nth(S, j - 1)[2]]

(* The first ids of S are 0 .. top.                                        *)
DenseFirsts(S, top) ==
  /\ \A q \in S : q[1] \in 0 .. top
  /\ \A f \in 0 .. top : \E q \in S : q[1] = f

(* It is a level, and the range of an id holds the pairs that begin with it.*)
THEOREM PairLevel ==
  ASSUME NEW S, S \subseteq Nat \X Nat, IsFiniteSet(S), NEW top \in Nat, DenseFirsts(S, top)
  PROVE  /\ WellFormedRanges(PairNodes(S), PairPointers(S, top))
         /\ Len(PairPointers(S, top)) = top + 2 /\ Len(PairNodes(S)) = Cardinality(S)
         /\ \A j \in 0 .. Cardinality(S) - 1 :
              /\ Nth(S, j) \in S /\ PairNodes(S)[j + 1] = Nth(S, j)[2]
              /\ \A f \in 0 .. top :
                   j \in Positions(RangeAt(PairPointers(S, top), f)) <=> Nth(S, j)[1] = f
<1>1. PICK m \in Nat : m = Cardinality(S)
  BY FS_CardinalityType
<1>2. /\ \A q \in S : Rank(S, q) \in 0 .. m - 1 /\ Nth(S, Rank(S, q)) = q
      /\ \A k \in 0 .. m - 1 : Nth(S, k) \in S /\ Rank(S, Nth(S, k)) = k
      /\ \A q, r \in S : Before(q, r) => Rank(S, q) < Rank(S, r)
  BY <1>1, RanksArePositions
<1>3. \A q, r \in S : Before(q, r) \/ Before(r, q) \/ q = r
  BY DEF Before
<1> DEFINE nodes == PairNodes(S)
           pointers == PairPointers(S, top)
           Below(f) == {q \in S : q[1] < f}
<1>4. ASSUME NEW f \in 0 .. top + 1
      PROVE  /\ Cardinality(Below(f)) \in 0 .. m
             /\ \A q \in S : q[1] < f <=> Rank(S, q) < Cardinality(Below(f))
             /\ pointers[f + 1] = Cardinality(Below(f))
  <2>1. Below(f) \subseteq S /\ \A q \in Below(f) : \A r \in S : Before(r, q) => r \in Below(f)
    BY DEF Before
  <2>2. \A q \in S : q \in Below(f) <=> q[1] < f
    OBVIOUS
  <2>3. f + 1 \in 1 .. top + 2 /\ (f + 1) - 1 = f
    OBVIOUS
  <2>4. pointers[f + 1] = Cardinality(Below(f))
    BY <2>3 DEF PairPointers
  <2> HIDE DEF Below, pointers
  <2> QED
    BY <1>1, <2>1, <2>2, <2>4, DownPairs
<1>5. Len(pointers) = top + 2 /\ DOMAIN pointers = 1 .. top + 2
  BY DEF PairPointers
<1>6. Len(nodes) = m /\ DOMAIN nodes = 1 .. m
  BY <1>1 DEF PairNodes
<1>7. ASSUME NEW j \in 0 .. m - 1 PROVE nodes[j + 1] = Nth(S, j)[2] /\ nodes[j + 1] \in Nat
  <2>1. j + 1 \in 1 .. m /\ (j + 1) - 1 = j
    OBVIOUS
  <2> QED
    BY <1>1, <1>2, <2>1 DEF PairNodes
<1> HIDE DEF nodes, pointers, Below
<1>8. ASSUME NEW f \in 0 .. top + 1
      PROVE  /\ pointers[f + 1] \in 0 .. m
             /\ \A j \in 0 .. m - 1 : Nth(S, j)[1] < f <=> j < pointers[f + 1]
  BY <1>2, <1>4
<1>9. ASSUME NEW f \in 0 .. top, NEW j \in 0 .. m - 1
      PROVE  j \in Positions(RangeAt(pointers, f)) <=> Nth(S, j)[1] = f
  <2>1. PICK g \in 0 .. top + 1 : g = f + 1
    OBVIOUS
  <2>2. f \in 0 .. top + 1 /\ g + 1 = f + 2
    BY <2>1
  <2>3. /\ pointers[f + 1] \in 0 .. m /\ pointers[f + 2] \in 0 .. m
        /\ Nth(S, j)[1] < f <=> j < pointers[f + 1]
        /\ Nth(S, j)[1] < f + 1 <=> j < pointers[f + 2]
    BY <1>8, <2>1, <2>2
  <2>4. Positions(RangeAt(pointers, f)) = pointers[f + 1] .. pointers[f + 2] - 1
    BY DEF Positions, RangeAt
  <2>5. Nth(S, j)[1] \in Nat
    BY <1>2
  <2> QED
    BY <2>3, <2>4, <2>5
<1>10. pointers \in Seq(Nat) /\ nodes \in Seq(Nat)
  <2>1. \A f \in 1 .. top + 2 : pointers[f] \in Nat
    <3> TAKE f \in 1 .. top + 2
    <3>1. PICK g \in 0 .. top + 1 : g + 1 = f
      <4>1. f - 1 \in 0 .. top + 1 /\ (f - 1) + 1 = f
        OBVIOUS
      <4> QED
        BY <4>1
    <3>2. pointers[g + 1] \in 0 .. m
      BY <1>8
    <3> QED
      BY <3>1, <3>2
  <2>2. \A j \in 1 .. m : nodes[j] \in Nat
    <3> TAKE j \in 1 .. m
    <3>1. j - 1 \in 0 .. m - 1 /\ (j - 1) + 1 = j
      OBVIOUS
    <3> QED
      BY <1>7, <3>1
  <2>3. pointers = [f \in 1 .. top + 2 |-> pointers[f]] /\ nodes = [j \in 1 .. m |-> nodes[j]]
    BY <1>1 DEF pointers, PairPointers, nodes, PairNodes
  <2>4. pointers \in [1 .. top + 2 -> Nat] /\ nodes \in [1 .. m -> Nat] /\ top + 2 \in Nat
    BY <2>1, <2>2, <2>3
  <2> QED
    BY <2>4
<1>11. pointers[1] = 0
  <2>1. 0 \in 0 .. top + 1 /\ 0 + 1 = 1
    OBVIOUS
  <2>2. pointers[1] = Cardinality(Below(0))
    BY <1>4, <2>1
  <2>3. Below(0) = {}
    BY DEF Below
  <2> QED
    BY <2>2, <2>3, FS_EmptySet
<1>12. pointers[top + 2] = m
  <2>1. PICK g \in 0 .. top + 1 : g = top + 1
    OBVIOUS
  <2>2. g + 1 = top + 2
    BY <2>1
  <2>3. Below(g) = S
    BY <2>1 DEF Below, DenseFirsts
  <2> QED
    BY <1>1, <1>4, <2>2, <2>3
<1>13. ASSUME NEW p \in 1 .. top + 1
       PROVE  /\ pointers[p] < pointers[p + 1]
              /\ \A k, j \in pointers[p] + 1 .. pointers[p + 1] : k < j => nodes[k] < nodes[j]
  <2>1. PICK f \in 0 .. top : f + 1 = p /\ f + 2 = p + 1
    <3>1. p - 1 \in 0 .. top /\ (p - 1) + 1 = p /\ (p - 1) + 2 = p + 1
      OBVIOUS
    <3> QED
      BY <3>1
  <2>2. PICK g \in 0 .. top + 1 : g = f + 1
    OBVIOUS
  <2>3. f \in 0 .. top + 1 /\ g + 1 = p + 1
    BY <2>1, <2>2
  <2>4. pointers[p] \in 0 .. m /\ pointers[p + 1] \in 0 .. m
    BY <1>8, <2>1, <2>3
  <2>5. Positions(RangeAt(pointers, f)) = pointers[p] .. pointers[p + 1] - 1
    BY <2>1 DEF Positions, RangeAt
  <2>6. PICK q \in S : q[1] = f
    BY DEF DenseFirsts
  <2>7. Rank(S, q) \in 0 .. m - 1 /\ Nth(S, Rank(S, q)) = q
    BY <1>2
  <2>8. Rank(S, q) \in Positions(RangeAt(pointers, f))
    BY <1>9, <2>6, <2>7
  <2>9. ASSUME NEW k \in pointers[p] + 1 .. pointers[p + 1],
               NEW j \in pointers[p] + 1 .. pointers[p + 1], k < j
        PROVE  nodes[k] < nodes[j]
    <3>1. /\ k - 1 \in 0 .. m - 1 /\ j - 1 \in 0 .. m - 1 /\ k - 1 < j - 1
          /\ k - 1 \in Positions(RangeAt(pointers, f)) /\ j - 1 \in Positions(RangeAt(pointers, f))
          /\ (k - 1) + 1 = k /\ (j - 1) + 1 = j
      BY SMTT(30), <2>4, <2>5, <2>9
    <3>2. /\ Nth(S, k - 1) \in S /\ Nth(S, j - 1) \in S
          /\ Rank(S, Nth(S, k - 1)) = k - 1 /\ Rank(S, Nth(S, j - 1)) = j - 1
          /\ Nth(S, k - 1)[1] = f /\ Nth(S, j - 1)[1] = f
          /\ nodes[k] = Nth(S, k - 1)[2] /\ nodes[j] = Nth(S, j - 1)[2]
      <4>1. PICK x \in 0 .. m - 1 : x = k - 1
        BY <3>1
      <4>2. PICK y \in 0 .. m - 1 : y = j - 1
        BY <3>1
      <4> QED
        BY <1>2, <1>7, <1>9, <3>1, <4>1, <4>2
    <3>3. Before(Nth(S, k - 1), Nth(S, j - 1))
      <4>1. /\ ~ Before(Nth(S, j - 1), Nth(S, k - 1))
            /\ Nth(S, k - 1) # Nth(S, j - 1)
        BY <1>2, <3>1, <3>2
      <4> QED
        BY <1>3, <3>2, <4>1
    <3>4. Nth(S, k - 1)[2] < Nth(S, j - 1)[2]
      <4>1. Nth(S, k - 1)[1] \in Nat /\ Nth(S, j - 1)[1] \in Nat
        BY <3>2
      <4> QED
        BY <3>2, <3>3, <4>1 DEF Before
    <3> QED
      BY <3>2, <3>4
  <2> QED
    BY <2>4, <2>5, <2>8, <2>9
<1>14. WellFormedRanges(nodes, pointers)
  <2>1. Len(pointers) > 1 /\ Len(pointers) - 1 = top + 1
    BY <1>5
  <2>2. pointers[Len(pointers)] = Len(nodes)
    BY <1>5, <1>6, <1>12
  <2> QED
    BY <1>10, <1>11, <1>13, <2>1, <2>2 DEF WellFormedRanges
<1>15. Len(nodes) = Cardinality(S)
  BY <1>1, <1>6
<1>16. ASSUME NEW j \in 0 .. m - 1
       PROVE  /\ Nth(S, j) \in S /\ nodes[j + 1] = Nth(S, j)[2]
              /\ \A f \in 0 .. top : j \in Positions(RangeAt(pointers, f)) <=> Nth(S, j)[1] = f
  BY <1>2, <1>7, <1>9
<1> QED
  BY <1>1, <1>5, <1>14, <1>15, <1>16 DEF nodes, pointers

-----------------------------------------------------------------------------
(* What a mapper writes for the third ids of a file can be read back, and  *)
(* is in their order.                                                      *)
MapsLines(mapper, line, n) ==
  /\ \A i \in 1 .. n :
       /\ map(mapper, line[i]) \in Nat
       /\ unmap(mapper, Triplet(line[i].first, line[i].second, map(mapper, line[i])))
            = line[i].third
  /\ \A i, k \in 1 .. n :
       (/\ line[i].first = line[k].first /\ line[i].second = line[k].second
        /\ line[i].third < line[k].third) => map(mapper, line[i]) < map(mapper, line[k])

(* The levels of the trie of a file: a position of the third level is a    *)
(* line, and the ranges it is in tell the line's first and second ids.     *)
LineOfPath(line, mapper, first, second_nodes, third_nodes, j, k) ==
  /\ line[k + 1].first = first
  /\ line[k + 1].second = second_nodes[j + 1]
  /\ third_nodes[k + 1] = map(mapper, line[k + 1])

HoldsLines(first_pointers, second_nodes, second_pointers, third_nodes, mapper, line, n) ==
  /\ SortedLines(line, n) /\ MapsLines(mapper, line, n)
  /\ WellFormedRanges(second_nodes, first_pointers)
  /\ WellFormedRanges(third_nodes, second_pointers)
  /\ Len(first_pointers) = line[n].first + 2
  /\ Len(second_pointers) = Len(second_nodes) + 1
  /\ Len(third_nodes) = n
  /\ \A first \in 0 .. Len(first_pointers) - 2 :
       \A j \in Positions(RangeAt(first_pointers, first)) :
         \A k \in Positions(RangeAt(second_pointers, j)) :
           LineOfPath(line, mapper, first, second_nodes, third_nodes, j, k)

(* The pairs of a file, and the lines that come before the j-th pair.      *)
LinePairs(line, n) == {<<line[i].first, line[i].second>> : i \in 1 .. n}
RankOf(line, n, i) == Rank(LinePairs(line, n), <<line[i].first, line[i].second>>)

(* The pairs of a sorted file have its first ids, and the lines are in the *)
(* order of their pairs.                                                   *)
LEMMA PairsOfLines ==
  ASSUME NEW line, NEW n, SortedLines(line, n)
  PROVE  /\ LinePairs(line, n) \subseteq Nat \X Nat /\ IsFiniteSet(LinePairs(line, n))
         /\ DenseFirsts(LinePairs(line, n), line[n].first)
         /\ \A i \in 1 .. n : <<line[i].first, line[i].second>> \in LinePairs(line, n)
         /\ \A i, k \in 1 .. n : i < k => RankOf(line, n, i) <= RankOf(line, n, k)
<1>1. /\ n \in Nat \ {0} /\ n \in 1 .. n
      /\ \A i \in 1 .. n : line[i].first \in Nat /\ line[i].second \in Nat
      /\ \A f \in 0 .. line[n].first : \E i \in 1 .. n : line[i].first = f
  BY DEF SortedLines
<1> DEFINE S == LinePairs(line, n)
           pair(i) == <<line[i].first, line[i].second>>
<1>2. S \subseteq Nat \X Nat
  BY <1>1 DEF LinePairs
<1>3. IsFiniteSet(S)
  <2> DEFINE g == [i \in 1 .. n |-> pair(i)]
  <2>1. 1 \in Int /\ n \in Int
    BY <1>1
  <2>2. IsFiniteSet(1 .. n)
    BY <2>1, FS_Interval
  <2>3. g \in Surjection(1 .. n, S)
    <3>1. S = {pair(i) : i \in 1 .. n}
      BY DEF LinePairs
    <3>2. g \in [1 .. n -> S]
      BY <3>1
    <3>3. \A q \in S : \E i \in 1 .. n : g[i] = q
      BY <3>1
    <3> QED
      BY <3>2, <3>3 DEF Surjection
  <2> HIDE DEF g
  <2> QED
    BY <2>2, <2>3, FS_Surjection
<1>4. \A i \in 1 .. n : pair(i) \in S
  BY DEF LinePairs
<1>5. \A q \in S : \E i \in 1 .. n : q = pair(i)
  BY DEF LinePairs
<1>6. DenseFirsts(S, line[n].first)
  <2>1. ASSUME NEW i \in 1 .. n PROVE line[i].first \in 0 .. line[n].first
    <3>1. i = n \/ i < n
      BY <1>1
    <3>2. line[i].first <= line[n].first
      BY <1>1, <3>1, LinesInOrder
    <3> QED
      BY <1>1, <3>2
  <2>2. \A q \in S : q[1] \in 0 .. line[n].first
    BY <1>5, <2>1
  <2>3. \A f \in 0 .. line[n].first : \E q \in S : q[1] = f
    BY <1>1, <1>4
  <2> QED
    BY <2>2, <2>3 DEF DenseFirsts
<1>7. ASSUME NEW i \in 1 .. n, NEW k \in 1 .. n, i < k
      PROVE  RankOf(line, n, i) <= RankOf(line, n, k)
  <2>1. pair(i) = pair(k) \/ Before(pair(i), pair(k))
    <3>1. /\ line[i].first <= line[k].first
          /\ line[i].first = line[k].first => line[i].second <= line[k].second
      BY <1>7, LinesInOrder
    <3> QED
      BY <1>1, <3>1 DEF Before
  <2>2. Rank(S, pair(i)) \in 0 .. Cardinality(S) - 1 /\ Rank(S, pair(k)) \in 0 .. Cardinality(S) - 1
    BY <1>2, <1>3, <1>4, RanksArePositions
  <2>3. Before(pair(i), pair(k)) => Rank(S, pair(i)) < Rank(S, pair(k))
    BY <1>2, <1>3, <1>4, RanksArePositions
  <2>4. Cardinality(S) \in Nat
    BY <1>3, FS_CardinalityType
  <2> HIDE DEF S
  <2>5. Rank(S, pair(i)) <= Rank(S, pair(k))
    <3>1. CASE pair(i) = pair(k)
      BY <2>2, <2>4, <3>1
    <3>2. CASE Before(pair(i), pair(k))
      BY <2>2, <2>3, <2>4, <3>2
    <3> QED
      BY <2>1, <3>1, <3>2
  <2> QED
    BY <2>5 DEF RankOf, S
<1> QED
  BY <1>2, <1>3, <1>4, <1>6, <1>7


(* The lines of a file, in the order of a permutation's columns.           *)
AreLines(perm, file, line, n) ==
  n = Len(file) /\ line = [i \in 1 .. n |-> read_next(perm, file[i])]

(* TrieOf gives such levels.                                               *)
THEOREM TrieHoldsLines ==
  ASSUME NEW perm, NEW file, NEW mapper, NEW line, NEW n, AreLines(perm, file, line, n),
         SortedLines(line, n), MapsLines(mapper, line, n)
  PROVE  LET t == TrieOf(perm, file, mapper)
         IN  HoldsLines(t.first_pointers, t.second_nodes, t.second_pointers, t.third_nodes,
                        mapper, line, n)
<1> DEFINE t == TrieOf(perm, file, mapper)
           S == LinePairs(line, n)
           top == line[n].first
           pair == [i \in 1 .. n |-> <<line[i].first, line[i].second>>]
           rank(i) == RankOf(line, n, i)
<1>1. PICK m : m = Cardinality(S)
  OBVIOUS
<1>2. /\ t.first_pointers = PairPointers(S, top) /\ t.second_nodes = PairNodes(S)
      /\ t.second_pointers =
           [j \in 1 .. m + 1 |-> Cardinality({i \in 1 .. n : j <= m => Before(pair[i], Nth(S, j - 1))})]
      /\ t.third_nodes = [i \in 1 .. n |-> map(mapper, line[i])]
  <2>1. {pair[i] : i \in 1 .. n} = S
    BY DEF LinePairs
  <2> HIDE DEF S
  <2>2. t = [perm |-> perm,
             first_pointers |-> [f \in 1 .. line[n].first + 2 |-> Cardinality({q \in S : q[1] < f - 1})],
             second_nodes |-> [j \in 1 .. m |-> Nth(S, j - 1)[2]],
             second_pointers |-> [j \in 1 .. m + 1 |->
                              Cardinality({i \in 1 .. n : j <= m => Before(pair[i], Nth(S, j - 1))})],
             third_nodes |-> [i \in 1 .. n |-> map(mapper, line[i])]]
    BY <1>1, <2>1, Zenon DEF TrieOf, AreLines
  <2> HIDE DEF t
  <2> QED
    BY <1>1, <2>2 DEF PairPointers, PairNodes
<1>3. /\ n \in Nat \ {0} /\ n \in 1 .. n /\ top \in Nat
      /\ \A i \in 1 .. n : line[i].first \in Nat /\ line[i].second \in Nat /\ line[i].third \in Nat
  <2>1. n \in Nat \ {0} /\ line \in [1 .. n -> [first : Nat, second : Nat, third : Nat]]
    BY DEF SortedLines
  <2> QED
    BY <2>1
<1>4. /\ S \subseteq Nat \X Nat /\ IsFiniteSet(S) /\ DenseFirsts(S, top)
      /\ \A i \in 1 .. n : pair[i] \in S
      /\ \A i, k \in 1 .. n : i < k => rank(i) <= rank(k)
  BY PairsOfLines
<1>5. /\ m \in Nat /\ \A q \in S : Rank(S, q) \in 0 .. m - 1 /\ Nth(S, Rank(S, q)) = q
      /\ \A k \in 0 .. m - 1 : Nth(S, k) \in S /\ Rank(S, Nth(S, k)) = k
      /\ \A q, r \in S : Before(q, r) => Rank(S, q) < Rank(S, r)
  BY <1>1, <1>4, RanksArePositions
<1>6. /\ WellFormedRanges(t.second_nodes, t.first_pointers)
      /\ Len(t.first_pointers) = top + 2 /\ Len(t.second_nodes) = m
      /\ \A j \in 0 .. m - 1 :
           /\ Nth(S, j) \in S /\ t.second_nodes[j + 1] = Nth(S, j)[2]
           /\ \A f \in 0 .. top :
                j \in Positions(RangeAt(t.first_pointers, f)) <=> Nth(S, j)[1] = f
  <2> HIDE DEF S, top
  <2>1. /\ WellFormedRanges(PairNodes(S), PairPointers(S, top))
        /\ Len(PairPointers(S, top)) = top + 2 /\ Len(PairNodes(S)) = Cardinality(S)
        /\ \A j \in 0 .. Cardinality(S) - 1 :
             /\ Nth(S, j) \in S /\ PairNodes(S)[j + 1] = Nth(S, j)[2]
             /\ \A f \in 0 .. top :
                  j \in Positions(RangeAt(PairPointers(S, top), f)) <=> Nth(S, j)[1] = f
    BY <1>3, <1>4, PairLevel
  <2> HIDE DEF t
  <2> QED
    BY <1>1, <1>2, <2>1
<1>7. \A q \in S : \E i \in 1 .. n : q = pair[i]
  BY DEF LinePairs
<1>8. \A i \in 1 .. n : rank(i) = Rank(S, pair[i]) /\ rank(i) \in 0 .. m - 1 /\ Nth(S, rank(i)) = pair[i]
  BY <1>4, <1>5 DEF RankOf
<1>9. \A q, r \in S : Before(q, r) \/ Before(r, q) \/ q = r
  BY <1>4 DEF Before
<1> DEFINE sp == t.second_pointers
           tn == t.third_nodes
           sn == t.second_nodes
           fp == t.first_pointers
<1> HIDE DEF t, S, rank, pair
<1>10. ASSUME NEW j \in 0 .. m
       PROVE  /\ sp[j + 1] \in 0 .. n
              /\ \A i \in 1 .. n : rank(i) < j <=> i <= sp[j + 1]
  <2> DEFINE T == {i \in 1 .. n : j + 1 <= m => Before(pair[i], Nth(S, (j + 1) - 1))}
  <2>1. j + 1 \in 1 .. m + 1 /\ (j + 1) - 1 = j
    BY <1>5
  <2>2. sp[j + 1] = Cardinality(T)
    BY <1>2, <2>1
  <2>3. ASSUME NEW i \in 1 .. n PROVE i \in T <=> rank(i) < j
    <3>1. CASE j = m
      BY <1>5, <1>8, <3>1
    <3>2. CASE j # m
      <4>1. j \in 0 .. m - 1 /\ j + 1 <= m
        BY <1>5, <3>2
      <4>2. Nth(S, j) \in S /\ Rank(S, Nth(S, j)) = j /\ pair[i] \in S /\ rank(i) = Rank(S, pair[i])
            /\ rank(i) \in Int
        BY <1>4, <1>5, <1>8, <4>1
      <4>3. Before(pair[i], Nth(S, j)) => rank(i) < j
        BY <1>5, <4>2
      <4>4. Before(Nth(S, j), pair[i]) => j < rank(i)
        BY <1>5, <4>2
      <4>5. pair[i] = Nth(S, j) => rank(i) = j
        BY <4>2
      <4>6. Before(pair[i], Nth(S, j)) <=> rank(i) < j
        BY <1>9, <4>2, <4>3, <4>4, <4>5
      <4> QED
        BY <2>1, <4>1, <4>6
    <3> QED
      BY <3>1, <3>2
  <2>4. T \subseteq 1 .. n
    OBVIOUS
  <2> HIDE DEF T
  <2>5. \A i \in T : \A k \in 1 .. n : k < i => k \in T
    <3> TAKE i \in T
    <3> TAKE k \in 1 .. n
    <3>1. i \in 1 .. n
      BY <2>4
    <3>2. rank(i) \in Int /\ rank(k) \in Int /\ rank(i) < j
      BY <1>8, <2>3, <3>1
    <3>3. k < i => rank(k) <= rank(i)
      BY <1>4, <3>1
    <3> QED
      BY <2>3, <3>2, <3>3
  <2>6. Cardinality(T) \in 0 .. n /\ \A k \in 1 .. n : k \in T <=> k <= Cardinality(T)
    BY <1>3, <2>4, <2>5, DownLines
  <2> QED
    BY <2>2, <2>3, <2>6
<1>11. sp \in Seq(Nat) /\ Len(sp) = m + 1
  <2>1. \A j \in 1 .. m + 1 : sp[j] \in Nat
    <3> TAKE j \in 1 .. m + 1
    <3>1. PICK i \in 0 .. m : i + 1 = j
      <4>1. j - 1 \in 0 .. m /\ (j - 1) + 1 = j
        BY <1>5
      <4> QED
        BY <4>1
    <3>2. sp[i + 1] \in 0 .. n
      BY <1>10
    <3> QED
      BY <1>3, <3>1, <3>2
  <2>2. sp = [j \in 1 .. m + 1 |-> sp[j]]
    BY <1>2
  <2> HIDE DEF sp
  <2>3. sp \in [1 .. m + 1 -> Nat] /\ m + 1 \in Nat
    BY <1>5, <2>1, <2>2
  <2> QED
    BY <2>3
<1>12. tn \in Seq(Nat) /\ Len(tn) = n /\ \A k \in 0 .. n - 1 : tn[k + 1] = map(mapper, line[k + 1])
  <2>1. tn \in [1 .. n -> Nat]
    BY <1>2 DEF MapsLines
  <2>2. \A k \in 0 .. n - 1 : tn[k + 1] = map(mapper, line[k + 1])
    <3> TAKE k \in 0 .. n - 1
    <3>1. k + 1 \in 1 .. n
      BY <1>3
    <3> QED
      BY <1>2, <3>1
  <2>3. n \in Nat
    BY <1>3
  <2> HIDE DEF tn
  <2>4. tn \in Seq(Nat) /\ Len(tn) = n
    BY <2>1, <2>3
  <2> QED
    BY <2>2, <2>4
<1>13. ASSUME NEW j \in 0 .. m - 1, NEW k \in 0 .. n - 1
       PROVE  k \in Positions(RangeAt(sp, j)) <=> rank(k + 1) = j
  <2>1. PICK g \in 0 .. m : g = j + 1
    BY <1>5
  <2>2. j \in 0 .. m /\ g + 1 = j + 2 /\ k + 1 \in 1 .. n
    BY <1>3, <1>5, <2>1
  <2>3. /\ sp[j + 1] \in 0 .. n /\ sp[j + 2] \in 0 .. n
        /\ rank(k + 1) < j <=> k + 1 <= sp[j + 1]
        /\ rank(k + 1) < j + 1 <=> k + 1 <= sp[j + 2]
    BY <1>10, <2>1, <2>2
  <2>4. Positions(RangeAt(sp, j)) = sp[j + 1] .. sp[j + 2] - 1
    BY DEF Positions, RangeAt
  <2>5. rank(k + 1) \in Int
    BY <1>8, <2>2
  <2> HIDE DEF sp
  <2> QED
    BY <1>3, <2>3, <2>4, <2>5
<1>14. WellFormedRanges(tn, sp)
  <2>1. sp[1] = 0
    <3>1. 0 \in 0 .. m /\ 0 + 1 = 1 /\ 1 \in 1 .. n
      BY <1>3, <1>5
    <3>2. sp[1] \in 0 .. n /\ (rank(1) < 0 <=> 1 <= sp[1])
      BY <1>10, <3>1
    <3> QED
      BY <1>3, <1>8, <3>1, <3>2
  <2>2. sp[m + 1] = n
    <3>1. m \in 0 .. m
      BY <1>5
    <3>2. sp[m + 1] \in 0 .. n /\ (rank(n) < m <=> n <= sp[m + 1])
      BY <1>3, <1>10, <3>1
    <3> QED
      BY <1>3, <1>5, <1>8, <3>2
  <2>3. m > 0
    BY <1>3, <1>5, <1>8
  <2>4. ASSUME NEW p \in 1 .. m
        PROVE  /\ sp[p] < sp[p + 1]
               /\ \A k, j \in sp[p] + 1 .. sp[p + 1] : k < j => tn[k] < tn[j]
    <3>1. PICK j \in 0 .. m - 1 : j + 1 = p /\ j + 2 = p + 1
      <4>1. p - 1 \in 0 .. m - 1 /\ (p - 1) + 1 = p /\ (p - 1) + 2 = p + 1
        BY <1>5
      <4> QED
        BY <4>1
    <3>2. PICK g \in 0 .. m : g = j + 1
      BY <1>5
    <3>3. j \in 0 .. m /\ g + 1 = p + 1
      BY <1>5, <3>1, <3>2
    <3>4. sp[p] \in 0 .. n /\ sp[p + 1] \in 0 .. n
      BY <1>10, <3>1, <3>3
    <3>5. Positions(RangeAt(sp, j)) = sp[p] .. sp[p + 1] - 1
      BY <3>1 DEF Positions, RangeAt
    <3>6. sp[p] < sp[p + 1]
      <4>1. Nth(S, j) \in S /\ Rank(S, Nth(S, j)) = j
        BY <1>5
      <4>2. PICK i \in 1 .. n : pair[i] = Nth(S, j)
        BY <1>7, <4>1
      <4>3. rank(i) = j
        BY <1>8, <4>1, <4>2
      <4>4. i - 1 \in 0 .. n - 1 /\ (i - 1) + 1 = i
        BY <1>3
      <4>5. i - 1 \in Positions(RangeAt(sp, j))
        BY <1>13, <4>3, <4>4
      <4> QED
        BY <3>4, <3>5, <4>5
    <3>7. ASSUME NEW k \in sp[p] + 1 .. sp[p + 1], NEW l \in sp[p] + 1 .. sp[p + 1], k < l
          PROVE  tn[k] < tn[l]
      <4>1. PICK x \in 0 .. n - 1 : x + 1 = k /\ x \in Positions(RangeAt(sp, j))
        <5>1. k - 1 \in 0 .. n - 1 /\ (k - 1) + 1 = k /\ k - 1 \in sp[p] .. sp[p + 1] - 1
          BY <1>3, <3>4, <3>7
        <5> QED
          BY <3>5, <5>1
      <4>2. PICK y \in 0 .. n - 1 : y + 1 = l /\ y \in Positions(RangeAt(sp, j))
        <5>1. l - 1 \in 0 .. n - 1 /\ (l - 1) + 1 = l /\ l - 1 \in sp[p] .. sp[p + 1] - 1
          BY <1>3, <3>4, <3>7
        <5> QED
          BY <3>5, <5>1
      <4>3. rank(k) = j /\ rank(l) = j /\ k \in 1 .. n /\ l \in 1 .. n
        <5>1. rank(x + 1) = j /\ rank(y + 1) = j
          BY <1>13, <4>1, <4>2
        <5>2. x + 1 \in 1 .. n /\ y + 1 \in 1 .. n
          BY <1>3
        <5> QED
          BY <4>1, <4>2, <5>1, <5>2
      <4>4. line[k].first = line[l].first /\ line[k].second = line[l].second
        <5>1. pair[k] = pair[l]
          BY <1>8, <4>3
        <5>2. /\ pair[k][1] = line[k].first /\ pair[k][2] = line[k].second
              /\ pair[l][1] = line[l].first /\ pair[l][2] = line[l].second
          BY <4>3 DEF pair
        <5> QED
          BY <5>1, <5>2
      <4>5. line[k].third < line[l].third
        BY <3>7, <4>3, <4>4, LinesInOrder
      <4>6. tn[k] = map(mapper, line[k]) /\ tn[l] = map(mapper, line[l])
        BY <1>12, <4>1, <4>2
      <4> QED
        BY <4>3, <4>4, <4>5, <4>6 DEF MapsLines
    <3> QED
      BY <3>6, <3>7
  <2> HIDE DEF sp, tn
  <2>5. Len(sp) > 1 /\ Len(sp) - 1 = m /\ sp[Len(sp)] = Len(tn)
    BY <1>5, <1>11, <1>12, <2>2, <2>3
  <2> QED
    BY <1>11, <1>12, <2>1, <2>4, <2>5 DEF WellFormedRanges
<1>15. ASSUME NEW f \in 0 .. Len(fp) - 2, NEW j \in Positions(RangeAt(fp, f)),
              NEW k \in Positions(RangeAt(sp, j))
       PROVE  LineOfPath(line, mapper, f, sn, tn, j, k)
  <2>1. f \in 0 .. top /\ j \in 0 .. m - 1
    <3>1. j \in 0 .. Len(sn) - 1
      BY <1>6, RangeIn
    <3> QED
      BY <1>3, <1>6, <3>1
  <2>2. j \in 0 .. Len(sp) - 2
    BY <1>5, <1>11, <2>1
  <2>3. k \in 0 .. n - 1
    <3>1. k \in 0 .. Len(tn) - 1
      BY <1>14, <2>2, RangeIn
    <3> QED
      BY <1>12, <3>1
  <2>4. rank(k + 1) = j /\ k + 1 \in 1 .. n
    BY <1>3, <1>13, <2>1, <2>3
  <2>5. Nth(S, j) = pair[k + 1]
    BY <1>8, <2>4
  <2>6. Nth(S, j)[1] = f /\ sn[j + 1] = Nth(S, j)[2]
    BY <1>6, <2>1
  <2>7. tn[k + 1] = map(mapper, line[k + 1])
    BY <1>12, <2>3
  <2>8. pair[k + 1] = <<line[k + 1].first, line[k + 1].second>>
    BY <2>4 DEF pair
  <2> QED
    BY <2>5, <2>6, <2>7, <2>8 DEF LineOfPath
<1>16. HoldsLines(fp, sn, sp, tn, mapper, line, n)
  <2>1. Len(sp) = Len(sn) + 1
    BY <1>6, <1>11
  <2>2. WellFormedRanges(sn, fp) /\ Len(fp) = line[n].first + 2
    BY <1>6
  <2>3. \A f \in 0 .. Len(fp) - 2 :
          \A j \in Positions(RangeAt(fp, f)) :
            \A k \in Positions(RangeAt(sp, j)) : LineOfPath(line, mapper, f, sn, tn, j, k)
    BY <1>15
  <2> HIDE DEF sp, tn, sn, fp
  <2> QED
    BY <1>12, <1>14, <2>1, <2>2, <2>3 DEF HoldsLines
<1> QED
  BY <1>16 DEF t

-----------------------------------------------------------------------------
(* An encoded trie holds the lines: second_nodes and third_nodes are what  *)
(* its encoders e2 and e3 were given.                                      *)
Holds(t, second_nodes, third_nodes, e2, e3, line, n) ==
  /\ e2 \in Encodings(second_nodes) /\ e3 \in Encodings(third_nodes)
  /\ t.second_nodes = build(e2, second_nodes, t.first_pointers)
  /\ t.third_nodes = build(e3, third_nodes, t.second_pointers)
  /\ HoldsLines(t.first_pointers, second_nodes, t.second_pointers, third_nodes, t.mapper, line, n)

(* The tries of the indexes do.                                            *)
LEMMA EncodedHolds ==
  ASSUME NEW perm, NEW file, NEW mapper, NEW line, NEW n, AreLines(perm, file, line, n),
         SortedLines(line, n), MapsLines(mapper, line, n),
         NEW e2, NEW e3, e2 \in Encodings(TrieOf(perm, file, mapper).second_nodes),
         e3 \in Encodings(TrieOf(perm, file, mapper).third_nodes)
  PROVE  LET t == TrieOf(perm, file, mapper)
         IN  Holds(Encoded(t, e2, e3, mapper), t.second_nodes, t.third_nodes, e2, e3, line, n)
<1> DEFINE t == TrieOf(perm, file, mapper)
<1>1. HoldsLines(t.first_pointers, t.second_nodes, t.second_pointers, t.third_nodes, mapper, line, n)
  BY TrieHoldsLines
<1>0. e2 \in Encodings(t.second_nodes) /\ e3 \in Encodings(t.third_nodes)
  OBVIOUS
<1> HIDE DEF t
<1>2. /\ Encoded(t, e2, e3, mapper).first_pointers = t.first_pointers
      /\ Encoded(t, e2, e3, mapper).second_pointers = t.second_pointers
      /\ Encoded(t, e2, e3, mapper).second_nodes = build(e2, t.second_nodes, t.first_pointers)
      /\ Encoded(t, e2, e3, mapper).third_nodes = build(e3, t.third_nodes, t.second_pointers)
      /\ Encoded(t, e2, e3, mapper).mapper = mapper
  BY DEF Encoded
<1> HIDE DEF Encoded
<1>3. Holds(Encoded(t, e2, e3, mapper), t.second_nodes, t.third_nodes, e2, e3, line, n)
  BY <1>0, <1>1, <1>2 DEF Holds
<1> QED
  BY <1>3 DEF t

(* first, j and k are the way down to a line.                              *)
OnPath(t, first, j, k) ==
  /\ first \in 0 .. Len(t.first_pointers) - 2
  /\ j \in Positions(RangeAt(t.first_pointers, first))
  /\ k \in Positions(RangeAt(t.second_pointers, j))

PathFacts(t, second_nodes, third_nodes, line, n, first, j, k) ==
  /\ first \in Nat /\ j \in 0 .. Len(second_nodes) - 1 /\ j \in 0 .. Len(t.second_pointers) - 2
  /\ k \in 0 .. n - 1 /\ k + 1 \in 1 .. n
  /\ LineOfPath(line, t.mapper, first, second_nodes, third_nodes, j, k)

(* Down a path lies a line, at the position where the path ends.           *)
LEMMA PathHolds ==
  ASSUME NEW t, NEW second_nodes, NEW third_nodes, NEW e2, NEW e3, NEW line, NEW n,
         Holds(t, second_nodes, third_nodes, e2, e3, line, n),
         NEW first, NEW j, NEW k, OnPath(t, first, j, k)
  PROVE  PathFacts(t, second_nodes, third_nodes, line, n, first, j, k)
<1>1. /\ WellFormedRanges(second_nodes, t.first_pointers)
      /\ WellFormedRanges(third_nodes, t.second_pointers)
      /\ Len(t.second_pointers) = Len(second_nodes) + 1 /\ Len(third_nodes) = n
      /\ n \in Nat
  BY DEF Holds, HoldsLines, SortedLines
<1>2. /\ first \in 0 .. Len(t.first_pointers) - 2
      /\ j \in Positions(RangeAt(t.first_pointers, first))
      /\ k \in Positions(RangeAt(t.second_pointers, j))
  BY DEF OnPath
<1>3. j \in 0 .. Len(second_nodes) - 1 /\ Len(second_nodes) \in Nat
  BY <1>1, <1>2, RangeIn
<1>4. j \in 0 .. Len(t.second_pointers) - 2
  BY <1>1, <1>3
<1>5. k \in 0 .. n - 1
  BY <1>1, <1>2, <1>4, RangeIn
<1>6. k + 1 \in 1 .. n /\ first \in Nat
  BY <1>1, <1>2, <1>5
<1>7. LineOfPath(line, t.mapper, first, second_nodes, third_nodes, j, k)
  BY <1>2 DEF Holds, HoldsLines
<1> QED
  BY <1>3, <1>4, <1>5, <1>6, <1>7 DEF PathFacts

(* There is one to every line.                                             *)
LEMMA PathExists ==
  ASSUME NEW t, NEW second_nodes, NEW third_nodes, NEW e2, NEW e3, NEW line, NEW n,
         Holds(t, second_nodes, third_nodes, e2, e3, line, n),
         NEW k \in 0 .. n - 1
  PROVE  \E first, j : OnPath(t, first, j, k)
<1>1. /\ WellFormedRanges(second_nodes, t.first_pointers)
      /\ WellFormedRanges(third_nodes, t.second_pointers)
      /\ Len(t.second_pointers) = Len(second_nodes) + 1 /\ Len(third_nodes) = n
      /\ n \in Nat
  BY DEF Holds, HoldsLines, SortedLines
<1>2. PICK j \in 0 .. Len(t.second_pointers) - 2 : k \in Positions(RangeAt(t.second_pointers, j))
  BY <1>1, InOneRange
<1>3. Len(second_nodes) \in Nat
  BY <1>1 DEF WellFormedRanges
<1>4. j \in 0 .. Len(second_nodes) - 1
  BY <1>1, <1>3
<1>5. PICK first \in 0 .. Len(t.first_pointers) - 2 : j \in Positions(RangeAt(t.first_pointers, first))
  BY <1>1, <1>4, InOneRange
<1> QED
  BY <1>2, <1>5 DEF OnPath

(* The children of a pair are its lines.                                   *)
LEMMA LinesOfPair ==
  ASSUME NEW t, NEW second_nodes, NEW third_nodes, NEW e2, NEW e3, NEW line, NEW n,
         Holds(t, second_nodes, third_nodes, e2, e3, line, n),
         NEW first \in 0 .. Len(t.first_pointers) - 2,
         NEW j \in Positions(RangeAt(t.first_pointers, first)), NEW k \in 0 .. n - 1
  PROVE  k \in Positions(RangeAt(t.second_pointers, j))
           <=> line[k + 1].first = first /\ line[k + 1].second = second_nodes[j + 1]
<1>1. ASSUME k \in Positions(RangeAt(t.second_pointers, j))
      PROVE  line[k + 1].first = first /\ line[k + 1].second = second_nodes[j + 1]
  <2>1. OnPath(t, first, j, k)
    BY <1>1 DEF OnPath
  <2> QED
    BY <2>1, PathHolds DEF PathFacts, LineOfPath
<1>2. ASSUME line[k + 1].first = first, line[k + 1].second = second_nodes[j + 1]
      PROVE  k \in Positions(RangeAt(t.second_pointers, j))
  <2>1. PICK f, i : OnPath(t, f, i, k)
    BY PathExists
  <2>2. f = first /\ second_nodes[i + 1] = second_nodes[j + 1]
    BY <1>2, <2>1, PathHolds DEF PathFacts, LineOfPath
  <2>3. i \in Positions(RangeAt(t.first_pointers, first))
    BY <2>1, <2>2 DEF OnPath
  <2>4. WellFormedRanges(second_nodes, t.first_pointers)
    BY DEF Holds, HoldsLines
  <2>5. /\ find(second_nodes, RangeAt(t.first_pointers, first), second_nodes[j + 1]) = i
        /\ find(second_nodes, RangeAt(t.first_pointers, first), second_nodes[j + 1]) = j
    BY <2>2, <2>3, <2>4, FindIn
  <2> QED
    BY <2>1, <2>5 DEF OnPath
<1> QED
  BY <1>1, <1>2

(* find among the children of a first id, and among those of a pair, whose *)
(* third ids are stored as they are: it gives the position of an id that   *)
(* is there, and otherwise not_found, unless it does not refuse.           *)
LEMMA FindsSecond ==
  ASSUME NEW t, NEW second_nodes, NEW third_nodes, NEW e2, NEW e3, NEW line, NEW n,
         Holds(t, second_nodes, third_nodes, e2, e3, line, n),
         NEW first \in 0 .. Len(t.first_pointers) - 2, NEW id \in Int,
         Unrefused(t.second_nodes, RangeAt(t.first_pointers, first), id)
           => \E j \in Positions(RangeAt(t.first_pointers, first)) : second_nodes[j + 1] = id
  PROVE  LET j == find_node(t.second_nodes, RangeAt(t.first_pointers, first), id)
         IN  \/ j \in Positions(RangeAt(t.first_pointers, first)) /\ second_nodes[j + 1] = id
             \/ /\ j = not_found
                /\ \A i \in Positions(RangeAt(t.first_pointers, first)) : second_nodes[i + 1] # id
<1>1. /\ WellFormedRanges(second_nodes, t.first_pointers) /\ e2 \in Encodings(second_nodes)
      /\ t.second_nodes = build(e2, second_nodes, t.first_pointers)
  BY DEF Holds, HoldsLines
<1> QED
  BY <1>1, FindsNode

(* find among a pair's children finds the line, or that it is not there.   *)
LEMMA FindsThird ==
  ASSUME NEW t, NEW second_nodes, NEW third_nodes, NEW e2, NEW e3, NEW line, NEW n,
         Holds(t, second_nodes, third_nodes, e2, e3, line, n), t.mapper.kind = "identity",
         NEW first \in 0 .. Len(t.first_pointers) - 2,
         NEW j \in Positions(RangeAt(t.first_pointers, first)), NEW id \in Int,
         e3 # "pef", e3 = "vb" => \E i \in 1 .. n : line[i] = Triplet(first, second_nodes[j + 1], id)
  PROVE  LET k == find_node(t.third_nodes, RangeAt(t.second_pointers, j), id)
         IN  \/ k \in 0 .. n - 1 /\ line[k + 1] = Triplet(first, second_nodes[j + 1], id)
             \/ /\ k = not_found
                /\ \A i \in 1 .. n : line[i] # Triplet(first, second_nodes[j + 1], id)
<1>1. /\ WellFormedRanges(second_nodes, t.first_pointers)
      /\ WellFormedRanges(third_nodes, t.second_pointers)
      /\ Len(t.second_pointers) = Len(second_nodes) + 1
      /\ e3 \in Encodings(third_nodes) /\ n \in Nat
      /\ t.third_nodes = build(e3, third_nodes, t.second_pointers)
      /\ line \in [1 .. n -> [first : Nat, second : Nat, third : Nat]]
  BY DEF Holds, HoldsLines, SortedLines
<1>2. j \in 0 .. Len(t.second_pointers) - 2
  <2>1. j \in 0 .. Len(second_nodes) - 1 /\ Len(second_nodes) \in Nat
    BY <1>1, RangeIn
  <2> QED
    BY <1>1, <2>1
<1> DEFINE r == RangeAt(t.second_pointers, j)
           target == Triplet(first, second_nodes[j + 1], id)
           k == find_node(t.third_nodes, r, id)
<1>3. /\ \A i \in Positions(r) : third_nodes[i + 1] = id => k = i
      /\ (e3 # "vb" /\ \A i \in Positions(r) : third_nodes[i + 1] # id) => k = not_found
  <2>0. PICK p \in 0 .. Len(t.second_pointers) - 2 : p = j
    BY <1>2
  <2>1. WellFormedRanges(third_nodes, t.second_pointers) /\ e3 \in Encodings(third_nodes)
    BY <1>1
  <2>2. LET seq == build(e3, third_nodes, t.second_pointers)
            at == RangeAt(t.second_pointers, p)
        IN  /\ \A i \in Positions(at) : third_nodes[i + 1] = id => find_node(seq, at, id) = i
            /\ (~ Unrefused(seq, at, id) /\ \A i \in Positions(at) : third_nodes[i + 1] # id)
                  => find_node(seq, at, id) = not_found
            /\ e3 # "vb" => ~ Unrefused(seq, at, id)
    <3>1. build(e3, third_nodes, t.second_pointers).encoding = e3
      BY <2>1, BuiltFields
    <3> QED
      BY <2>1, <3>1, FindsNode DEF Unrefused, past_bounds
  <2> QED
    BY <1>1, <2>0, <2>2
<1> HIDE DEF k, r
<1>4. ASSUME NEW i \in Positions(r)
      PROVE  /\ i \in 0 .. n - 1 /\ i + 1 \in 1 .. n
             /\ third_nodes[i + 1] = id <=> line[i + 1] = target
  <2>1. OnPath(t, first, j, i)
    BY DEF OnPath, r
  <2>2. /\ i \in 0 .. n - 1 /\ i + 1 \in 1 .. n
        /\ line[i + 1].first = first /\ line[i + 1].second = second_nodes[j + 1]
        /\ third_nodes[i + 1] = map(t.mapper, line[i + 1])
    BY <2>1, PathHolds DEF PathFacts, LineOfPath
  <2>3. third_nodes[i + 1] = line[i + 1].third
    BY <2>2 DEF map
  <2>4. line[i + 1] \in [first : Nat, second : Nat, third : Nat]
    BY <1>1, <2>2
  <2>5. line[i + 1] = target <=> line[i + 1].third = id
    BY <2>2, <2>4 DEF Triplet
  <2> QED
    BY <2>2, <2>3, <2>5
<1>5. ASSUME NEW i \in 1 .. n, line[i] = target
      PROVE  \E pos \in Positions(r) : pos + 1 = i
  <2>1. i - 1 \in 0 .. n - 1 /\ (i - 1) + 1 = i
    BY <1>1
  <2>2. line[i].first = first /\ line[i].second = second_nodes[j + 1]
    BY <1>5 DEF Triplet
  <2>3. i - 1 \in Positions(r)
    BY <2>1, <2>2, LinesOfPair DEF r
  <2> QED
    BY <2>1, <2>3
<1>6. CASE \E i \in Positions(r) : third_nodes[i + 1] = id
  <2>1. PICK i \in Positions(r) : third_nodes[i + 1] = id
    BY <1>6
  <2>2. k = i /\ k \in 0 .. n - 1 /\ line[k + 1] = target
    BY <1>3, <1>4, <2>1
  <2> QED
    BY <2>2 DEF k, r
<1>7. CASE \A i \in Positions(r) : third_nodes[i + 1] # id
  <2>1. \A i \in 1 .. n : line[i] # target
    BY <1>4, <1>5, <1>7
  <2>2. e3 # "vb"
    BY <2>1
  <2> QED
    BY <1>3, <1>7, <2>1, <2>2 DEF k, r
<1> QED
  BY <1>6, <1>7


(* is_member gives the position of a line, and refuses any other triplet   *)
(* of ids, if no find is asked for what it does not refuse.                *)
THEOREM MemberFound ==
  ASSUME NEW t, NEW second_nodes, NEW third_nodes, NEW e2, NEW e3, NEW line, NEW n,
         Holds(t, second_nodes, third_nodes, e2, e3, line, n), t.mapper.kind = "identity",
         NEW q \in [first : Nat, second : Nat, third : Nat],
         q.first \in 0 .. Len(t.first_pointers) - 2, e3 # "pef",
         \/ e2 = "vb" \/ e3 = "vb"
         \/ past_bounds(t.second_nodes, RangeAt(t.first_pointers, q.first), q.second)
         => \E i \in 1 .. n : line[i] = q
  PROVE  \/ is_member(t, q) \in 0 .. n - 1 /\ line[is_member(t, q) + 1] = q
         \/ is_member(t, q) = not_found /\ \A i \in 1 .. n : line[i] # q
<1> DEFINE r == RangeAt(t.first_pointers, q.first)
           j == find_node(t.second_nodes, r, q.second)
           k == find_node(t.third_nodes, RangeAt(t.second_pointers, j), q.third)
<1>1. map(t.mapper, q) = q.third
  BY DEF map
<1>2. is_member(t, q) = IF j = not_found THEN j ELSE k
  BY <1>1 DEF is_member
<1>3. n \in Nat
  BY DEF Holds, HoldsLines, SortedLines
<1>4. ASSUME NEW i \in 1 .. n, line[i] = q
      PROVE  \E c \in Positions(r) : second_nodes[c + 1] = q.second
  <2>1. i - 1 \in 0 .. n - 1 /\ (i - 1) + 1 = i
    BY <1>3
  <2>2. PICK first, c : OnPath(t, first, c, i - 1)
    BY <2>1, PathExists
  <2>3. line[i].first = first /\ line[i].second = second_nodes[c + 1]
    BY <2>1, <2>2, PathHolds DEF PathFacts, LineOfPath
  <2> QED
    BY <1>4, <2>2, <2>3 DEF OnPath
<1>5. Unrefused(t.second_nodes, r, q.second)
        => \E c \in Positions(r) : second_nodes[c + 1] = q.second
  <2>1. t.second_nodes.encoding = e2
    BY BuiltFields DEF Holds, HoldsLines
  <2> QED
    BY <1>4, <2>1 DEF Unrefused
<1>6. q.second \in Int /\ q.third \in Int
  OBVIOUS
<1>7. \/ j \in Positions(r) /\ second_nodes[j + 1] = q.second
      \/ j = not_found /\ \A i \in Positions(r) : second_nodes[i + 1] # q.second
  BY <1>5, <1>6, FindsSecond
<1> HIDE DEF j
<1>8. CASE j \in Positions(r) /\ second_nodes[j + 1] = q.second
  <2>1. q = Triplet(q.first, second_nodes[j + 1], q.third)
    BY <1>8 DEF Triplet
  <2>2. \/ k \in 0 .. n - 1 /\ line[k + 1] = q
        \/ k = not_found /\ \A i \in 1 .. n : line[i] # q
    <3>1. PICK c \in Positions(RangeAt(t.first_pointers, q.first)) : c = j
      BY <1>8
    <3>2. q = Triplet(q.first, second_nodes[c + 1], q.third)
      BY <2>1, <3>1
    <3>3. \/ /\ find_node(t.third_nodes, RangeAt(t.second_pointers, c), q.third) \in 0 .. n - 1
             /\ line[find_node(t.third_nodes, RangeAt(t.second_pointers, c), q.third) + 1] = q
          \/ /\ find_node(t.third_nodes, RangeAt(t.second_pointers, c), q.third) = not_found
             /\ \A i \in 1 .. n : line[i] # q
      BY <1>6, <3>2, FindsThird
    <3> QED
      BY <3>1, <3>3
  <2> HIDE DEF k
  <2>3. j # not_found
    <3>1. WellFormedRanges(second_nodes, t.first_pointers)
      BY DEF Holds, HoldsLines
    <3>2. j \in 0 .. Len(second_nodes) - 1
      BY <1>8, <3>1, RangeIn
    <3> QED
      BY <3>2 DEF not_found
  <2> QED
    BY <1>2, <2>2, <2>3
<1>9. CASE j = not_found /\ \A i \in Positions(r) : second_nodes[i + 1] # q.second
  BY <1>2, <1>4, <1>9
<1> QED
  BY <1>7, <1>8, <1>9

-----------------------------------------------------------------------------
(* A trie with what it was built from: t, second_nodes, third_nodes, e2,   *)
(* e3, line and n of Holds, as the fields of x.                            *)
Describes(x) == Holds(x.t, x.second_nodes, x.third_nodes, x.e2, x.e3, x.line, x.n)

(* What the levels of a trie are, for the lemmas on its iterators.         *)
LevelsOf(x) ==
  /\ x.e2 \in Encodings(x.second_nodes) /\ x.e3 \in Encodings(x.third_nodes) /\ x.n \in Nat \ {0}
  /\ x.t.second_nodes = build(x.e2, x.second_nodes, x.t.first_pointers)
  /\ x.t.third_nodes = build(x.e3, x.third_nodes, x.t.second_pointers)
  /\ WellFormedRanges(x.second_nodes, x.t.first_pointers)
  /\ WellFormedRanges(x.third_nodes, x.t.second_pointers)
  /\ Len(x.t.first_pointers) = x.line[x.n].first + 2
  /\ Len(x.t.second_pointers) = Len(x.second_nodes) + 1 /\ Len(x.third_nodes) = x.n
  /\ Len(x.second_nodes) \in Nat /\ Len(x.t.first_pointers) \in Nat
  /\ x.line \in [1 .. x.n -> [first : Nat, second : Nat, third : Nat]]

(* LevelsOf follows from what the trie holds.                              *)
LEMMA LevelsDescribed ==
  ASSUME NEW x, Describes(x)
  PROVE  LevelsOf(x)
<1>1. /\ x.e2 \in Encodings(x.second_nodes) /\ x.e3 \in Encodings(x.third_nodes)
      /\ x.t.second_nodes = build(x.e2, x.second_nodes, x.t.first_pointers)
      /\ x.t.third_nodes = build(x.e3, x.third_nodes, x.t.second_pointers)
      /\ HoldsLines(x.t.first_pointers, x.second_nodes, x.t.second_pointers, x.third_nodes,
                    x.t.mapper, x.line, x.n)
  BY DEF Describes, Holds
<1>2. /\ SortedLines(x.line, x.n)
      /\ WellFormedRanges(x.second_nodes, x.t.first_pointers)
      /\ WellFormedRanges(x.third_nodes, x.t.second_pointers)
      /\ Len(x.t.first_pointers) = x.line[x.n].first + 2
      /\ Len(x.t.second_pointers) = Len(x.second_nodes) + 1 /\ Len(x.third_nodes) = x.n
  BY <1>1 DEF HoldsLines
<1>3. x.n \in Nat \ {0} /\ x.line \in [1 .. x.n -> [first : Nat, second : Nat, third : Nat]]
  BY <1>2 DEF SortedLines
<1>4. Len(x.second_nodes) \in Nat /\ Len(x.t.first_pointers) \in Nat
  BY SMTT(30), <1>2 DEF WellFormedRanges
<1> QED
  BY <1>1, <1>2, <1>3, <1>4 DEF LevelsOf

(* The way down to a position, with what the arithmetic on it needs.       *)
LEMMA PathBounds ==
  ASSUME NEW x, Describes(x), NEW first, NEW j, NEW k, OnPath(x.t, first, j, k)
  PROVE  LET fp == x.t.first_pointers
             sp == x.t.second_pointers
         IN  /\ first \in Nat /\ j \in Nat /\ k \in Nat /\ k < x.n /\ k + 1 \in 1 .. x.n
             /\ j \in 0 .. Len(x.second_nodes) - 1 /\ j \in 0 .. Len(sp) - 2
             /\ fp[first + 1] \in Nat /\ fp[first + 2] \in 1 .. Len(x.second_nodes)
             /\ fp[first + 1] <= j /\ j < fp[first + 2]
             /\ sp[j + 1] \in Nat /\ sp[j + 2] \in 1 .. x.n
             /\ sp[j + 1] <= k /\ k < sp[j + 2]
<1> DEFINE fp == x.t.first_pointers
           sp == x.t.second_pointers
<1>1. PathFacts(x.t, x.second_nodes, x.third_nodes, x.line, x.n, first, j, k)
  BY PathHolds DEF Describes
<1>2. /\ WellFormedRanges(x.second_nodes, fp) /\ WellFormedRanges(x.third_nodes, sp)
      /\ Len(x.third_nodes) = x.n /\ x.n \in Nat /\ Len(x.second_nodes) \in Nat
      /\ x.line \in [1 .. x.n -> [first : Nat, second : Nat, third : Nat]]
  BY LevelsDescribed DEF LevelsOf
<1>3. /\ first \in Nat /\ j \in 0 .. Len(x.second_nodes) - 1 /\ j \in 0 .. Len(sp) - 2
      /\ k \in 0 .. x.n - 1 /\ k + 1 \in 1 .. x.n
      /\ LineOfPath(x.line, x.t.mapper, first, x.second_nodes, x.third_nodes, j, k)
  BY <1>1 DEF PathFacts
<1>4. /\ first \in 0 .. Len(fp) - 2 /\ j \in Positions(RangeAt(fp, first))
      /\ k \in Positions(RangeAt(sp, j))
  BY DEF OnPath
<1>5. /\ fp[first + 1] \in Nat /\ fp[first + 2] \in 1 .. Len(x.second_nodes)
      /\ fp[first + 1] <= j /\ j < fp[first + 2]
  <2>1. fp[first + 1] \in 0 .. Len(x.second_nodes) - 1
    BY <1>2, <1>4, RangeIn
  <2>2. fp[first + 2] \in 1 .. Len(x.second_nodes) /\ fp[first + 1] <= j /\ j < fp[first + 2]
    BY <1>2, <1>4, RangeIn
  <2> QED
    BY <1>2, <2>1, <2>2
<1>6. sp[j + 1] \in Nat /\ sp[j + 2] \in 1 .. x.n /\ sp[j + 1] <= k /\ k < sp[j + 2]
  <2>1. PICK p \in 0 .. Len(sp) - 2 : p = j
    BY <1>3
  <2>2. /\ sp[p + 1] \in 0 .. Len(x.third_nodes) - 1 /\ sp[p + 2] \in 1 .. Len(x.third_nodes)
        /\ \A i \in Positions(RangeAt(sp, p)) : sp[p + 1] <= i /\ i < sp[p + 2]
    BY <1>2, RangeIn
  <2> QED
    BY <1>2, <1>4, <2>1, <2>2
<1>7. j \in Nat /\ k \in Nat /\ k < x.n
  BY <1>2, <1>3
<1> QED
  BY <1>3, <1>5, <1>6, <1>7

(* The triplet that is read there is the line.                             *)
LEMMA PathValue ==
  ASSUME NEW x, Describes(x), NEW first, NEW j, NEW k, OnPath(x.t, first, j, k)
  PROVE  Unmapped(x.t, Triplet(first, x.second_nodes[j + 1], x.third_nodes[k + 1]))
           = x.line[k + 1]
<1>1. PathFacts(x.t, x.second_nodes, x.third_nodes, x.line, x.n, first, j, k)
  BY PathHolds DEF Describes
<1>2. x.line \in [1 .. x.n -> [first : Nat, second : Nat, third : Nat]]
  BY LevelsDescribed DEF LevelsOf
<1>3. /\ k + 1 \in 1 .. x.n
      /\ LineOfPath(x.line, x.t.mapper, first, x.second_nodes, x.third_nodes, j, k)
  BY <1>1 DEF PathFacts
<1>4. PICK l : l = x.line[k + 1]
  OBVIOUS
<1>5. /\ l.first = first /\ l.second = x.second_nodes[j + 1]
      /\ x.third_nodes[k + 1] = map(x.t.mapper, l)
      /\ l \in [first : Nat, second : Nat, third : Nat]
  BY <1>2, <1>3, <1>4 DEF LineOfPath
<1>6. MapsLines(x.t.mapper, x.line, x.n)
  BY DEF Describes, Holds, HoldsLines
<1>7. unmap(x.t.mapper, Triplet(l.first, l.second, map(x.t.mapper, l))) = l.third
  BY <1>3, <1>4, <1>6 DEF MapsLines
<1>8. unmap(x.t.mapper, Triplet(first, x.second_nodes[j + 1], x.third_nodes[k + 1])) = l.third
  BY <1>5, <1>7
<1>9. Unmapped(x.t, Triplet(first, x.second_nodes[j + 1], x.third_nodes[k + 1]))
        = Triplet(first, x.second_nodes[j + 1], l.third)
  BY <1>8 DEF Unmapped, Triplet
<1>10. Triplet(l.first, l.second, l.third) = l
  BY <1>5 DEF Triplet
<1> QED
  BY <1>4, <1>5, <1>9, <1>10

(* Below the last position the way to the next one goes on in the range of *)
(* the pair, or from its end to the next pair's, and so further up.        *)
LEMMA PathContinues ==
  ASSUME NEW x, Describes(x), NEW first, NEW j, NEW k, OnPath(x.t, first, j, k), k + 1 < x.n
  PROVE  LET fp == x.t.first_pointers
             sp == x.t.second_pointers
         IN  /\ k + 1 < sp[j + 2] => OnPath(x.t, first, j, k + 1)
             /\ k + 1 = sp[j + 2] =>
                  /\ j + 1 < Len(x.second_nodes)
                  /\ j + 1 < fp[first + 2] => OnPath(x.t, first, j + 1, k + 1)
                  /\ j + 1 = fp[first + 2] => OnPath(x.t, first + 1, j + 1, k + 1)
<1> DEFINE fp == x.t.first_pointers
           sp == x.t.second_pointers
<1>1. /\ WellFormedRanges(x.second_nodes, fp) /\ WellFormedRanges(x.third_nodes, sp)
      /\ Len(x.third_nodes) = x.n /\ x.n \in Nat /\ Len(x.second_nodes) \in Nat
      /\ Len(sp) = Len(x.second_nodes) + 1 /\ Len(fp) \in Nat
  BY LevelsDescribed DEF LevelsOf
<1>2. /\ first \in Nat /\ j \in Nat /\ k \in Nat
      /\ j \in 0 .. Len(x.second_nodes) - 1
      /\ fp[first + 1] \in Nat /\ fp[first + 2] \in 1 .. Len(x.second_nodes)
      /\ fp[first + 1] <= j /\ j < fp[first + 2]
      /\ sp[j + 1] \in Nat /\ sp[j + 2] \in 1 .. x.n
      /\ sp[j + 1] <= k /\ k < sp[j + 2]
  BY PathBounds
<1>3. /\ first \in 0 .. Len(fp) - 2 /\ j \in Positions(RangeAt(fp, first))
  BY DEF OnPath
<1>4. ASSUME k + 1 < sp[j + 2] PROVE OnPath(x.t, first, j, k + 1)
  <2>1. k + 1 \in Positions(RangeAt(sp, j))
    BY <1>2, <1>4 DEF Positions, RangeAt
  <2> QED
    BY <1>3, <2>1 DEF OnPath
<1>5. ASSUME k + 1 = sp[j + 2]
      PROVE  j + 1 < Len(x.second_nodes) /\ k + 1 \in Positions(RangeAt(sp, j + 1))
  <2>1. sp[Len(sp)] = x.n
    BY <1>1 DEF WellFormedRanges
  <2>2. j + 2 # Len(sp)
    BY <1>1, <1>2, <1>5, <2>1
  <2>3. j + 1 < Len(x.second_nodes)
    <3>1. j < Len(x.second_nodes) /\ j + 2 # Len(x.second_nodes) + 1
      BY <1>1, <1>2, <2>2
    <3> QED
      BY <1>1, <1>2, <3>1
  <2>4. PICK p \in 0 .. Len(sp) - 2 : p = j + 1 /\ p + 1 = j + 2
    BY <1>1, <1>2, <2>3
  <2>5. sp[p + 1] < sp[p + 2] /\ sp[p + 2] \in 1 .. Len(x.third_nodes) /\ sp[p + 1] \in Int
    <3>1. sp[p + 1] \in 0 .. Len(x.third_nodes) - 1
      BY <1>1, RangeIn
    <3>2. sp[p + 1] < sp[p + 2] /\ sp[p + 2] \in 1 .. Len(x.third_nodes)
      BY <1>1, RangeIn
    <3> QED
      BY <1>1, <3>1, <3>2
  <2>6. k + 1 = sp[p + 1]
    BY <1>5, <2>4
  <2>7. k + 1 \in Positions(RangeAt(sp, p))
    BY <1>1, <2>5, <2>6 DEF Positions, RangeAt
  <2> QED
    BY <2>3, <2>4, <2>7
<1>6. ASSUME k + 1 = sp[j + 2], j + 1 < fp[first + 2] PROVE OnPath(x.t, first, j + 1, k + 1)
  <2>1. j + 1 \in Positions(RangeAt(fp, first))
    BY <1>2, <1>6 DEF Positions, RangeAt
  <2> QED
    BY <1>3, <1>5, <1>6, <2>1 DEF OnPath
<1>7. ASSUME k + 1 = sp[j + 2], j + 1 = fp[first + 2] PROVE OnPath(x.t, first + 1, j + 1, k + 1)
  <2>1. j + 1 < Len(x.second_nodes)
    BY <1>5, <1>7
  <2>2. fp[Len(fp)] = Len(x.second_nodes)
    BY <1>1 DEF WellFormedRanges
  <2>3. first + 2 # Len(fp)
    BY <1>7, <2>1, <2>2
  <2>4. PICK p \in 0 .. Len(fp) - 2 : p = first + 1 /\ p + 1 = first + 2
    BY <1>1, <1>2, <1>3, <2>3
  <2>5. fp[p + 1] < fp[p + 2] /\ fp[p + 2] \in 1 .. Len(x.second_nodes) /\ fp[p + 1] \in Int
    <3>1. fp[p + 1] \in 0 .. Len(x.second_nodes) - 1
      BY <1>1, RangeIn
    <3>2. fp[p + 1] < fp[p + 2] /\ fp[p + 2] \in 1 .. Len(x.second_nodes)
      BY <1>1, RangeIn
    <3> QED
      BY <1>1, <3>1, <3>2
  <2>6. j + 1 = fp[p + 1]
    BY <1>7, <2>4
  <2>7. j + 1 \in Positions(RangeAt(fp, p))
    BY <1>1, <2>5, <2>6 DEF Positions, RangeAt
  <2> QED
    BY <1>5, <1>7, <2>4, <2>7 DEF OnPath
<1> QED
  BY <1>4, <1>5, <1>6, <1>7

-----------------------------------------------------------------------------
(* trie::iterator on the k-th line: it has its triplet, and stands on its  *)
(* two nodes. It knows its place among the pairs, too, unless it stops     *)
(* before they end.                                                        *)
AtPath(x, iter, end, first, j, k) ==
  /\ OnPath(x.t, first, j, k)
  /\ iter.val = x.line[k + 1]
  /\ InLevel(x.e2, x.second_nodes, x.t.first_pointers, iter.second, first, j)
  /\ InLevel(x.e3, x.third_nodes, x.t.second_pointers, iter.third, j, k)
  /\ OnTrack(x.t.second_pointers, iter.third, j, k)
  /\ OnTrack(x.t.first_pointers, iter.second, first, j) \/ end <= x.t.second_pointers[j + 2]

IteratorFields == {"kind", "i", "size", "second", "third", "val"}

(* It goes through the c lines that follow the first base ones, and has    *)
(* given e of them.                                                        *)
Goes(x, iter, base, c, e) ==
  /\ DOMAIN iter = IteratorFields /\ iter.kind = "iterator" /\ iter.i = e /\ iter.size = c
  /\ base \in Nat /\ c \in Nat /\ base + c <= x.n /\ e \in 0 .. c
  /\ e < c => \E first, j : AtPath(x, iter, base + c, first, j, base + e)

(* The constructor.                                                        *)
LEMMA IteratorMade ==
  ASSUME NEW x, Describes(x), NEW base \in Nat, NEW c \in Nat, base + c <= x.n, c > 0,
         NEW first, NEW j, OnPath(x.t, first, j, base), NEW second_it, NEW third_it,
         InLevel(x.e2, x.second_nodes, x.t.first_pointers, second_it, first, j),
         InLevel(x.e3, x.third_nodes, x.t.second_pointers, third_it, j, base),
         OnTrack(x.t.second_pointers, third_it, j, base),
         OnTrack(x.t.first_pointers, second_it, first, j) \/ base + c <= x.t.second_pointers[j + 2]
  PROVE  Goes(x, iterator(x.t, first, second_it, third_it, c), base, c, 0)
<1> DEFINE iter == iterator(x.t, first, second_it, third_it, c)
<1>1. second_it.node = x.second_nodes[j + 1] /\ third_it.node = x.third_nodes[base + 1]
  BY DEF InLevel
<1>2. Unmapped(x.t, Triplet(first, second_it.node, third_it.node)) = x.line[base + 1]
  BY <1>1, PathValue
<1>3. /\ DOMAIN iter = IteratorFields /\ iter.kind = "iterator" /\ iter.i = 0 /\ iter.size = c
      /\ iter.second = second_it /\ iter.third = third_it
      /\ iter.val = Unmapped(x.t, Triplet(first, second_it.node, third_it.node))
  BY DEF iterator, IteratorFields
<1> HIDE DEF iter
<1>4. AtPath(x, iter, base + c, first, j, base)
  BY <1>2, <1>3 DEF AtPath
<1>5. base + 0 = base /\ 0 \in 0 .. c
  OBVIOUS
<1>6. Goes(x, iter, base, c, 0)
  BY <1>3, <1>4, <1>5 DEF Goes
<1> QED
  BY <1>6 DEF iter

(* operator++ goes to the next line.                                       *)
LEMMA IteratorMoves ==
  ASSUME NEW x, Describes(x), NEW base, NEW c, NEW e, NEW iter, Goes(x, iter, base, c, e), e < c
  PROVE  Goes(x, iterator_next(x.t, iter), base, c, e + 1)
<1> DEFINE fp == x.t.first_pointers
           sp == x.t.second_pointers
           to == iterator_next(x.t, iter)
           third_to == advance_third(x.t, iter.third)
           second_to == IF third_to.switch_range THEN advance_second(x.t, iter.second) ELSE iter.second
           first_to == iter.val.first + (IF third_to.switch_range /\ second_to.switch_range THEN 1 ELSE 0)
           moved == [iter EXCEPT !.i = @ + 1]
           full == [moved EXCEPT !.second = second_to, !.third = third_to,
                      !.val = Unmapped(x.t, Triplet(first_to, second_to.node, third_to.node))]
<1>1. to = IF moved.i = iter.size THEN moved ELSE full
  BY Zenon DEF iterator_next
<1> HIDE DEF to, third_to, second_to, first_to
<1>2. /\ DOMAIN iter = IteratorFields /\ iter.kind = "iterator" /\ iter.i = e /\ iter.size = c
      /\ base \in Nat /\ c \in Nat /\ base + c <= x.n /\ e \in 0 .. c
  BY DEF Goes
<1>3. /\ DOMAIN moved = IteratorFields /\ moved.kind = "iterator" /\ moved.i = e + 1
      /\ moved.size = c
  BY <1>2 DEF IteratorFields
<1>4. /\ DOMAIN full = IteratorFields /\ full.kind = "iterator" /\ full.i = e + 1
      /\ full.size = c /\ full.second = second_to /\ full.third = third_to
      /\ full.val = Unmapped(x.t, Triplet(first_to, second_to.node, third_to.node))
  <2> HIDE DEF moved
  <2> QED
    BY <1>3 DEF IteratorFields
<1> HIDE DEF moved, full
<1>5. /\ DOMAIN to = IteratorFields /\ to.kind = "iterator" /\ to.i = e + 1 /\ to.size = c
      /\ e + 1 \in 0 .. c
  BY <1>1, <1>2, <1>3, <1>4
<1>6. ASSUME e + 1 < c
      PROVE  \E f, i : AtPath(x, to, base + c, f, i, base + (e + 1))
  <2>1. PICK first, j : AtPath(x, iter, base + c, first, j, base + e)
    BY DEF Goes
  <2>2. PICK k : k = base + e /\ k + 1 = base + (e + 1) /\ k \in Nat /\ k + 1 < base + c /\ k + 1 < x.n
    <3>1. x.n \in Nat
      BY LevelsDescribed DEF LevelsOf
    <3> QED
      BY <1>2, <1>6, <3>1
  <2>3. to = full
    BY <1>1, <1>2, <1>3, <1>6
  <2>4. /\ OnPath(x.t, first, j, k) /\ iter.val = x.line[k + 1]
        /\ InLevel(x.e2, x.second_nodes, fp, iter.second, first, j)
        /\ InLevel(x.e3, x.third_nodes, sp, iter.third, j, k)
        /\ OnTrack(sp, iter.third, j, k)
        /\ OnTrack(fp, iter.second, first, j) \/ base + c <= sp[j + 2]
    BY <2>1, <2>2 DEF AtPath
  <2>5. /\ x.e2 \in Encodings(x.second_nodes) /\ x.e3 \in Encodings(x.third_nodes)
        /\ x.t.second_nodes = build(x.e2, x.second_nodes, fp)
        /\ x.t.third_nodes = build(x.e3, x.third_nodes, sp)
        /\ WellFormedRanges(x.second_nodes, fp) /\ WellFormedRanges(x.third_nodes, sp)
        /\ Len(x.third_nodes) = x.n
    BY LevelsDescribed DEF LevelsOf
  <2>6. /\ first \in Nat /\ j \in Nat /\ j \in 0 .. Len(sp) - 2
        /\ fp[first + 2] \in 1 .. Len(x.second_nodes) /\ j < fp[first + 2]
        /\ sp[j + 2] \in 1 .. x.n /\ k < sp[j + 2]
    BY <2>4, PathBounds
  <2>7. iter.val.first = first
    <3>1. PathFacts(x.t, x.second_nodes, x.third_nodes, x.line, x.n, first, j, k)
      BY <2>4, PathHolds DEF Describes
    <3> QED
      BY <2>4, <3>1 DEF PathFacts, LineOfPath
  <2>8. first \in 0 .. Len(fp) - 2 /\ j \in Positions(RangeAt(fp, first)) /\ k \in Positions(RangeAt(sp, j))
    BY <2>4 DEF OnPath
  <2>9. /\ third_to.switch_range <=> k + 1 = sp[j + 2]
        /\ k + 1 < sp[j + 2] =>
             /\ InLevel(x.e3, x.third_nodes, sp, third_to, j, k + 1)
             /\ OnTrack(sp, third_to, j, k + 1)
        /\ k + 1 = sp[j + 2] /\ k + 1 < x.n =>
             /\ InLevel(x.e3, x.third_nodes, sp, third_to, j + 1, k + 1)
             /\ OnTrack(sp, third_to, j + 1, k + 1)
    <3>1. third_to = advance(build(x.e3, x.third_nodes, sp), sp, iter.third)
      BY <2>5 DEF third_to, advance_third
    <3>2. PICK p \in 0 .. Len(sp) - 2 : p = j
      BY <2>6
    <3>3. /\ p \in 0 .. Len(sp) - 2 /\ k \in Positions(RangeAt(sp, p))
          /\ InLevel(x.e3, x.third_nodes, sp, iter.third, p, k) /\ OnTrack(sp, iter.third, p, k)
      BY <2>4, <2>8, <3>2
    <3>4. LET next_to == advance(build(x.e3, x.third_nodes, sp), sp, iter.third)
          IN  /\ next_to.switch_range <=> k + 1 = sp[p + 2]
              /\ k + 1 < sp[p + 2] =>
                   /\ InLevel(x.e3, x.third_nodes, sp, next_to, p, k + 1)
                   /\ OnTrack(sp, next_to, p, k + 1)
              /\ k + 1 = sp[p + 2] /\ k + 1 < Len(x.third_nodes) =>
                   /\ InLevel(x.e3, x.third_nodes, sp, next_to, p + 1, k + 1)
                   /\ OnTrack(sp, next_to, p + 1, k + 1)
      BY <2>5, <3>3, Advances
    <3> QED
      BY <2>5, <3>1, <3>2, <3>4
  <2>10. CASE k + 1 < sp[j + 2]
    <3>1. second_to = iter.second /\ first_to = first
      <4>1. ~ third_to.switch_range
        BY <2>6, <2>9, <2>10
      <4> QED
        BY <2>6, <2>7, <4>1 DEF second_to, first_to
    <3>2. OnPath(x.t, first, j, k + 1)
      BY <2>2, <2>4, <2>10, PathContinues
    <3>3. second_to.node = x.second_nodes[j + 1] /\ third_to.node = x.third_nodes[(k + 1) + 1]
      BY <2>4, <2>9, <2>10, <3>1 DEF InLevel
    <3>4. to.val = x.line[(k + 1) + 1]
      BY ZenonT(60), <1>4, <2>3, <3>1, <3>2, <3>3, PathValue
    <3>5. AtPath(x, to, base + c, first, j, k + 1)
      BY <1>4, <2>3, <2>4, <2>9, <2>10, <3>1, <3>2, <3>4 DEF AtPath
    <3> QED
      BY <2>2, <3>5
  <2>11. CASE k + 1 = sp[j + 2]
    <3>1. OnTrack(fp, iter.second, first, j)
      BY <1>2, <2>2, <2>4, <2>6, <2>11
    <3>2. /\ j + 1 < Len(x.second_nodes)
          /\ j + 1 < fp[first + 2] => OnPath(x.t, first, j + 1, k + 1)
          /\ j + 1 = fp[first + 2] => OnPath(x.t, first + 1, j + 1, k + 1)
      BY <2>2, <2>4, <2>11, PathContinues
    <3>3. second_to = advance(build(x.e2, x.second_nodes, fp), fp, iter.second)
      BY <2>5, <2>9, <2>11 DEF second_to, advance_second
    <3>4. /\ second_to.switch_range <=> j + 1 = fp[first + 2]
          /\ j + 1 < fp[first + 2] =>
               /\ InLevel(x.e2, x.second_nodes, fp, second_to, first, j + 1)
               /\ OnTrack(fp, second_to, first, j + 1)
          /\ j + 1 = fp[first + 2] =>
               /\ InLevel(x.e2, x.second_nodes, fp, second_to, first + 1, j + 1)
               /\ OnTrack(fp, second_to, first + 1, j + 1)
      BY <2>4, <2>5, <2>8, <3>1, <3>2, <3>3, Advances
    <3>5. third_to.node = x.third_nodes[(k + 1) + 1] /\ second_to.node = x.second_nodes[(j + 1) + 1]
      BY <2>2, <2>6, <2>9, <2>11, <3>4 DEF InLevel
    <3>6. CASE j + 1 < fp[first + 2]
      <4>1. first_to = first
        BY <2>6, <2>7, <3>4, <3>6 DEF first_to
      <4>2. to.val = x.line[(k + 1) + 1]
        BY <1>4, <2>3, <3>2, <3>5, <3>6, <4>1, PathValue
      <4>3. AtPath(x, to, base + c, first, j + 1, k + 1)
        BY <1>4, <2>2, <2>3, <2>9, <2>11, <3>2, <3>4, <3>6, <4>2 DEF AtPath
      <4> QED
        BY <2>2, <4>3
    <3>7. CASE j + 1 = fp[first + 2]
      <4>1. first_to = first + 1
        BY <2>7, <2>9, <2>11, <3>4, <3>7 DEF first_to
      <4>2. to.val = x.line[(k + 1) + 1]
        <5>1. PICK f : f = first + 1
          OBVIOUS
        <5>2. PICK g, l : g = j + 1 /\ l = k + 1
          OBVIOUS
        <5>3. OnPath(x.t, f, g, l)
          BY <3>2, <3>7, <5>1, <5>2
        <5>4. Unmapped(x.t, Triplet(f, x.second_nodes[g + 1], x.third_nodes[l + 1]))
                = x.line[l + 1]
          BY <5>3, PathValue
        <5> QED
          BY <1>4, <2>3, <3>5, <4>1, <5>1, <5>2, <5>4
      <4>3. AtPath(x, to, base + c, first + 1, j + 1, k + 1)
        BY <1>4, <2>2, <2>3, <2>9, <2>11, <3>2, <3>4, <3>7, <4>2 DEF AtPath
      <4> QED
        BY <2>2, <4>3
    <3> QED
      BY <2>6, <3>6, <3>7
  <2> QED
    BY <2>2, <2>6, <2>10, <2>11
<1>7. Goes(x, to, base, c, e + 1)
  BY <1>2, <1>5, <1>6 DEF Goes
<1> QED
  BY <1>7 DEF to

-----------------------------------------------------------------------------
(* The lines that give a first id, or any, and a second id, or any; and    *)
(* that they are the c lines after the first base ones.                    *)
Answers(l, a, b) == a \in {wildcard_symbol, l.first} /\ b \in {wildcard_symbol, l.second}

Block(line, n, a, b, base, c) ==
  /\ base \in Nat /\ c \in Nat /\ base + c <= n
  /\ \A k \in 0 .. n - 1 : Answers(line[k + 1], a, b) <=> base <= k /\ k < base + c

(* The iterators of both levels, where select puts them.                   *)
LEMMA IteratorsPlaced ==
  ASSUME NEW x, Describes(x), NEW first \in 0 .. Len(x.t.first_pointers) - 2,
         NEW j \in Positions(RangeAt(x.t.first_pointers, first)),
         NEW r2, r2.begin = x.t.first_pointers[first + 1],
         NEW r3, r3.begin = x.t.second_pointers[j + 1]
  PROVE  LET second_it == SecondIterator(x.t, cursor(x.t.second_nodes, r2, j), first)
             third_it == ThirdIterator(x.t, cursor(x.t.third_nodes, r3, r3.begin), j)
         IN  /\ OnPath(x.t, first, j, r3.begin)
             /\ InLevel(x.e2, x.second_nodes, x.t.first_pointers, second_it, first, j)
             /\ j = x.t.first_pointers[first + 1] => OnTrack(x.t.first_pointers, second_it, first, j)
             /\ InLevel(x.e3, x.third_nodes, x.t.second_pointers, third_it, j, r3.begin)
             /\ OnTrack(x.t.second_pointers, third_it, j, r3.begin)
<1> DEFINE fp == x.t.first_pointers
           sp == x.t.second_pointers
           second_it == SecondIterator(x.t, cursor(x.t.second_nodes, r2, j), first)
           third_it == ThirdIterator(x.t, cursor(x.t.third_nodes, r3, r3.begin), j)
<1>1. /\ x.e2 \in Encodings(x.second_nodes) /\ x.e3 \in Encodings(x.third_nodes)
      /\ x.t.second_nodes = build(x.e2, x.second_nodes, fp)
      /\ x.t.third_nodes = build(x.e3, x.third_nodes, sp)
      /\ WellFormedRanges(x.second_nodes, fp) /\ WellFormedRanges(x.third_nodes, sp)
      /\ Len(sp) = Len(x.second_nodes) + 1
  BY LevelsDescribed DEF LevelsOf
<1>2. PICK p \in 0 .. Len(sp) - 2 : p = j
  <2>1. j \in 0 .. Len(x.second_nodes) - 1 /\ Len(x.second_nodes) \in Nat
    BY <1>1, RangeIn
  <2> QED
    BY <1>1, <2>1
<1>3. /\ sp[p + 1] < sp[p + 2] /\ RangeAt(sp, p) = [begin |-> sp[p + 1], end |-> sp[p + 2]]
      /\ sp[p + 1] \in 0 .. Len(x.third_nodes) - 1 /\ sp[p + 2] \in 1 .. Len(x.third_nodes)
  BY <1>1, RangeIn
<1>4. PICK i \in Positions(RangeAt(sp, p)) : i = sp[p + 1]
  <2>1. sp[p + 1] \in sp[p + 1] .. sp[p + 2] - 1
    BY SMTT(30), <1>3
  <2> QED
    BY SMTT(30), <1>3, <2>1 DEF Positions
<1>5. i = r3.begin
  BY <1>2, <1>4
<1>6. OnPath(x.t, first, j, r3.begin)
  BY <1>2, <1>4, <1>5 DEF OnPath
<1>7. /\ InLevel(x.e2, x.second_nodes, fp, second_it, first, j)
      /\ j = fp[first + 1] => OnTrack(fp, second_it, first, j)
  <2>1. second_it = level_iterator(build(x.e2, x.second_nodes, fp), fp,
                                   cursor(build(x.e2, x.second_nodes, fp), r2, j), first)
    BY <1>1 DEF SecondIterator
  <2> HIDE DEF second_it
  <2> QED
    BY <1>1, <2>1, LevelStarts
<1>8. /\ InLevel(x.e3, x.third_nodes, sp, third_it, j, r3.begin)
      /\ OnTrack(sp, third_it, j, r3.begin)
  <2>1. third_it = level_iterator(build(x.e3, x.third_nodes, sp), sp,
                                  cursor(build(x.e3, x.third_nodes, sp), r3, i), p)
    BY <1>1, <1>2, <1>5 DEF ThirdIterator
  <2> HIDE DEF third_it
  <2>2. r3.begin = sp[p + 1]
    BY <1>2
  <2>3. /\ InLevel(x.e3, x.third_nodes, sp, third_it, p, i)
        /\ OnTrack(sp, third_it, p, i)
    BY <1>1, <1>4, <2>1, <2>2, LevelStarts
  <2> QED
    BY <1>2, <1>5, <2>3
<1> QED
  BY <1>6, <1>7, <1>8

(* select_all goes through all the lines.                                  *)
LEMMA SelectsAll ==
  ASSUME NEW x, Describes(x)
  PROVE  /\ Goes(x, select_all(x.t), 0, x.n, 0)
         /\ Block(x.line, x.n, wildcard_symbol, wildcard_symbol, 0, x.n)
<1> DEFINE fp == x.t.first_pointers
           sp == x.t.second_pointers
           r == [begin |-> 0, end |-> 0]
           second_it == SecondIterator(x.t, cursor(x.t.second_nodes, r, 0), 0)
           third_it == ThirdIterator(x.t, cursor(x.t.third_nodes, r, 0), 0)
<1>1. /\ WellFormedRanges(x.second_nodes, fp) /\ WellFormedRanges(x.third_nodes, sp)
      /\ x.t.third_nodes = build(x.e3, x.third_nodes, sp) /\ x.e3 \in Encodings(x.third_nodes)
      /\ Len(x.third_nodes) = x.n /\ x.n \in Nat \ {0} /\ Len(fp) \in Nat
  BY LevelsDescribed DEF LevelsOf
<1>2. triplets(x.t) = x.n
  BY <1>1, BuiltFields DEF triplets
<1>3. fp[1] = 0 /\ sp[1] = 0 /\ Len(fp) > 1
  BY <1>1 DEF WellFormedRanges
<1>4. PICK first \in 0 .. Len(fp) - 2 : first = 0 /\ first + 1 = 1
  BY <1>1, <1>3
<1>5. PICK j \in Positions(RangeAt(fp, first)) : j = 0 /\ j + 1 = 1
  <2>1. /\ fp[first + 1] < fp[first + 2] /\ RangeAt(fp, first) = [begin |-> fp[first + 1], end |-> fp[first + 2]]
        /\ fp[first + 2] \in 1 .. Len(x.second_nodes)
    BY <1>1, RangeIn
  <2>2. 0 \in Positions(RangeAt(fp, first))
    BY <1>3, <1>4, <2>1 DEF Positions
  <2> QED
    BY <2>2
<1>6. /\ OnPath(x.t, first, j, r.begin)
      /\ InLevel(x.e2, x.second_nodes, fp, second_it, first, j)
      /\ j = fp[first + 1] => OnTrack(fp, second_it, first, j)
      /\ InLevel(x.e3, x.third_nodes, sp, third_it, j, r.begin)
      /\ OnTrack(sp, third_it, j, r.begin)
  <2>1. r.begin = fp[first + 1] /\ r.begin = sp[j + 1]
    BY <1>3, <1>4, <1>5
  <2>2. LET second_at == SecondIterator(x.t, cursor(x.t.second_nodes, r, j), first)
            third_at == ThirdIterator(x.t, cursor(x.t.third_nodes, r, r.begin), j)
        IN  /\ OnPath(x.t, first, j, r.begin)
            /\ InLevel(x.e2, x.second_nodes, fp, second_at, first, j)
            /\ j = fp[first + 1] => OnTrack(fp, second_at, first, j)
            /\ InLevel(x.e3, x.third_nodes, sp, third_at, j, r.begin)
            /\ OnTrack(sp, third_at, j, r.begin)
    <3> HIDE DEF r
    <3> QED
      BY <2>1, IteratorsPlaced
  <2>3. r.begin = 0
    OBVIOUS
  <2> HIDE DEF r
  <2> QED
    BY <1>4, <1>5, <2>2, <2>3
<1>7. select_all(x.t) = iterator(x.t, first, second_it, third_it, x.n)
  BY <1>2, <1>4, Zenon DEF select_all, first_cursor
<1>8. r.begin = 0
  OBVIOUS
<1> HIDE DEF second_it, third_it, r
<1>9. Goes(x, select_all(x.t), 0, x.n, 0)
  <2>1. /\ OnPath(x.t, first, j, 0) /\ OnTrack(fp, second_it, first, j)
        /\ InLevel(x.e2, x.second_nodes, fp, second_it, first, j)
        /\ InLevel(x.e3, x.third_nodes, sp, third_it, j, 0)
        /\ OnTrack(sp, third_it, j, 0)
    BY <1>3, <1>4, <1>5, <1>6, <1>8
  <2>2. 0 \in Nat /\ x.n \in Nat /\ 0 + x.n <= x.n /\ x.n > 0
    BY <1>1
  <2> QED
    BY <1>7, <2>1, <2>2, IteratorMade
<1>10. Block(x.line, x.n, wildcard_symbol, wildcard_symbol, 0, x.n)
  BY <1>1 DEF Block, Answers
<1> QED
  BY <1>9, <1>10


(* The second-level range of a first id, and where its lines begin and end.*)
LEMMA LinesOfFirst ==
  ASSUME NEW x, Describes(x), NEW first \in 0 .. Len(x.t.first_pointers) - 2
  PROVE  LET fp == x.t.first_pointers
             sp == x.t.second_pointers
             base == sp[fp[first + 1] + 1]
             end == sp[fp[first + 2] + 1]
         IN  /\ fp[first + 1] \in Positions(RangeAt(fp, first)) /\ fp[first + 2] \in Nat
             /\ base \in Nat /\ end \in Nat /\ base < end /\ end <= x.n
             /\ Block(x.line, x.n, first, wildcard_symbol, base, end - base)
<1> DEFINE fp == x.t.first_pointers
           sp == x.t.second_pointers
           base == sp[fp[first + 1] + 1]
           end == sp[fp[first + 2] + 1]
<1>1. /\ WellFormedRanges(x.second_nodes, fp) /\ WellFormedRanges(x.third_nodes, sp)
      /\ Len(sp) = Len(x.second_nodes) + 1 /\ Len(x.second_nodes) \in Nat
      /\ Len(x.third_nodes) = x.n /\ x.n \in Nat \ {0}
      /\ x.line \in [1 .. x.n -> [first : Nat, second : Nat, third : Nat]]
  BY LevelsDescribed DEF LevelsOf
<1>2. /\ fp[first + 1] \in 0 .. Len(x.second_nodes) - 1 /\ fp[first + 2] \in 1 .. Len(x.second_nodes)
      /\ fp[first + 1] < fp[first + 2]
      /\ RangeAt(fp, first) = [begin |-> fp[first + 1], end |-> fp[first + 2]]
  BY <1>1, RangeIn
<1>3. PICK lo, hi : lo = fp[first + 1] /\ hi = fp[first + 2]
  OBVIOUS
<1>4. /\ lo \in Nat /\ hi \in Nat /\ lo < hi /\ lo + 1 \in 1 .. Len(sp) /\ hi + 1 \in 1 .. Len(sp)
      /\ lo + 1 < hi + 1 /\ Positions(RangeAt(fp, first)) = lo .. hi - 1
  <2>1. lo \in 0 .. Len(x.second_nodes) - 1 /\ hi \in 1 .. Len(x.second_nodes) /\ lo < hi
    BY <1>2, <1>3
  <2>2. Positions(RangeAt(fp, first)) = lo .. hi - 1
    BY <1>2, <1>3 DEF Positions
  <2> HIDE DEF fp, sp
  <2> QED
    BY <1>1, <2>1, <2>2, SMTT(30)
<1>5. \A p, q \in 1 .. Len(sp) : p < q => sp[p] < sp[q] /\ sp[p] \in Nat /\ sp[q] \in Nat
  BY <1>1, PointersGrow
<1>6. base = sp[lo + 1] /\ end = sp[hi + 1] /\ base \in Nat /\ end \in Nat /\ base < end
  BY <1>3, <1>4, <1>5
<1>7. end <= x.n
  <2>1. sp[Len(sp)] = x.n /\ Len(sp) \in Nat /\ Len(sp) \in 1 .. Len(sp)
    BY <1>1 DEF WellFormedRanges
  <2>2. hi + 1 = Len(sp) \/ hi + 1 < Len(sp)
    BY <1>4, <2>1
  <2>3. CASE hi + 1 = Len(sp)
    BY <1>1, <1>6, <2>1, <2>3
  <2>4. CASE hi + 1 < Len(sp)
    <3>1. sp[hi + 1] < sp[Len(sp)]
      BY <1>4, <1>5, <2>1, <2>4
    <3> HIDE DEF sp, end
    <3> QED
      BY <1>1, <1>6, <2>1, <3>1
  <2> QED
    BY <2>2, <2>3, <2>4
<1> HIDE DEF base, end
<1>8. ASSUME NEW k \in 0 .. x.n - 1
      PROVE  Answers(x.line[k + 1], first, wildcard_symbol) <=> base <= k /\ k < end
  <2>1. PICK f, i : OnPath(x.t, f, i, k)
    BY PathExists DEF Describes
  <2>2. PathFacts(x.t, x.second_nodes, x.third_nodes, x.line, x.n, f, i, k)
    BY <2>1, PathHolds DEF Describes
  <2>3. x.line[k + 1].first = f /\ f \in Nat /\ i \in 0 .. Len(x.second_nodes) - 1
    BY <2>2 DEF PathFacts, LineOfPath
  <2>4. sp[i + 1] <= k /\ k < sp[i + 2] /\ sp[i + 1] \in Nat /\ sp[i + 2] \in Nat
    <3>1. sp[i + 2] \in 1 .. x.n /\ sp[i + 1] <= k /\ k < sp[i + 2] /\ sp[i + 1] \in Nat
      BY <2>1, PathBounds
    <3> QED
      BY <1>1, <3>1
  <2>5. first \in Nat
    OBVIOUS
  <2>6. Answers(x.line[k + 1], first, wildcard_symbol) <=> f = first
    <3>1. first # wildcard_symbol
      BY <2>5 DEF wildcard_symbol
    <3> QED
      BY <2>3, <3>1 DEF Answers
  <2>7. i \in lo .. hi - 1 <=> f = first
    <3>1. f \in 0 .. Len(fp) - 2 /\ i \in Positions(RangeAt(fp, f))
      BY <2>1 DEF OnPath
    <3>2. f = first => i \in lo .. hi - 1
      BY <1>4, <3>1
    <3>3. ASSUME i \in lo .. hi - 1, f # first PROVE FALSE
      <4>1. i \in Positions(RangeAt(fp, first)) /\ i \in Int
        BY <1>4, <3>3
      <4>2. CASE f < first
        <5>1. i < i
          BY <1>1, <3>1, <4>1, <4>2, RangesApart
        <5> QED
          BY <4>1, <5>1
      <4>3. CASE first < f
        <5>1. i < i
          BY <1>1, <3>1, <4>1, <4>3, RangesApart
        <5> QED
          BY <4>1, <5>1
      <4> QED
        BY <2>3, <2>5, <3>3, <4>2, <4>3
    <3> QED
      BY <3>2, <3>3
  <2>8. i + 1 \in 1 .. Len(sp) /\ i + 2 \in 1 .. Len(sp) /\ i \in Nat /\ k \in Nat
    BY <1>1, <2>3
  <2>9. lo <= i => base <= k
    <3>1. lo <= i => lo + 1 = i + 1 \/ lo + 1 < i + 1
      BY <1>4, <2>8
    <3>2. lo + 1 = i + 1 => base <= k
      BY <1>6, <2>4
    <3>3. lo + 1 < i + 1 => base < sp[i + 1]
      BY <1>4, <1>5, <1>6, <2>8
    <3> QED
      BY <1>6, <2>4, <2>8, <3>1, <3>2, <3>3
  <2>10. i < lo => k < base
    <3>1. i < lo => i + 2 = lo + 1 \/ i + 2 < lo + 1
      BY <1>4, <2>8
    <3>2. i + 2 = lo + 1 => k < base
      BY <1>6, <2>4
    <3>3. i + 2 < lo + 1 => sp[i + 2] < base
      BY <1>4, <1>5, <1>6, <2>8
    <3> QED
      BY SMTT(30), <1>6, <2>4, <2>8, <3>1, <3>2, <3>3
  <2>11. i < hi => k < end
    <3>1. i < hi => i + 2 = hi + 1 \/ i + 2 < hi + 1
      BY <1>4, <2>8
    <3>2. i + 2 = hi + 1 => k < end
      BY <1>6, <2>4
    <3>3. i + 2 < hi + 1 => sp[i + 2] < end
      BY <1>4, <1>5, <1>6, <2>8
    <3> QED
      BY <1>6, <2>4, <2>8, <3>1, <3>2, <3>3
  <2>12. hi <= i => end <= k
    <3>1. hi <= i => hi + 1 = i + 1 \/ hi + 1 < i + 1
      BY <1>4, <2>8
    <3>2. hi + 1 = i + 1 => end <= k
      BY <1>6, <2>4
    <3>3. hi + 1 < i + 1 => end < sp[i + 1]
      BY <1>4, <1>5, <1>6, <2>8
    <3> QED
      BY <1>6, <2>4, <2>8, <3>1, <3>2, <3>3
  <2>13. i \in lo .. hi - 1 <=> lo <= i /\ i < hi
    BY <1>4, <2>8
  <2>14. (lo <= i \/ i < lo) /\ (i < hi \/ hi <= i)
    BY <1>4, <2>8
  <2>15. ~ (base <= k /\ k < base) /\ ~ (end <= k /\ k < end)
    BY <1>6, <2>8
  <2>16. lo <= i /\ i < hi <=> base <= k /\ k < end
    BY <2>9, <2>10, <2>11, <2>12, <2>14, <2>15
  <2> QED
    BY <2>6, <2>7, <2>13, <2>16
<1>9. Block(x.line, x.n, first, wildcard_symbol, base, end - base)
  <2>1. end - base \in Nat /\ base + (end - base) = end
    BY <1>6
  <2> QED
    BY <1>6, <1>7, <1>8, <2>1 DEF Block
<1>10. lo \in Positions(RangeAt(fp, first))
  BY <1>4
<1> QED
  BY <1>3, <1>4, <1>6, <1>7, <1>9, <1>10 DEF base, end

(* select, of a first id, goes through the lines that begin with it.       *)
LEMMA SelectsFirst ==
  ASSUME NEW x, Describes(x), NEW q, q.first \in 0 .. Len(x.t.first_pointers) - 2,
         q.second = wildcard_symbol
  PROVE  \E base, c : /\ Goes(x, select(x.t, q), base, c, 0) /\ c > 0
                      /\ Block(x.line, x.n, q.first, q.second, base, c)
<1> DEFINE fp == x.t.first_pointers
           sp == x.t.second_pointers
           r == RangeAt(fp, q.first)
           children == RangeAt(sp, r.begin)
           num == RangeAt(sp, r.end - 1).end - RangeAt(sp, r.begin).begin
           second_it == SecondIterator(x.t, cursor(x.t.second_nodes, r, r.begin), q.first)
           third_it == ThirdIterator(x.t, cursor(x.t.third_nodes, children, children.begin), r.begin)
<1>1. select(x.t, q) = iterator(x.t, q.first, second_it, third_it, num)
  BY Zenon DEF select, SelectedNode
<1>2. PICK first \in 0 .. Len(fp) - 2 : first = q.first
  OBVIOUS
<1>3. PICK base, end : /\ base = sp[fp[first + 1] + 1] /\ end = sp[fp[first + 2] + 1]
                       /\ fp[first + 1] \in Positions(RangeAt(fp, first)) /\ fp[first + 2] \in Nat
                       /\ base \in Nat /\ end \in Nat /\ base < end /\ end <= x.n
                       /\ Block(x.line, x.n, first, wildcard_symbol, base, end - base)
  BY LinesOfFirst
<1>4. r.begin = fp[first + 1] /\ r.end = fp[first + 2]
  BY <1>2 DEF RangeAt
<1>5. PICK j \in Positions(RangeAt(fp, first)) : j = r.begin
  BY <1>3, <1>4
<1>6. children.begin = sp[j + 1] /\ children.begin = base
  BY <1>3, <1>4, <1>5 DEF RangeAt
<1>7. num = end - base
  <2>1. (r.end - 1) + 2 = r.end + 1
    BY SMTT(30), <1>3, <1>4
  <2>2. RangeAt(sp, r.end - 1).end = sp[r.end + 1] /\ RangeAt(sp, r.begin).begin = sp[r.begin + 1]
    BY <2>1 DEF RangeAt
  <2> QED
    BY <1>3, <1>4, <2>2
<1>8. /\ OnPath(x.t, first, j, base)
      /\ InLevel(x.e2, x.second_nodes, fp, second_it, first, j)
      /\ OnTrack(fp, second_it, first, j)
      /\ InLevel(x.e3, x.third_nodes, sp, third_it, j, base)
      /\ OnTrack(sp, third_it, j, base)
  <2>1. r.begin = fp[first + 1]
    BY <1>4
  <2>2. LET second_at == SecondIterator(x.t, cursor(x.t.second_nodes, r, j), first)
            third_at == ThirdIterator(x.t, cursor(x.t.third_nodes, children, children.begin), j)
        IN  /\ OnPath(x.t, first, j, children.begin)
            /\ InLevel(x.e2, x.second_nodes, fp, second_at, first, j)
            /\ j = fp[first + 1] => OnTrack(fp, second_at, first, j)
            /\ InLevel(x.e3, x.third_nodes, sp, third_at, j, children.begin)
            /\ OnTrack(sp, third_at, j, children.begin)
    <3> HIDE DEF r, children
    <3> QED
      BY <1>6, <2>1, IteratorsPlaced
  <2> HIDE DEF r, children
  <2> QED
    BY <1>2, <1>4, <1>5, <1>6, <2>2
<1> HIDE DEF second_it, third_it, num, r, children
<1>9. end - base \in Nat /\ base + (end - base) <= x.n /\ end - base > 0
  <2>1. PICK n : n = x.n /\ n \in Nat
    BY LevelsDescribed DEF LevelsOf
  <2>2. base \in Nat /\ end \in Nat /\ base < end /\ end <= n
    BY <1>3, <2>1
  <2>3. end - base \in Nat /\ base + (end - base) <= n /\ end - base > 0
    BY <2>2
  <2> QED
    BY <2>1, <2>3
<1>10. Goes(x, select(x.t, q), base, end - base, 0)
  BY ZenonT(60), <1>1, <1>2, <1>3, <1>7, <1>8, <1>9, IteratorMade
<1> QED
  BY <1>2, <1>3, <1>9, <1>10

(* select, of a first and a second id that occur together, goes through    *)
(* the lines that begin with them.                                         *)
LEMMA SelectsPair ==
  ASSUME NEW x, Describes(x), NEW q, q.first \in 0 .. Len(x.t.first_pointers) - 2,
         q.second \in Nat, SelectedNode(x.t, q) \in Positions(RangeAt(x.t.first_pointers, q.first)),
         x.second_nodes[SelectedNode(x.t, q) + 1] = q.second
  PROVE  \E base, c : /\ Goes(x, select(x.t, q), base, c, 0) /\ c > 0
                      /\ Block(x.line, x.n, q.first, q.second, base, c)
<1> DEFINE fp == x.t.first_pointers
           sp == x.t.second_pointers
           r == RangeAt(fp, q.first)
           at == SelectedNode(x.t, q)
           children == RangeAt(sp, at)
           num == children.end - children.begin
           second_it == SecondIterator(x.t, cursor(x.t.second_nodes, r, at), q.first)
           third_it == ThirdIterator(x.t, cursor(x.t.third_nodes, children, children.begin), at)
<1>0. q.second # wildcard_symbol
  BY DEF wildcard_symbol
<1>1. select(x.t, q) = iterator(x.t, q.first, second_it, third_it, num)
  BY <1>0, Zenon DEF select
<1>2. PICK first \in 0 .. Len(fp) - 2 : first = q.first
  OBVIOUS
<1>3. PICK j \in Positions(RangeAt(fp, first)) : j = at
  BY <1>2
<1> HIDE DEF at
<1>4. children.begin = sp[j + 1] /\ children.end = sp[j + 2] /\ r.begin = fp[first + 1]
  BY <1>2, <1>3 DEF RangeAt
<1>5. /\ OnPath(x.t, first, j, children.begin)
      /\ InLevel(x.e2, x.second_nodes, fp, second_it, first, j)
      /\ InLevel(x.e3, x.third_nodes, sp, third_it, j, children.begin)
      /\ OnTrack(sp, third_it, j, children.begin)
  <2>2. LET second_at == SecondIterator(x.t, cursor(x.t.second_nodes, r, j), first)
            third_at == ThirdIterator(x.t, cursor(x.t.third_nodes, children, children.begin), j)
        IN  /\ OnPath(x.t, first, j, children.begin)
            /\ InLevel(x.e2, x.second_nodes, fp, second_at, first, j)
            /\ j = fp[first + 1] => OnTrack(fp, second_at, first, j)
            /\ InLevel(x.e3, x.third_nodes, sp, third_at, j, children.begin)
            /\ OnTrack(sp, third_at, j, children.begin)
    <3> HIDE DEF r, children
    <3> QED
      BY <1>4, IteratorsPlaced
  <2> HIDE DEF r, children
  <2> QED
    BY <1>2, <1>3, <2>2
<1> HIDE DEF second_it, third_it, r
<1>6. PICK base, end : base = children.begin /\ end = children.end
  OBVIOUS
<1> HIDE DEF children
<1>7. /\ base \in Nat /\ end \in 1 .. x.n /\ base < end /\ x.n \in Nat
  <2>1. /\ sp[j + 1] \in Nat /\ sp[j + 2] \in 1 .. x.n /\ sp[j + 1] <= base /\ base < sp[j + 2]
    BY <1>5, <1>6, PathBounds
  <2>2. x.n \in Nat
    BY LevelsDescribed DEF LevelsOf
  <2> QED
    BY <1>4, <1>6, <2>1, <2>2
<1>8. end - base \in Nat /\ base + (end - base) = end /\ end <= x.n /\ end - base > 0 /\ end <= end
  BY <1>7
<1>9. Goes(x, select(x.t, q), base, end - base, 0)
  <2>1. num = end - base
    BY <1>6
  <2>2. base + (end - base) <= x.t.second_pointers[j + 2]
    BY <1>4, <1>6, <1>8
  <2> HIDE DEF num
  <2> QED
    BY <1>1, <1>2, <1>5, <1>6, <1>7, <1>8, <2>1, <2>2, IteratorMade
<1>10. ASSUME NEW k \in 0 .. x.n - 1
       PROVE  Answers(x.line[k + 1], q.first, q.second) <=> base <= k /\ k < end
  <2>1. k \in Positions(RangeAt(sp, j))
          <=> x.line[k + 1].first = first /\ x.line[k + 1].second = x.second_nodes[j + 1]
    BY LinesOfPair DEF Describes
  <2>2. Positions(RangeAt(sp, j)) = base .. end - 1
    BY <1>4, <1>6 DEF Positions, RangeAt
  <2>3. q.first # wildcard_symbol /\ x.second_nodes[j + 1] = q.second
    BY <1>2, <1>3 DEF wildcard_symbol, at
  <2>4. Answers(x.line[k + 1], q.first, q.second)
          <=> x.line[k + 1].first = first /\ x.line[k + 1].second = x.second_nodes[j + 1]
    BY <1>0, <1>2, <2>3 DEF Answers
  <2> QED
    BY <1>7, <2>1, <2>2, <2>4
<1>11. Block(x.line, x.n, q.first, q.second, base, end - base)
  BY <1>7, <1>8, <1>10 DEF Block
<1> QED
  BY <1>8, <1>9, <1>11

-----------------------------------------------------------------------------
(* Where the answers of a first id, and a second or any, begin and end.    *)
Lower(a, b) == Triplet(a, IF b = wildcard_symbol THEN 0 ELSE b, 0)
Upper(a, b) == IF b = wildcard_symbol THEN Triplet(a + 1, 0, 0) ELSE Triplet(a, b + 1, 0)

(* The answers are the lines between the two.                              *)
LEMMA Thresholds ==
  ASSUME NEW a \in Nat, NEW b \in Nat \cup {wildcard_symbol}
  PROVE  /\ Lower(a, b) \in IdTriplets /\ Upper(a, b) \in IdTriplets
         /\ \A l \in IdTriplets :
              /\ Answers(l, a, b) <=> ~ Precedes(l, Lower(a, b)) /\ Precedes(l, Upper(a, b))
              /\ Precedes(l, Lower(a, b)) => Precedes(l, Upper(a, b))
<1>1. ASSUME b = wildcard_symbol, NEW l \in IdTriplets
      PROVE  /\ Answers(l, a, b) <=> ~ Precedes(l, Lower(a, b)) /\ Precedes(l, Upper(a, b))
             /\ Precedes(l, Lower(a, b)) => Precedes(l, Upper(a, b))
  <2>1. l.first \in Nat /\ l.second \in Nat /\ l.third \in Nat
    BY DEF IdTriplets
  <2>2. Answers(l, a, b) <=> l.first = a
    BY <1>1 DEF Answers, wildcard_symbol
  <2>3. Precedes(l, Lower(a, b)) <=> l.first < a
    BY <1>1, <2>1 DEF Lower, Precedes, Triplet
  <2>4. Precedes(l, Upper(a, b)) <=> l.first < a + 1
    BY <1>1, <2>1 DEF Upper, Precedes, Triplet
  <2> QED
    BY <2>1, <2>2, <2>3, <2>4
<1>2. ASSUME b # wildcard_symbol, NEW l \in IdTriplets
      PROVE  /\ Answers(l, a, b) <=> ~ Precedes(l, Lower(a, b)) /\ Precedes(l, Upper(a, b))
             /\ Precedes(l, Lower(a, b)) => Precedes(l, Upper(a, b))
  <2>1. l.first \in Nat /\ l.second \in Nat /\ l.third \in Nat /\ b \in Nat
    BY <1>2 DEF IdTriplets
  <2>2. Answers(l, a, b) <=> l.first = a /\ l.second = b
    BY <1>2 DEF Answers, wildcard_symbol
  <2>3. Precedes(l, Lower(a, b)) <=> (l.first < a \/ (l.first = a /\ l.second < b))
    BY <1>2, <2>1 DEF Lower, Precedes, Triplet
  <2>4. Precedes(l, Upper(a, b)) <=> (l.first < a \/ (l.first = a /\ l.second < b + 1))
    BY <1>2, <2>1 DEF Upper, Precedes, Triplet
  <2> QED
    BY <2>1, <2>2, <2>3, <2>4
<1>3. Lower(a, b) \in IdTriplets /\ Upper(a, b) \in IdTriplets
  BY DEF Lower, Upper, IdTriplets, Triplet
<1> QED
  BY <1>1, <1>2, <1>3

(* The answers are the lines between.                                      *)
LEMMA AnswersBetween ==
  ASSUME NEW line, NEW n, SortedLines(line, n), NEW a \in Nat, NEW b \in Nat \cup {wildcard_symbol}
  PROVE  \E base, c : /\ Block(line, n, a, b, base, c)
                      /\ Reached(line, n, Lower(a, b), base)
                      /\ Reached(line, n, Upper(a, b), base + c)
<1>1. n \in Nat /\ line \in [1 .. n -> IdTriplets]
  BY DEF SortedLines, IdTriplets
<1>2. PICK base : Reached(line, n, Lower(a, b), base)
  BY Thresholds, ReachedSome
<1>3. PICK end : Reached(line, n, Upper(a, b), end)
  BY Thresholds, ReachedSome
<1>4. /\ base \in 0 .. n /\ end \in 0 .. n
      /\ \A k \in 0 .. n - 1 : Precedes(line[k + 1], Lower(a, b)) <=> k < base
      /\ \A k \in 0 .. n - 1 : Precedes(line[k + 1], Upper(a, b)) <=> k < end
  BY <1>2, <1>3 DEF Reached
<1>5. \A k \in 0 .. n - 1 : line[k + 1] \in IdTriplets
  BY <1>1
<1>6. base <= end
  <2> SUFFICES ASSUME end < base PROVE FALSE
    BY <1>4
  <2>1. end \in 0 .. n - 1
    BY <1>1, <1>4
  <2>2. end < end
    BY <1>4, <1>5, <2>1, Thresholds
  <2> QED
    BY <1>4, <2>2
<1>7. base + (end - base) = end /\ end - base \in Nat /\ base \in Nat /\ end <= n
  BY <1>1, <1>4, <1>6
<1>8. \A k \in 0 .. n - 1 : Answers(line[k + 1], a, b) <=> base <= k /\ k < end
  <2> TAKE k \in 0 .. n - 1
  <2>1. ~ (k < base) <=> base <= k
    BY <1>4
  <2> QED
    BY <1>4, <1>5, <2>1, Thresholds
<1>9. Block(line, n, a, b, base, end - base)
  BY <1>7, <1>8 DEF Block
<1> QED
  BY <1>2, <1>3, <1>7, <1>9

-----------------------------------------------------------------------------
(* The children of a node are in order.                                    *)
LEMMA ChildrenInOrder ==
  ASSUME NEW nodes, NEW pointers, WellFormedRanges(nodes, pointers),
         NEW p \in 0 .. Len(pointers) - 2,
         NEW i \in Positions(RangeAt(pointers, p)), NEW k \in Positions(RangeAt(pointers, p))
  PROVE  /\ nodes[i + 1] < nodes[k + 1] <=> i < k
         /\ nodes[i + 1] = nodes[k + 1] <=> i = k
         /\ i \in Nat /\ k \in Nat /\ nodes[i + 1] \in Nat /\ nodes[k + 1] \in Nat
<1>1. /\ i \in 0 .. Len(nodes) - 1 /\ pointers[p + 1] <= i /\ i < pointers[p + 2]
      /\ k \in 0 .. Len(nodes) - 1 /\ pointers[p + 1] <= k /\ k < pointers[p + 2]
      /\ nodes[i + 1] \in Nat /\ nodes[k + 1] \in Nat
      /\ pointers[p + 1] \in 0 .. Len(nodes) - 1 /\ pointers[p + 2] \in 1 .. Len(nodes)
      /\ Len(pointers) \in Nat
  BY RangeIn
<1>2. p + 1 \in 1 .. Len(pointers) - 1 /\ (p + 1) + 1 = p + 2
  BY <1>1
<1>3. \A a, b \in pointers[p + 1] + 1 .. pointers[p + 2] : a < b => nodes[a] < nodes[b]
  BY <1>2 DEF WellFormedRanges
<1>4. PICK lo, hi : lo = pointers[p + 1] /\ hi = pointers[p + 2]
  OBVIOUS
<1>5. /\ i \in Nat /\ k \in Nat /\ lo \in Nat /\ hi \in Nat
      /\ i + 1 \in lo + 1 .. hi /\ k + 1 \in lo + 1 .. hi
      /\ (i + 1 < k + 1 <=> i < k) /\ (k + 1 < i + 1 <=> k < i)
  <2>1. /\ i \in Nat /\ k \in Nat /\ lo \in Nat /\ hi \in Nat
        /\ lo <= i /\ i < hi /\ lo <= k /\ k < hi
    BY <1>1, <1>4
  <2> QED
    BY <2>1
<1>6. i < k => nodes[i + 1] < nodes[k + 1]
  BY <1>3, <1>4, <1>5
<1>7. k < i => nodes[k + 1] < nodes[i + 1]
  BY <1>3, <1>4, <1>5
<1> QED
  BY <1>1, <1>5, <1>6, <1>7

(* The way down to a line.                                                 *)
LEMMA WayToLine ==
  ASSUME NEW x, Describes(x), NEW i \in 1 .. x.n
  PROVE  \E f, j, k : /\ OnPath(x.t, f, j, k) /\ k + 1 = i
                      /\ f = x.line[i].first /\ x.second_nodes[j + 1] = x.line[i].second
                      /\ x.third_nodes[k + 1] = map(x.t.mapper, x.line[i])
<1>1. PICK n \in Nat : n = x.n
  BY LevelsDescribed DEF LevelsOf
<1>2. PICK k \in 0 .. x.n - 1 : k + 1 = i
  <2>1. i - 1 \in 0 .. x.n - 1 /\ (i - 1) + 1 = i
    BY <1>1
  <2> QED
    BY <2>1
<1>3. PICK f, j : OnPath(x.t, f, j, k)
  BY PathExists DEF Describes
<1>4. PathFacts(x.t, x.second_nodes, x.third_nodes, x.line, x.n, f, j, k)
  BY <1>3, PathHolds DEF Describes
<1> QED
  BY <1>2, <1>3, <1>4 DEF PathFacts, LineOfPath

-----------------------------------------------------------------------------
(* iterator_so. line lists the triplets of x.line rotated: (s, p, o) as    *)
(* (o, s, p).                                                              *)
Rotated(line, n, x) ==
  \A a, b, c \in Nat :
    (\E i \in 1 .. n : line[i] = Triplet(a, b, c))
      <=> (\E i \in 1 .. x.n : x.line[i] = Triplet(b, c, a))

(* A record with these fields.                                             *)
Record(r, fields) == r = [f \in fields |-> r[f]]

ValFields == {"first", "second", "third"}

(* They are its domain.                                                    *)
LEMMA RecordFields ==
  ASSUME NEW r, NEW fields, Record(r, fields)
  PROVE  DOMAIN r = fields
BY DEF Record

(* To give a field the value that it has changes nothing.                  *)
LEMMA SameRecord ==
  ASSUME NEW r, NEW fields, Record(r, fields), "val" \in fields, Record(r.val, ValFields)
  PROVE  [r EXCEPT !.val.third = r.val.third] = r
<1>1. [r.val EXCEPT !.third = r.val.third] = r.val
  BY DEF Record, ValFields
<1>2. [r EXCEPT !.val = r.val] = r
  BY DEF Record
<1>3. [r EXCEPT !.val.third = r.val.third] = [r EXCEPT !.val = [r.val EXCEPT !.third = r.val.third]]
  BY DEF Record
<1> QED
  BY <1>1, <1>2, <1>3

(* It is at the i-th child of s, if there is one, and all answers before   *)
(* that are given.                                                         *)
SoPlaced(x, iter, s, j) ==
  /\ InLevel(x.e2, x.second_nodes, x.t.first_pointers, iter.second, s, j)
  /\ OnTrack(x.t.first_pointers, iter.second, s, j)
  /\ InRange(x.t.second_pointers, iter.third, j)

SoNext(x, iter, o, s) ==
  IF iter.i < iter.size THEN Triplet(o, s, x.second_nodes[x.t.first_pointers[s + 1] + iter.i + 1])
  ELSE Triplet(o, s + 1, 0)

SoGoes(x, iter, o, s) ==
  /\ Record(iter, IteratorFields) /\ iter.kind = "iterator_so"
  /\ s \in 0 .. Len(x.t.first_pointers) - 2 /\ o \in Nat
  /\ iter.size = x.t.first_pointers[s + 2] - x.t.first_pointers[s + 1]
  /\ iter.i \in 0 .. iter.size
  /\ Record(iter.val, ValFields) /\ iter.val.first = o /\ iter.val.second = s
  /\ iter.i < iter.size => SoPlaced(x, iter, s, x.t.first_pointers[s + 1] + iter.i)

(* The child it is at.                                                     *)
LEMMA SoChild ==
  ASSUME NEW x, Describes(x), NEW iter, NEW o, NEW s, SoGoes(x, iter, o, s)
  PROVE  LET fp == x.t.first_pointers
             j == fp[s + 1] + iter.i
         IN  /\ iter.i \in Nat /\ iter.size \in Nat \ {0} /\ j \in Nat /\ fp[s + 1] \in Nat
             /\ fp[s + 2] \in Nat /\ s \in Nat
             /\ Positions(RangeAt(fp, s)) = fp[s + 1] .. fp[s + 2] - 1
             /\ iter.i < iter.size <=> j \in Positions(RangeAt(fp, s))
             /\ iter.i < iter.size => x.second_nodes[j + 1] \in Nat /\ j \in 0 .. Len(x.t.second_pointers) - 2
             /\ iter.i = iter.size <=> j = fp[s + 2]
<1> DEFINE fp == x.t.first_pointers
<1>1. /\ WellFormedRanges(x.second_nodes, fp) /\ Len(x.second_nodes) \in Nat
      /\ Len(x.t.second_pointers) = Len(x.second_nodes) + 1
  BY LevelsDescribed DEF LevelsOf
<1>2. /\ s \in 0 .. Len(fp) - 2 /\ iter.size = fp[s + 2] - fp[s + 1] /\ iter.i \in 0 .. iter.size
  BY DEF SoGoes
<1>3. /\ fp[s + 1] \in 0 .. Len(x.second_nodes) - 1 /\ fp[s + 2] \in 1 .. Len(x.second_nodes)
      /\ fp[s + 1] < fp[s + 2]
      /\ RangeAt(fp, s) = [begin |-> fp[s + 1], end |-> fp[s + 2]]
      /\ \A i \in Positions(RangeAt(fp, s)) : i \in 0 .. Len(x.second_nodes) - 1
                                              /\ x.second_nodes[i + 1] \in Nat
  BY <1>1, <1>2, RangeIn
<1>4. PICK lo, hi : lo = fp[s + 1] /\ hi = fp[s + 2]
  OBVIOUS
<1>5. Positions(RangeAt(fp, s)) = lo .. hi - 1
  BY <1>3, <1>4 DEF Positions
<1>6. lo \in Nat /\ hi \in Nat /\ lo < hi /\ iter.size = hi - lo /\ iter.i \in 0 .. iter.size
  BY <1>1, <1>2, <1>3, <1>4
<1>7. /\ iter.i \in Nat /\ iter.size \in Nat \ {0} /\ lo + iter.i \in Nat
      /\ iter.i < iter.size <=> lo + iter.i \in lo .. hi - 1
      /\ iter.i = iter.size <=> lo + iter.i = hi
  BY <1>6
<1>8. iter.i < iter.size => /\ x.second_nodes[lo + iter.i + 1] \in Nat
                        /\ lo + iter.i \in 0 .. Len(x.t.second_pointers) - 2
  <2> SUFFICES ASSUME iter.i < iter.size
               PROVE  /\ x.second_nodes[lo + iter.i + 1] \in Nat
                      /\ lo + iter.i \in 0 .. Len(x.t.second_pointers) - 2
    OBVIOUS
  <2>1. PICK i : i = lo + iter.i
    OBVIOUS
  <2>2. i \in 0 .. Len(x.second_nodes) - 1 /\ x.second_nodes[i + 1] \in Nat
    BY <1>3, <1>5, <1>7, <2>1
  <2>3. i \in 0 .. Len(x.t.second_pointers) - 2
    BY <1>1, <2>2
  <2> QED
    BY <2>1, <2>2, <2>3
<1>9. s \in Nat
  BY <1>2
<1> QED
  BY <1>4, <1>5, <1>6, <1>7, <1>8, <1>9

(* The triplets of (o, s) have children of s in their third column.        *)
LEMMA SoLines ==
  ASSUME NEW x, Describes(x), NEW line, NEW n, SortedLines(line, n), Rotated(line, n, x),
         NEW s \in 0 .. Len(x.t.first_pointers) - 2, NEW o \in Nat, NEW i \in 1 .. n,
         line[i].first = o, line[i].second = s
  PROVE  \E j \in Positions(RangeAt(x.t.first_pointers, s)) : x.second_nodes[j + 1] = line[i].third
<1>1. line[i] \in IdTriplets
  BY DEF SortedLines, IdTriplets
<1>2. line[i] = Triplet(o, s, line[i].third) /\ line[i].third \in Nat /\ s \in Nat
  BY <1>1 DEF IdTriplets, Triplet
<1>3. PICK h \in 1 .. x.n : x.line[h] = Triplet(s, line[i].third, o)
  <2>1. PICK p \in Nat : p = line[i].third
    BY <1>2
  <2>2. \E h \in 1 .. n : line[h] = Triplet(o, s, p)
    BY <1>2, <2>1
  <2>3. \E h \in 1 .. x.n : x.line[h] = Triplet(s, p, o)
    BY <1>2, <2>2 DEF Rotated
  <2> QED
    BY <2>1, <2>3
<1>4. x.line[h].first = s /\ x.line[h].second = line[i].third
  BY <1>3 DEF Triplet
<1>5. PICK f, j, k : OnPath(x.t, f, j, k) /\ f = x.line[h].first /\ x.second_nodes[j + 1] = x.line[h].second
  BY WayToLine
<1> QED
  BY <1>4, <1>5 DEF OnPath

(* find tells whether the triplet it is at is in the data.                 *)
LEMMA SoFinds ==
  ASSUME NEW x, Describes(x), x.e3 \notin {"pef", "vb"}, x.t.mapper = identity_mapper,
         NEW line, NEW n, SortedLines(line, n), Rotated(line, n, x),
         NEW iter, NEW o, NEW s, SoGoes(x, iter, o, s), iter.i < iter.size
  PROVE  find_node(x.t.third_nodes, pointer(iter.third), o) # not_found
           <=> \E i \in 1 .. n : line[i] = SoNext(x, iter, o, s)
<1>1. PICK j : j = x.t.first_pointers[s + 1] + iter.i
  OBVIOUS
<1>2. /\ j \in Positions(RangeAt(x.t.first_pointers, s)) /\ x.second_nodes[j + 1] \in Nat /\ s \in Nat
  BY <1>1, SoChild
<1>3. s \in 0 .. Len(x.t.first_pointers) - 2 /\ o \in Nat /\ InRange(x.t.second_pointers, iter.third, j)
  BY <1>1 DEF SoGoes, SoPlaced
<1>4. pointer(iter.third) = RangeAt(x.t.second_pointers, j)
  BY <1>3 DEF InRange, pointer, RangeAt
<1>5. x.t.mapper.kind = "identity" /\ o \in Int
  BY <1>3 DEF identity_mapper
<1>6. LET k == find_node(x.t.third_nodes, RangeAt(x.t.second_pointers, j), o)
      IN  \/ k \in 0 .. x.n - 1 /\ x.line[k + 1] = Triplet(s, x.second_nodes[j + 1], o)
          \/ /\ k = not_found
             /\ \A i \in 1 .. x.n : x.line[i] # Triplet(s, x.second_nodes[j + 1], o)
  BY SMTT(30), <1>2, <1>3, <1>5, FindsThird DEF Describes
<1>7. (\E i \in 1 .. n : line[i] = Triplet(o, s, x.second_nodes[j + 1]))
        <=> (\E i \in 1 .. x.n : x.line[i] = Triplet(s, x.second_nodes[j + 1], o))
  BY <1>2, <1>3 DEF Rotated
<1>8. SoNext(x, iter, o, s) = Triplet(o, s, x.second_nodes[j + 1])
  BY <1>1 DEF SoNext
<1>9. PICK k : k = find_node(x.t.third_nodes, RangeAt(x.t.second_pointers, j), o)
  OBVIOUS
<1>10. k # not_found <=> \E i \in 1 .. x.n : x.line[i] = Triplet(s, x.second_nodes[j + 1], o)
  <2>1. ASSUME k \in 0 .. x.n - 1 PROVE k # not_found /\ k + 1 \in 1 .. x.n
    <3>1. x.n \in Nat
      BY LevelsDescribed DEF LevelsOf
    <3> QED
      BY <2>1, <3>1 DEF not_found
  <2> QED
    BY <1>6, <1>9, <2>1
<1> QED
  BY <1>4, <1>7, <1>8, <1>9, <1>10

(* v comes right after (o, s, p), as far as the line l can tell.           *)
JustPast(v, o, s, p, l) ==
  \/ v = Triplet(o, s + 1, 0) /\ (l.first = o /\ l.second = s => l.third <= p)
  \/ \E q \in Nat : /\ v = Triplet(o, s, q)
                    /\ l.first = o /\ l.second = s => (l.third < q <=> l.third <= p)

(* A line is before v if it is (o, s, p) or before it.                     *)
LEMMA ComparedPast ==
  ASSUME NEW l \in IdTriplets, NEW o \in Nat, NEW s \in Nat, NEW p \in Nat, NEW v,
         JustPast(v, o, s, p, l)
  PROVE  Precedes(l, v) <=> Precedes(l, Triplet(o, s, p)) \/ l = Triplet(o, s, p)
<1>1. /\ l = Triplet(l.first, l.second, l.third)
      /\ l.first \in Nat /\ l.second \in Nat /\ l.third \in Nat
  BY DEF IdTriplets, Triplet
<1>2. l = Triplet(o, s, p) <=> l.first = o /\ l.second = s /\ l.third = p
  BY <1>1 DEF Triplet
<1>3. Precedes(l, Triplet(o, s, p))
        <=> (l.first < o \/ (l.first = o /\ (l.second < s \/ (l.second = s /\ l.third < p))))
  BY DEF Precedes, Triplet
<1>4. CASE v = Triplet(o, s + 1, 0) /\ (l.first = o /\ l.second = s => l.third <= p)
  <2>1. Precedes(l, v) <=> (l.first < o \/ (l.first = o /\ l.second < s + 1))
    BY <1>1, <1>4 DEF Precedes, Triplet
  <2> QED
    BY <1>1, <1>2, <1>3, <1>4, <2>1
<1>5. CASE \E q \in Nat : /\ v = Triplet(o, s, q)
                          /\ l.first = o /\ l.second = s => (l.third < q <=> l.third <= p)
  <2>1. PICK q \in Nat : /\ v = Triplet(o, s, q)
                         /\ l.first = o /\ l.second = s => (l.third < q <=> l.third <= p)
    BY <1>5
  <2>2. Precedes(l, v)
          <=> (l.first < o \/ (l.first = o /\ (l.second < s \/ (l.second = s /\ l.third < q))))
    BY <2>1 DEF Precedes, Triplet
  <2> QED
    BY <1>1, <1>2, <1>3, <2>1, <2>2
<1> QED
  BY <1>4, <1>5 DEF JustPast

(* ++ and has_next's try go to the next child.                             *)
LEMMA SoMoves ==
  ASSUME NEW x, Describes(x), NEW line, NEW n, SortedLines(line, n), Rotated(line, n, x),
         NEW iter, NEW o, NEW s, SoGoes(x, iter, o, s), iter.i < iter.size
  PROVE  LET to == iterator_so_next(x.t, iter)
         IN  /\ SoGoes(x, to, o, s)
             /\ \A i \in 1 .. n : Precedes(line[i], SoNext(x, to, o, s))
                  <=> Precedes(line[i], SoNext(x, iter, o, s)) \/ line[i] = SoNext(x, iter, o, s)
<1> DEFINE fp == x.t.first_pointers
           sp == x.t.second_pointers
           to == iterator_so_next(x.t, iter)
<1>1. /\ WellFormedRanges(x.second_nodes, fp) /\ WellFormedRanges(x.third_nodes, sp)
      /\ x.t.second_nodes = build(x.e2, x.second_nodes, fp) /\ x.e2 \in Encodings(x.second_nodes)
      /\ Len(sp) = Len(x.second_nodes) + 1 /\ Len(x.second_nodes) \in Nat
  BY LevelsDescribed DEF LevelsOf
<1>2. PICK j : j = fp[s + 1] + iter.i
  OBVIOUS
<1>3. /\ iter.i \in Nat /\ iter.size \in Nat \ {0} /\ j \in Nat /\ fp[s + 1] \in Nat
      /\ fp[s + 2] \in Nat /\ s \in Nat
      /\ Positions(RangeAt(fp, s)) = fp[s + 1] .. fp[s + 2] - 1
      /\ j \in Positions(RangeAt(fp, s)) /\ x.second_nodes[j + 1] \in Nat /\ j \in 0 .. Len(sp) - 2
  BY <1>2, SoChild
<1>4. /\ DOMAIN iter = IteratorFields /\ iter.kind = "iterator_so" /\ s \in 0 .. Len(fp) - 2 /\ o \in Nat
      /\ iter.size = fp[s + 2] - fp[s + 1] /\ Record(iter.val, ValFields)
      /\ iter.val.first = o /\ iter.val.second = s
      /\ InLevel(x.e2, x.second_nodes, fp, iter.second, s, j) /\ OnTrack(fp, iter.second, s, j)
      /\ InRange(sp, iter.third, j)
  BY <1>2, RecordFields DEF SoGoes, SoPlaced
<1>5. /\ Record(to, IteratorFields) /\ to.kind = "iterator_so" /\ to.size = iter.size
      /\ to.val = iter.val /\ to.i = iter.i + 1
      /\ to.second = advance(x.t.second_nodes, fp, iter.second)
      /\ to.third = next_pointer(sp, iter.third)
  BY <1>4 DEF iterator_so_next, advance_second, IteratorFields, Record
<1> HIDE DEF to
<1>6. /\ to.i \in 0 .. to.size /\ to.i <= to.size
      /\ fp[s + 1] + to.i = j + 1
      /\ to.i < to.size <=> j + 1 < fp[s + 2]
  <2>1. PICK lo, hi : lo = fp[s + 1] /\ hi = fp[s + 2]
    OBVIOUS
  <2>2. /\ lo \in Nat /\ hi \in Nat /\ iter.i \in Nat /\ iter.size = hi - lo /\ iter.i < iter.size
        /\ j = lo + iter.i /\ to.i = iter.i + 1 /\ to.size = hi - lo
    BY <1>2, <1>3, <1>4, <1>5, <2>1
  <2>3. /\ to.i \in 0 .. to.size /\ to.i <= to.size /\ lo + to.i = j + 1
        /\ to.i < to.size <=> j + 1 < hi
    BY <2>2
  <2> QED
    BY <2>1, <2>3
<1>7. ASSUME to.i < to.size PROVE SoPlaced(x, to, s, j + 1)
  <2>1. j + 1 < fp[s + 2]
    BY <1>6, <1>7
  <2>2. InLevel(x.e2, x.second_nodes, fp, to.second, s, j + 1) /\ OnTrack(fp, to.second, s, j + 1)
    <3>1. /\ InLevel(x.e2, x.second_nodes, fp, advance(build(x.e2, x.second_nodes, fp), fp, iter.second), s, j + 1)
          /\ OnTrack(fp, advance(build(x.e2, x.second_nodes, fp), fp, iter.second), s, j + 1)
      <4>1. WellFormedRanges(x.second_nodes, fp) /\ x.e2 \in Encodings(x.second_nodes)
        BY <1>1
      <4>2. s \in 0 .. Len(fp) - 2 /\ j \in Positions(RangeAt(fp, s))
        BY <1>3, <1>4
      <4>3. InLevel(x.e2, x.second_nodes, fp, iter.second, s, j) /\ OnTrack(fp, iter.second, s, j)
        BY <1>4
      <4> HIDE DEF fp, sp
      <4> QED
        BY <2>1, <4>1, <4>2, <4>3, Advances
    <3> HIDE DEF fp, sp
    <3> QED
      BY <1>1, <1>5, <3>1
  <2>3. j + 1 < Len(sp) - 1
    <3>1. fp[s + 2] \in 1 .. Len(x.second_nodes)
      BY <1>1, <1>4, RangeIn
    <3> QED
      BY <1>1, <1>3, <2>1, <3>1
  <2>4. InRange(sp, to.third, j + 1)
    <3> HIDE DEF fp, sp
    <3>1. InRange(sp, next_pointer(sp, iter.third), j + 1)
      BY <1>1, <1>3, <1>4, <2>3, NextPointer
    <3> QED
      BY <1>5, <3>1
  <2> QED
    BY <2>2, <2>4 DEF SoPlaced
<1>8. SoGoes(x, to, o, s)
  BY <1>4, <1>5, <1>6, <1>7 DEF SoGoes
<1>9. SoNext(x, iter, o, s) = Triplet(o, s, x.second_nodes[j + 1])
  BY <1>2 DEF SoNext
<1>11. \A c, h \in Positions(RangeAt(fp, s)) :
         /\ x.second_nodes[c + 1] < x.second_nodes[h + 1] <=> c < h
         /\ x.second_nodes[c + 1] = x.second_nodes[h + 1] <=> c = h
         /\ c \in Nat /\ h \in Nat /\ x.second_nodes[c + 1] \in Nat
  <2>1. WellFormedRanges(x.second_nodes, fp) /\ s \in 0 .. Len(fp) - 2
    BY <1>1, <1>4
  <2> HIDE DEF fp
  <2> QED
    BY <2>1, ChildrenInOrder
<1>10. ASSUME NEW i \in 1 .. n
       PROVE  Precedes(line[i], SoNext(x, to, o, s))
                <=> Precedes(line[i], SoNext(x, iter, o, s)) \/ line[i] = SoNext(x, iter, o, s)
  <2>1. line[i] \in IdTriplets
    BY DEF SortedLines, IdTriplets
  <2>2. ASSUME line[i].first = o, line[i].second = s
        PROVE  \E c \in Positions(RangeAt(fp, s)) : x.second_nodes[c + 1] = line[i].third
    BY <1>4, <2>2, SoLines
  <2>3. ASSUME ~ (to.i < to.size)
        PROVE  /\ SoNext(x, to, o, s) = Triplet(o, s + 1, 0)
               /\ line[i].first = o /\ line[i].second = s => line[i].third <= x.second_nodes[j + 1]
    <3>1. SoNext(x, to, o, s) = Triplet(o, s + 1, 0)
      BY <2>3 DEF SoNext
    <3>2. j + 1 = fp[s + 2]
      BY <1>3, <1>6, <2>3
    <3>3. ASSUME NEW c \in Positions(RangeAt(fp, s)) PROVE x.second_nodes[c + 1] <= x.second_nodes[j + 1]
      <4>1. c = j \/ c < j
        BY <1>3, <3>2
      <4>2. c < j => x.second_nodes[c + 1] < x.second_nodes[j + 1]
        BY <1>1, <1>3, <1>4, ChildrenInOrder
      <4>3. x.second_nodes[c + 1] \in Nat
        BY <1>1, <1>3, <1>4, ChildrenInOrder
      <4> QED
        BY SMTT(30), <1>3, <4>1, <4>2, <4>3
    <3> QED
      BY <2>2, <3>1, <3>3
  <2>4. ASSUME to.i < to.size
        PROVE  \E q \in Nat : /\ SoNext(x, to, o, s) = Triplet(o, s, q)
                              /\ line[i].first = o /\ line[i].second = s =>
                                   (line[i].third < q <=> line[i].third <= x.second_nodes[j + 1])
    <3>1. j + 1 \in Positions(RangeAt(fp, s))
      BY SMTT(30), <1>3, <1>6, <2>4
    <3>2. PICK h \in Positions(RangeAt(fp, s)) : h = j + 1
      BY <3>1
    <3>3. SoNext(x, to, o, s) = Triplet(o, s, x.second_nodes[h + 1])
      BY <1>6, <2>4, <3>2 DEF SoNext
    <3>4. ASSUME NEW c \in Positions(RangeAt(fp, s))
          PROVE  x.second_nodes[c + 1] < x.second_nodes[h + 1]
                   <=> x.second_nodes[c + 1] <= x.second_nodes[j + 1]
      <4>1. /\ x.second_nodes[c + 1] < x.second_nodes[h + 1] <=> c < h
            /\ c \in Nat /\ h \in Nat /\ x.second_nodes[c + 1] \in Nat
        BY <1>11
      <4>2. /\ x.second_nodes[c + 1] < x.second_nodes[j + 1] <=> c < j
            /\ x.second_nodes[c + 1] = x.second_nodes[j + 1] <=> c = j
        BY <1>3, <1>11
      <4>3. c < h <=> c < j \/ c = j
        BY <1>3, <3>2, <4>1
      <4>4. x.second_nodes[c + 1] <= x.second_nodes[j + 1]
              <=> x.second_nodes[c + 1] < x.second_nodes[j + 1]
                  \/ x.second_nodes[c + 1] = x.second_nodes[j + 1]
        BY SMTT(30), <1>3, <4>1
      <4> QED
        BY <4>1, <4>2, <4>3, <4>4
    <3>5. x.second_nodes[h + 1] \in Nat
      BY <1>1, <1>4, ChildrenInOrder
    <3> QED
      BY <2>2, <3>3, <3>4, <3>5
  <2>5. PICK p, v : p \in Nat /\ p = x.second_nodes[j + 1] /\ v = SoNext(x, to, o, s)
    BY <1>3
  <2>6. \/ v = Triplet(o, s + 1, 0) /\ (line[i].first = o /\ line[i].second = s => line[i].third <= p)
        \/ \E q \in Nat : /\ v = Triplet(o, s, q)
                          /\ line[i].first = o /\ line[i].second = s => (line[i].third < q <=> line[i].third <= p)
    BY <2>3, <2>4, <2>5
  <2>7. Precedes(line[i], v) <=> Precedes(line[i], Triplet(o, s, p)) \/ line[i] = Triplet(o, s, p)
    <3>1. PICK l \in IdTriplets : l = line[i]
      BY <2>1
    <3>2. o \in Nat /\ s \in Nat /\ p \in Nat
      BY <1>3, <1>4, <2>5
    <3>3. JustPast(v, o, s, p, l)
      BY <2>6, <3>1 DEF JustPast
    <3> QED
      BY <3>1, <3>2, <3>3, ComparedPast
  <2> QED
    BY <1>9, <2>5, <2>7
<1> QED
  BY <1>8, <1>10 DEF to

(* select_so: no answer is before the first child of s.                    *)
LEMMA SoStarts ==
  ASSUME NEW x, Describes(x), NEW line, NEW n, SortedLines(line, n), Rotated(line, n, x),
         NEW s \in 0 .. Len(x.t.first_pointers) - 2, NEW o \in Nat, NEW q, q.first = s, q.third = o,
         NEW m, Reached(line, n, Lower(o, s), m)
  PROVE  /\ SoGoes(x, select_so(x.t, q), o, s)
         /\ Reached(line, n, SoNext(x, select_so(x.t, q), o, s), m)
<1> DEFINE fp == x.t.first_pointers
           sp == x.t.second_pointers
           r == RangeAt(fp, s)
           children == RangeAt(sp, r.begin)
           second_it == SecondIterator(x.t, cursor(x.t.second_nodes, r, r.begin), s)
           third_it == ThirdIterator(x.t, cursor(x.t.third_nodes, children, children.begin), r.begin)
           iter == select_so(x.t, q)
<1>1. iter = [kind |-> "iterator_so", i |-> 0, size |-> r.end - r.begin, second |-> second_it,
            third |-> third_it, val |-> Triplet(o, s, second_it.node)]
  BY Zenon DEF select_so
<1>2. /\ WellFormedRanges(x.second_nodes, fp) /\ Len(x.second_nodes) \in Nat
  BY LevelsDescribed DEF LevelsOf
<1>3. /\ fp[s + 1] \in Nat /\ fp[s + 2] \in Nat /\ fp[s + 1] < fp[s + 2] /\ s \in Nat
      /\ RangeAt(fp, s) = [begin |-> fp[s + 1], end |-> fp[s + 2]]
  <2>1. /\ fp[s + 1] \in 0 .. Len(x.second_nodes) - 1 /\ fp[s + 2] \in 1 .. Len(x.second_nodes)
        /\ fp[s + 1] < fp[s + 2] /\ RangeAt(fp, s) = [begin |-> fp[s + 1], end |-> fp[s + 2]]
    BY <1>2, RangeIn
  <2> QED
    BY <1>2, <2>1
<1>4. r.begin = fp[s + 1] /\ r.end = fp[s + 2] /\ Positions(r) = fp[s + 1] .. fp[s + 2] - 1
  BY <1>3 DEF Positions
<1>5. PICK j \in Positions(r) : j = r.begin
  BY <1>3, <1>4
<1>6. children.begin = sp[j + 1]
  BY <1>5 DEF RangeAt
<1>7. /\ InLevel(x.e2, x.second_nodes, fp, second_it, s, j) /\ OnTrack(fp, second_it, s, j)
      /\ InRange(sp, third_it, j)
  <2>1. LET second_at == SecondIterator(x.t, cursor(x.t.second_nodes, r, j), s)
            third_at == ThirdIterator(x.t, cursor(x.t.third_nodes, children, children.begin), j)
        IN  /\ OnPath(x.t, s, j, children.begin)
            /\ InLevel(x.e2, x.second_nodes, fp, second_at, s, j)
            /\ j = fp[s + 1] => OnTrack(fp, second_at, s, j)
            /\ InLevel(x.e3, x.third_nodes, sp, third_at, j, children.begin)
            /\ OnTrack(sp, third_at, j, children.begin)
    <3>1. r.begin = fp[s + 1] /\ j \in Positions(RangeAt(fp, s))
      BY <1>4
    <3> HIDE DEF r, children
    <3> QED
      BY <1>6, <3>1, IteratorsPlaced
  <2> HIDE DEF r, children
  <2>2. InRange(sp, ThirdIterator(x.t, cursor(x.t.third_nodes, children, children.begin), j), j)
    BY <2>1 DEF InLevel
  <2> QED
    BY <1>4, <1>5, <2>1, <2>2
<1> HIDE DEF second_it, third_it
<1>8. /\ Record(iter, IteratorFields) /\ iter.kind = "iterator_so" /\ iter.i = 0
      /\ iter.size = fp[s + 2] - fp[s + 1] /\ iter.second = second_it /\ iter.third = third_it
      /\ iter.val = Triplet(o, s, second_it.node)
  BY <1>1, <1>4 DEF Record, IteratorFields
<1>9. Record(iter.val, ValFields) /\ iter.val.first = o /\ iter.val.second = s
  BY <1>8 DEF Record, ValFields, Triplet
<1> HIDE DEF iter, r
<1>10. iter.i \in 0 .. iter.size /\ iter.i < iter.size /\ fp[s + 1] + iter.i = j
  <2>1. PICK lo, hi : lo = fp[s + 1] /\ hi = fp[s + 2]
    OBVIOUS
  <2>2. lo \in Nat /\ hi \in Nat /\ lo < hi /\ j = lo
    BY <1>3, <1>4, <1>5, <2>1
  <2>3. iter.i = 0 /\ iter.size = hi - lo
    BY <1>8, <2>1
  <2> QED
    BY <2>1, <2>2, <2>3
<1>11. SoGoes(x, iter, o, s)
  <2>1. SoPlaced(x, iter, s, fp[s + 1] + iter.i)
    BY <1>7, <1>8, <1>10 DEF SoPlaced
  <2> QED
    BY <1>8, <1>9, <1>10, <2>1 DEF SoGoes
<1>12. SoNext(x, iter, o, s) = Triplet(o, s, x.second_nodes[j + 1])
  BY <1>10 DEF SoNext
<1>13. ASSUME NEW k \in 1 .. n
       PROVE  Precedes(line[k], Triplet(o, s, x.second_nodes[j + 1])) <=> Precedes(line[k], Lower(o, s))
  <2>1. line[k] \in [first : Nat, second : Nat, third : Nat]
    BY DEF SortedLines
  <2>2. ASSUME line[k].first = o, line[k].second = s
        PROVE  ~ (line[k].third < x.second_nodes[j + 1])
    <3>1. PICK c \in Positions(RangeAt(fp, s)) : x.second_nodes[c + 1] = line[k].third
      BY <2>2, SoLines
    <3>2. x.second_nodes[c + 1] < x.second_nodes[j + 1] <=> c < j
      BY <1>2, ChildrenInOrder DEF r
    <3>3. ~ (c < j)
      BY <1>3, <1>4, <1>5 DEF r
    <3> QED
      BY <3>1, <3>2, <3>3
  <2>3. s # wildcard_symbol /\ s \in Nat
    BY <1>3 DEF wildcard_symbol
  <2>4. Precedes(line[k], Lower(o, s)) <=> (line[k].first < o \/ (line[k].first = o /\ line[k].second < s))
    BY <2>1, <2>3 DEF Lower, Precedes, Triplet
  <2>5. Precedes(line[k], Triplet(o, s, x.second_nodes[j + 1]))
          <=> (\/ line[k].first < o \/ (line[k].first = o /\ line[k].second < s)
               \/ line[k].first = o /\ line[k].second = s /\ line[k].third < x.second_nodes[j + 1])
    BY DEF Precedes, Triplet
  <2> QED
    BY <2>2, <2>4, <2>5
<1>14. n \in Nat
  BY DEF SortedLines
<1>15. Reached(line, n, Triplet(o, s, x.second_nodes[j + 1]), m)
  BY <1>13, <1>14, ReachedAlike
<1> QED
  BY <1>11, <1>12, <1>15 DEF iter

(* There is a triplet to read, and val is that triplet.                    *)
SoReady(x, iter, o) ==
  /\ iter.i < iter.size
  /\ find_node(x.t.third_nodes, pointer(iter.third), o) # not_found
  /\ iter.val.third = iter.second.node

(* has_next: the end, or another try, or a triplet.                        *)
LEMMA SoTurns ==
  ASSUME NEW x, Describes(x), x.e3 \notin {"pef", "vb"}, x.t.mapper = identity_mapper,
         NEW line, NEW n, SortedLines(line, n), Rotated(line, n, x),
         NEW iter, NEW o, NEW s, SoGoes(x, iter, o, s), NEW m, Reached(line, n, SoNext(x, iter, o, s), m)
  PROVE  LET turn == iterator_so_has_next(x.t, iter)
         IN  \/ turn = Turn(iter, "no") /\ Reached(line, n, Upper(o, s), m)
             \/ /\ turn.answer \in {"again", "yes"}
                /\ SoGoes(x, turn.it, o, s) /\ Reached(line, n, SoNext(x, turn.it, o, s), m)
                /\ turn.answer = "yes" => SoReady(x, turn.it, o)
<1> DEFINE tried == [iter EXCEPT !.val.third = iter.second.node]
           turn == iterator_so_has_next(x.t, iter)
<1>1. /\ Record(iter, IteratorFields) /\ iter.kind = "iterator_so" /\ iter.i \in 0 .. iter.size
      /\ s \in 0 .. Len(x.t.first_pointers) - 2 /\ o \in Nat
      /\ iter.size = x.t.first_pointers[s + 2] - x.t.first_pointers[s + 1]
      /\ Record(iter.val, ValFields) /\ iter.val.first = o /\ iter.val.second = s
      /\ iter.i < iter.size => SoPlaced(x, iter, s, x.t.first_pointers[s + 1] + iter.i)
  BY DEF SoGoes
<1>2. iter.i \in Nat /\ iter.size \in Nat /\ s \in Nat
  BY SoChild
<1>3. CASE ~ (iter.i < iter.size)
  <2>1. turn = Turn(iter, "no")
    <3>1. iter.i >= iter.size
      BY <1>2, <1>3
    <3> QED
      BY <3>1, Zenon DEF iterator_so_has_next
  <2>2. SoNext(x, iter, o, s) = Upper(o, s)
    BY <1>2, <1>3 DEF SoNext, Upper, wildcard_symbol
  <2> QED
    BY <2>1, <2>2
<1>4. CASE iter.i < iter.size
  <2>1. /\ Record(tried, IteratorFields) /\ tried.kind = iter.kind /\ tried.i = iter.i /\ tried.size = iter.size
        /\ tried.second = iter.second /\ tried.third = iter.third
        /\ tried.val = [iter.val EXCEPT !.third = iter.second.node]
    BY <1>1 DEF Record, IteratorFields
  <2>2. /\ Record(tried.val, ValFields) /\ tried.val.first = o /\ tried.val.second = s
        /\ tried.val.third = iter.second.node
    BY <1>1, <2>1 DEF Record, ValFields
  <2>3. turn = IF find_node(x.t.third_nodes, pointer(iter.third), o) # not_found
               THEN Turn(tried, "yes") ELSE Turn(iterator_so_next(x.t, tried), "again")
    <3>1. ~ (iter.i >= iter.size)
      BY <1>2, <1>4
    <3>2. turn = IF find_node(x.t.third_nodes, pointer(iter.third), iter.val.first) # not_found
                 THEN Turn(tried, "yes") ELSE Turn(iterator_so_next(x.t, tried), "again")
      BY <3>1, Zenon DEF iterator_so_has_next
    <3> QED
      BY <1>1, <3>2
  <2> HIDE DEF tried, turn
  <2>4. SoPlaced(x, tried, s, x.t.first_pointers[s + 1] + tried.i)
    BY <1>1, <1>4, <2>1 DEF SoPlaced
  <2>5. SoGoes(x, tried, o, s)
    BY <1>1, <2>1, <2>2, <2>4 DEF SoGoes
  <2>6. SoNext(x, tried, o, s) = SoNext(x, iter, o, s)
    BY <2>1 DEF SoNext
  <2>7. CASE find_node(x.t.third_nodes, pointer(iter.third), o) # not_found
    <3>1. turn.answer = "yes" /\ turn.it = tried
      BY <2>3, <2>7 DEF Turn
    <3>2. SoReady(x, tried, o)
      BY <1>4, <2>1, <2>2, <2>7 DEF SoReady
    <3> QED
      BY <2>5, <2>6, <3>1, <3>2 DEF turn
  <2>8. CASE find_node(x.t.third_nodes, pointer(iter.third), o) = not_found
    <3>1. turn.answer = "again" /\ turn.it = iterator_so_next(x.t, tried)
      BY <2>3, <2>8 DEF Turn
    <3>2. ~ \E i \in 1 .. n : line[i] = SoNext(x, tried, o, s)
      BY <1>4, <2>1, <2>5, <2>8, SoFinds
    <3>3. /\ SoGoes(x, iterator_so_next(x.t, tried), o, s)
          /\ \A i \in 1 .. n : Precedes(line[i], SoNext(x, iterator_so_next(x.t, tried), o, s))
               <=> Precedes(line[i], SoNext(x, tried, o, s)) \/ line[i] = SoNext(x, tried, o, s)
      BY <1>4, <2>1, <2>5, SoMoves
    <3>4. n \in Nat
      BY DEF SortedLines
    <3>5. Reached(line, n, SoNext(x, iterator_so_next(x.t, tried), o, s), m)
      BY <2>6, <3>2, <3>3, <3>4, ReachedAlike
    <3> QED
      BY <3>1, <3>3, <3>5 DEF turn
  <2> QED
    BY <2>7, <2>8
<1> QED
  BY <1>3, <1>4

(* When there is one, has_next says so again, val is the next line, and ++ *)
(* goes past it.                                                           *)
LEMMA SoAnswers ==
  ASSUME NEW x, Describes(x), x.e3 \notin {"pef", "vb"}, x.t.mapper = identity_mapper,
         NEW line, NEW n, SortedLines(line, n), Rotated(line, n, x),
         NEW iter, NEW o, NEW s, SoGoes(x, iter, o, s), NEW m, Reached(line, n, SoNext(x, iter, o, s), m),
         SoReady(x, iter, o)
  PROVE  /\ iterator_so_has_next(x.t, iter) = Turn(iter, "yes")
         /\ m + 1 \in 1 .. n /\ line[m + 1] = iter.val
         /\ Answers(iter.val, o, s)
         /\ SoGoes(x, iterator_so_next(x.t, iter), o, s)
         /\ Reached(line, n, SoNext(x, iterator_so_next(x.t, iter), o, s), m + 1)
<1>1. /\ Record(iter, IteratorFields) /\ Record(iter.val, ValFields)
      /\ iter.val.first = o /\ iter.val.second = s
      /\ iter.i < iter.size => SoPlaced(x, iter, s, x.t.first_pointers[s + 1] + iter.i)
  BY DEF SoGoes
<1>2. /\ iter.i < iter.size /\ iter.val.third = iter.second.node
      /\ find_node(x.t.third_nodes, pointer(iter.third), o) # not_found
  BY DEF SoReady
<1>3. iterator_so_has_next(x.t, iter) = Turn(iter, "yes")
  <2>1. ~ (iter.i >= iter.size)
    BY <1>2, SoChild
  <2>2. iterator_so_has_next(x.t, iter) = Turn([iter EXCEPT !.val.third = iter.second.node], "yes")
    BY <1>1, <1>2, <2>1, Zenon DEF iterator_so_has_next
  <2>3. [iter EXCEPT !.val.third = iter.val.third] = iter
    BY <1>1, SameRecord DEF IteratorFields
  <2> QED
    BY <1>2, <2>2, <2>3
<1>4. iter.val = SoNext(x, iter, o, s)
  <2>1. iter.second.node = x.second_nodes[x.t.first_pointers[s + 1] + iter.i + 1]
    BY <1>1, <1>2 DEF SoPlaced, InLevel
  <2>2. iter.val = Triplet(o, s, iter.second.node)
    BY <1>1, <1>2 DEF Record, ValFields, Triplet
  <2> QED
    BY <1>2, <2>1, <2>2 DEF SoNext
<1>5. PICK i \in 1 .. n : line[i] = SoNext(x, iter, o, s)
  BY <1>2, SoFinds
<1>6. /\ SoGoes(x, iterator_so_next(x.t, iter), o, s)
      /\ \A k \in 1 .. n : Precedes(line[k], SoNext(x, iterator_so_next(x.t, iter), o, s))
           <=> Precedes(line[k], line[i]) \/ line[k] = line[i]
  BY <1>2, <1>5, SoMoves
<1>7. /\ m + 1 = i /\ Reached(line, n, SoNext(x, iterator_so_next(x.t, iter), o, s), m + 1)
  BY <1>5, <1>6, ReachedNext
<1>8. Answers(iter.val, o, s)
  BY <1>1 DEF Answers
<1> QED
  BY <1>3, <1>4, <1>5, <1>6, <1>7, <1>8

-----------------------------------------------------------------------------
(* iterator_po and iterator_p. line lists the triplets of x.line with the  *)
(* first two ids swapped: (p, o, s) as (o, p, s), (s, p, o) as (p, s, o).  *)
Swapped(line, n, x) ==
  \A a, b, c \in Nat :
    (\E i \in 1 .. n : line[i] = Triplet(a, b, c))
      <=> (\E i \in 1 .. x.n : x.line[i] = Triplet(b, a, c))

(* The lines of a pair (a, b) are the children of the node at pos.         *)
GroupAt(x, line, n, a, b, pos) ==
  /\ a \in Nat /\ b \in Nat /\ pos \in 0 .. Len(x.t.second_pointers) - 2
  /\ \A k \in Positions(RangeAt(x.t.second_pointers, pos)) :
       \E i \in 1 .. n : line[i] = Triplet(a, b, x.third_nodes[k + 1])
  /\ \A i \in 1 .. n : line[i].first = a /\ line[i].second = b =>
       \E k \in Positions(RangeAt(x.t.second_pointers, pos)) : x.third_nodes[k + 1] = line[i].third

(* The node of the second level for a pair (b, a) has the lines of (a, b). *)
LEMMA GroupOfPair ==
  ASSUME NEW x, Describes(x), x.t.mapper = identity_mapper,
         NEW line, NEW n, SortedLines(line, n), Swapped(line, n, x),
         NEW b \in 0 .. Len(x.t.first_pointers) - 2,
         NEW pos \in Positions(RangeAt(x.t.first_pointers, b)), NEW a, x.second_nodes[pos + 1] = a
  PROVE  GroupAt(x, line, n, a, b, pos)
<1> DEFINE fp == x.t.first_pointers
           sp == x.t.second_pointers
<1>1. /\ WellFormedRanges(x.second_nodes, fp) /\ WellFormedRanges(x.third_nodes, sp)
      /\ Len(sp) = Len(x.second_nodes) + 1 /\ Len(x.second_nodes) \in Nat
      /\ x.line \in [1 .. x.n -> IdTriplets]
  BY LevelsDescribed DEF LevelsOf, IdTriplets
<1>2. a \in Nat /\ b \in Nat /\ pos \in 0 .. Len(sp) - 2
  <2>1. pos \in 0 .. Len(x.second_nodes) - 1 /\ x.second_nodes[pos + 1] \in Nat
    BY <1>1, RangeIn
  <2> QED
    BY <1>1, <2>1
<1>3. \A l : map(x.t.mapper, l) = l.third
  BY DEF map, identity_mapper
<1>4. ASSUME NEW k \in Positions(RangeAt(sp, pos))
      PROVE  \E i \in 1 .. n : line[i] = Triplet(a, b, x.third_nodes[k + 1])
  <2>1. OnPath(x.t, b, pos, k)
    BY DEF OnPath
  <2>2. PathFacts(x.t, x.second_nodes, x.third_nodes, x.line, x.n, b, pos, k)
    BY <2>1, PathHolds DEF Describes
  <2>3. /\ k + 1 \in 1 .. x.n /\ x.line[k + 1].first = b /\ x.line[k + 1].second = a
        /\ x.third_nodes[k + 1] = x.line[k + 1].third
    BY <1>3, <2>2 DEF PathFacts, LineOfPath
  <2>4. x.line[k + 1] = Triplet(b, a, x.third_nodes[k + 1]) /\ x.third_nodes[k + 1] \in Nat
    BY <1>1, <2>3 DEF IdTriplets, Triplet
  <2>5. PICK c \in Nat : c = x.third_nodes[k + 1]
    BY <2>4
  <2>6. \E i \in 1 .. x.n : x.line[i] = Triplet(b, a, c)
    BY <2>3, <2>4, <2>5
  <2>7. (\E i \in 1 .. n : line[i] = Triplet(a, b, c))
          <=> \E i \in 1 .. x.n : x.line[i] = Triplet(b, a, c)
    <3>1. a \in Nat /\ b \in Nat /\ c \in Nat
      BY <1>2
    <3> QED
      BY Zenon, <3>1 DEF Swapped
  <2> QED
    BY <2>5, <2>6, <2>7
<1>5. ASSUME NEW i \in 1 .. n, line[i].first = a, line[i].second = b
      PROVE  \E k \in Positions(RangeAt(sp, pos)) : x.third_nodes[k + 1] = line[i].third
  <2>1. line[i] \in IdTriplets
    BY DEF SortedLines, IdTriplets
  <2>2. PICK c \in Nat : c = line[i].third /\ line[i] = Triplet(a, b, c)
    BY <1>5, <2>1 DEF IdTriplets, Triplet
  <2>3. PICK h \in 1 .. x.n : x.line[h] = Triplet(b, a, c)
    <3>1. \E g \in 1 .. n : line[g] = Triplet(a, b, c)
      BY <2>2
    <3> QED
      BY <1>2, <3>1 DEF Swapped
  <2>4. PICK f, j, k : /\ OnPath(x.t, f, j, k) /\ f = x.line[h].first
                       /\ x.second_nodes[j + 1] = x.line[h].second
                       /\ x.third_nodes[k + 1] = map(x.t.mapper, x.line[h])
    BY WayToLine
  <2>5. f = b /\ x.second_nodes[j + 1] = a /\ x.third_nodes[k + 1] = c
    BY <1>3, <2>3, <2>4 DEF Triplet
  <2>6. j \in Positions(RangeAt(fp, b)) /\ k \in Positions(RangeAt(sp, j))
    BY <2>4, <2>5 DEF OnPath
  <2>7. j = pos
    <3> HIDE DEF fp
    <3>1. x.second_nodes[j + 1] = x.second_nodes[pos + 1] <=> j = pos
      BY <1>1, <2>6, ChildrenInOrder DEF fp
    <3> QED
      BY <2>5, <3>1
  <2> QED
    BY <2>2, <2>5, <2>6, <2>7
<1> QED
  BY <1>2, <1>4, <1>5 DEF GroupAt

(* The children of a node, in the order of the lines.                      *)
GroupOrder(x, pos) ==
  LET sp == x.t.second_pointers
  IN  /\ sp[pos + 1] \in Nat /\ sp[pos + 2] \in Nat /\ sp[pos + 1] < sp[pos + 2]
      /\ RangeAt(sp, pos) = [begin |-> sp[pos + 1], end |-> sp[pos + 2]]
      /\ Positions(RangeAt(sp, pos)) = sp[pos + 1] .. sp[pos + 2] - 1
      /\ \A h \in Positions(RangeAt(sp, pos)) : h \in Nat /\ x.third_nodes[h + 1] \in Nat
      /\ \A h, k \in Positions(RangeAt(sp, pos)) :
           /\ x.third_nodes[h + 1] < x.third_nodes[k + 1] <=> h < k
           /\ x.third_nodes[h + 1] = x.third_nodes[k + 1] <=> h = k

(* The third nodes of a second node are told apart and ordered.            *)
LEMMA GroupInOrder ==
  ASSUME NEW x, Describes(x), NEW line, NEW n, NEW a, NEW b, NEW pos, GroupAt(x, line, n, a, b, pos)
  PROVE  GroupOrder(x, pos)
<1> DEFINE sp == x.t.second_pointers
<1>1. WellFormedRanges(x.third_nodes, sp) /\ pos \in 0 .. Len(sp) - 2
  BY LevelsDescribed DEF LevelsOf, GroupAt
<1> HIDE DEF sp
<1>2. /\ sp[pos + 1] \in Nat /\ sp[pos + 2] \in Nat /\ sp[pos + 1] < sp[pos + 2]
      /\ RangeAt(sp, pos) = [begin |-> sp[pos + 1], end |-> sp[pos + 2]]
  <2>1. /\ sp[pos + 1] \in 0 .. Len(x.third_nodes) - 1 /\ sp[pos + 2] \in 1 .. Len(x.third_nodes)
        /\ sp[pos + 1] < sp[pos + 2] /\ Len(x.third_nodes) \in Nat
        /\ RangeAt(sp, pos) = [begin |-> sp[pos + 1], end |-> sp[pos + 2]]
    BY <1>1, RangeIn
  <2>2. sp[pos + 1] \in Nat /\ sp[pos + 2] \in Nat
    BY <2>1
  <2> QED
    BY <2>1, <2>2
<1>3. Positions(RangeAt(sp, pos)) = sp[pos + 1] .. sp[pos + 2] - 1
  BY <1>2 DEF Positions
<1>4. \A h, k \in Positions(RangeAt(sp, pos)) :
        /\ x.third_nodes[h + 1] < x.third_nodes[k + 1] <=> h < k
        /\ x.third_nodes[h + 1] = x.third_nodes[k + 1] <=> h = k
        /\ h \in Nat /\ x.third_nodes[h + 1] \in Nat
  BY <1>1, ChildrenInOrder
<1> QED
  BY <1>2, <1>3, <1>4 DEF GroupOrder, sp

(* No line of the pair comes before its first one.                         *)
LEMMA GroupStarts ==
  ASSUME NEW x, Describes(x), NEW line, NEW n, SortedLines(line, n),
         NEW a, NEW b, NEW pos, GroupAt(x, line, n, a, b, pos), NEW i \in 1 .. n
  PROVE  Precedes(line[i], Triplet(a, b, x.third_nodes[x.t.second_pointers[pos + 1] + 1]))
           <=> Precedes(line[i], Triplet(a, b, 0))
<1> DEFINE sp == x.t.second_pointers
<1>1. line[i].first \in Nat /\ line[i].second \in Nat /\ line[i].third \in Nat
  BY DEF SortedLines
<1>2. a \in Nat /\ b \in Nat
  BY DEF GroupAt
<1>3. PICK k : k = sp[pos + 1]
  OBVIOUS
<1>4. /\ k \in Positions(RangeAt(sp, pos)) /\ x.third_nodes[k + 1] \in Nat
      /\ \A h \in Positions(RangeAt(sp, pos)) :
           ~ (h < k) /\ (x.third_nodes[h + 1] < x.third_nodes[k + 1] <=> h < k)
  <2>0. GroupOrder(x, pos)
    BY GroupInOrder
  <2>1. /\ sp[pos + 1] \in Nat /\ sp[pos + 2] \in Nat /\ sp[pos + 1] < sp[pos + 2]
        /\ Positions(RangeAt(sp, pos)) = sp[pos + 1] .. sp[pos + 2] - 1
    BY <2>0 DEF GroupOrder
  <2>2. k \in Positions(RangeAt(sp, pos)) /\ \A h \in Positions(RangeAt(sp, pos)) : ~ (h < k)
    BY <1>3, <2>1
  <2> QED
    BY <2>0, <2>2 DEF GroupOrder
<1>5. ASSUME line[i].first = a, line[i].second = b
      PROVE  ~ (line[i].third < x.third_nodes[k + 1])
  <2>1. PICK h \in Positions(RangeAt(sp, pos)) : x.third_nodes[h + 1] = line[i].third
    BY <1>5 DEF GroupAt
  <2> QED
    BY <1>4, <2>1
<1>6. Precedes(line[i], Triplet(a, b, x.third_nodes[k + 1]))
        <=> \/ line[i].first < a \/ (line[i].first = a /\ line[i].second < b)
            \/ line[i].first = a /\ line[i].second = b /\ line[i].third < x.third_nodes[k + 1]
  BY DEF Precedes, Triplet
<1>7. Precedes(line[i], Triplet(a, b, 0))
        <=> (line[i].first < a \/ (line[i].first = a /\ line[i].second < b))
  BY <1>1 DEF Precedes, Triplet
<1> QED
  BY <1>3, <1>5, <1>6, <1>7

(* Past a child is the next one, or what follows the pair.                 *)
LEMMA GroupMoves ==
  ASSUME NEW x, Describes(x), NEW line, NEW n, SortedLines(line, n),
         NEW a, NEW b, NEW pos, GroupAt(x, line, n, a, b, pos),
         NEW k \in Positions(RangeAt(x.t.second_pointers, pos)), NEW v,
         v = IF k + 1 < x.t.second_pointers[pos + 2] THEN Triplet(a, b, x.third_nodes[k + 2])
             ELSE Triplet(a, b + 1, 0),
         NEW i \in 1 .. n
  PROVE  Precedes(line[i], v) <=> \/ Precedes(line[i], Triplet(a, b, x.third_nodes[k + 1]))
                                  \/ line[i] = Triplet(a, b, x.third_nodes[k + 1])
<1> DEFINE sp == x.t.second_pointers
           group == Positions(RangeAt(sp, pos))
<1>1. PICK l \in IdTriplets : l = line[i]
  BY DEF SortedLines, IdTriplets
<1>2. a \in Nat /\ b \in Nat
  BY DEF GroupAt
<1>3. /\ sp[pos + 1] \in Nat /\ sp[pos + 2] \in Nat
      /\ group = sp[pos + 1] .. sp[pos + 2] - 1
      /\ \A h \in group : h \in Nat /\ x.third_nodes[h + 1] \in Nat
      /\ \A h, g \in group : /\ x.third_nodes[h + 1] < x.third_nodes[g + 1] <=> h < g
                             /\ x.third_nodes[h + 1] = x.third_nodes[g + 1] <=> h = g
  <2>1. GroupOrder(x, pos)
    BY GroupInOrder
  <2> QED
    BY <2>1 DEF GroupOrder
<1>4. l.first = a /\ l.second = b => \E h \in group : x.third_nodes[h + 1] = l.third
  BY <1>1 DEF GroupAt
<1> HIDE DEF group, sp
<1>5. PICK c \in Nat : c = x.third_nodes[k + 1] /\ k \in group /\ k \in Nat
  BY <1>3 DEF group, sp
<1>6. \A h \in group : x.third_nodes[h + 1] <= c <=> h <= k
  <2> TAKE h \in group
  <2>1. /\ x.third_nodes[h + 1] < c <=> h < k
        /\ x.third_nodes[h + 1] = c <=> h = k
        /\ x.third_nodes[h + 1] \in Nat /\ h \in Nat
    BY <1>3, <1>5
  <2> QED
    BY <1>5, <2>1
<1>7. CASE k + 1 < sp[pos + 2]
  <2>1. PICK g \in group : g = k + 1 /\ g + 1 = k + 2
    BY <1>3, <1>5, <1>7
  <2>2. PICK q \in Nat : q = x.third_nodes[g + 1]
    BY <1>3
  <2>3. v = Triplet(a, b, q)
    BY <1>7, <2>1, <2>2 DEF sp
  <2>4. \A h \in group : x.third_nodes[h + 1] < q <=> h <= k
    <3> TAKE h \in group
    <3>1. (x.third_nodes[h + 1] < q <=> h < g) /\ h \in Nat
      BY <1>3, <2>2
    <3> QED
      BY <1>5, <2>1, <3>1
  <2>5. l.first = a /\ l.second = b => (l.third < q <=> l.third <= c)
    BY <1>4, <1>6, <2>4
  <2>6. JustPast(v, a, b, c, l)
    BY <2>3, <2>5 DEF JustPast
  <2> QED
    BY <1>1, <1>2, <1>5, <2>6, ComparedPast
<1>8. CASE ~ (k + 1 < sp[pos + 2])
  <2>1. v = Triplet(a, b + 1, 0)
    BY <1>8 DEF sp
  <2>2. \A h \in group : h <= k
    BY <1>3, <1>5, <1>8
  <2>3. l.first = a /\ l.second = b => l.third <= c
    BY <1>4, <1>6, <2>2
  <2>4. JustPast(v, a, b, c, l)
    BY <2>1, <2>3 DEF JustPast
  <2> QED
    BY <1>1, <1>2, <1>5, <2>4, ComparedPast
<1> QED
  BY <1>7, <1>8

(* iterator_po and iterator_p among the lines of a pair: at the j-th child *)
(* of its node.                                                            *)
PairFields == {"kind", "i", "j", "size", "range_len", "second", "third", "val"}

Within(x, iter, a, b, pos) ==
  LET sp == x.t.second_pointers
  IN  /\ iter.val.first = a /\ iter.val.second = b
      /\ iter.j \in Nat /\ iter.j < iter.range_len
      /\ iter.range_len = sp[pos + 2] - sp[pos + 1]
      /\ InLevel(x.e3, x.third_nodes, sp, iter.third, pos, sp[pos + 1] + iter.j)
      /\ OnTrack(sp, iter.third, pos, sp[pos + 1] + iter.j)

(* What ++ leaves alone.                                                   *)
SameBut(to, iter) ==
  /\ to.kind = iter.kind /\ to.i = iter.i /\ to.size = iter.size /\ to.range_len = iter.range_len
  /\ to.second = iter.second

(* It is on the next line, and ++ goes to the next child or past the pair. *)
LEMMA PairAnswers ==
  ASSUME NEW x, Describes(x), NEW line, NEW n, SortedLines(line, n),
         NEW a, NEW b, NEW pos, GroupAt(x, line, n, a, b, pos),
         NEW iter, Record(iter, PairFields), Within(x, iter, a, b, pos),
         NEW m, Reached(line, n, Triplet(a, b, iter.third.node), m)
  PROVE  LET to == iterator_po_next(x.t, iter)
         IN  /\ m + 1 \in 1 .. n /\ line[m + 1] = Triplet(a, b, iter.third.node)
             /\ Record(to, PairFields) /\ SameBut(to, iter) /\ to.val = iter.val
             /\ to.j = iter.j + 1 /\ to.j \in Nat
             /\ to.j < to.range_len => /\ Within(x, to, a, b, pos)
                                       /\ Reached(line, n, Triplet(a, b, to.third.node), m + 1)
             /\ ~ (to.j < to.range_len) => Reached(line, n, Triplet(a, b + 1, 0), m + 1)
<1> DEFINE sp == x.t.second_pointers
           to == iterator_po_next(x.t, iter)
<1>1. /\ WellFormedRanges(x.third_nodes, sp) /\ x.e3 \in Encodings(x.third_nodes)
      /\ x.t.third_nodes = build(x.e3, x.third_nodes, sp)
  BY LevelsDescribed DEF LevelsOf
<1>2. pos \in 0 .. Len(sp) - 2
  BY DEF GroupAt
<1>3. /\ sp[pos + 1] \in Nat /\ sp[pos + 2] \in Nat
      /\ Positions(RangeAt(sp, pos)) = sp[pos + 1] .. sp[pos + 2] - 1
  <2>1. GroupOrder(x, pos)
    BY GroupInOrder
  <2> QED
    BY <2>1 DEF GroupOrder
<1>4. /\ iter.val.first = a /\ iter.val.second = b
      /\ iter.j \in Nat /\ iter.j < iter.range_len /\ iter.range_len = sp[pos + 2] - sp[pos + 1]
      /\ InLevel(x.e3, x.third_nodes, sp, iter.third, pos, sp[pos + 1] + iter.j)
      /\ OnTrack(sp, iter.third, pos, sp[pos + 1] + iter.j)
  BY DEF Within
<1>5. PICK lo, hi : lo = sp[pos + 1] /\ hi = sp[pos + 2]
  OBVIOUS
<1>6. PICK k : k = lo + iter.j
  OBVIOUS
<1>7. /\ k \in Nat /\ k \in lo .. hi - 1 /\ lo \in Nat /\ hi \in Nat
      /\ (iter.j + 1 < iter.range_len <=> k + 1 < hi) /\ lo + (iter.j + 1) = k + 1
      /\ (iter.j + 1 = iter.range_len <=> k + 1 = hi)
  <2>1. /\ lo \in Nat /\ hi \in Nat /\ iter.j \in Nat /\ iter.j < hi - lo /\ iter.range_len = hi - lo
    BY <1>3, <1>4, <1>5
  <2> QED
    BY <1>6, <2>1
<1>8. k \in Positions(RangeAt(sp, pos))
  BY <1>3, <1>5, <1>7
<1>9. iter.third.node = x.third_nodes[k + 1]
  BY <1>4, <1>5, <1>6 DEF InLevel
<1>10. PICK i \in 1 .. n : line[i] = Triplet(a, b, x.third_nodes[k + 1])
  BY <1>8 DEF GroupAt
<1>11. /\ Record(to, PairFields) /\ SameBut(to, iter) /\ to.val = iter.val
       /\ to.j = iter.j + 1 /\ to.j \in Nat
       /\ to.third = advance(x.t.third_nodes, sp, iter.third)
  <2>1. DOMAIN iter = PairFields
    BY RecordFields
  <2>2. to = [iter EXCEPT !.j = iter.j + 1, !.third = advance(x.t.third_nodes, sp, iter.third)]
    BY Zenon DEF iterator_po_next, advance_third
  <2> HIDE DEF to
  <2>3. Record(to, PairFields)
    BY <2>1, <2>2 DEF Record
  <2>4. to.j = iter.j + 1 /\ to.third = advance(x.t.third_nodes, sp, iter.third)
    BY <2>1, <2>2 DEF PairFields
  <2>5. SameBut(to, iter) /\ to.val = iter.val
    BY <2>1, <2>2 DEF PairFields, SameBut
  <2> QED
    BY <1>4, <2>3, <2>4, <2>5
<1> HIDE DEF to
<1>12. /\ k + 1 < sp[pos + 2] => /\ InLevel(x.e3, x.third_nodes, sp, to.third, pos, k + 1)
                                 /\ OnTrack(sp, to.third, pos, k + 1)
  <2>1. InLevel(x.e3, x.third_nodes, sp, iter.third, pos, k) /\ OnTrack(sp, iter.third, pos, k)
    BY <1>4, <1>5, <1>6
  <2>2. to.third = advance(build(x.e3, x.third_nodes, sp), sp, iter.third)
    BY <1>1, <1>11
  <2> HIDE DEF sp
  <2> QED
    BY <1>1, <1>2, <1>8, <2>1, <2>2, Advances
<1> DEFINE v == IF k + 1 < sp[pos + 2] THEN Triplet(a, b, x.third_nodes[k + 2])
                ELSE Triplet(a, b + 1, 0)
<1>13. \A h \in 1 .. n : Precedes(line[h], v) <=> Precedes(line[h], line[i]) \/ line[h] = line[i]
  BY <1>8, <1>10, GroupMoves
<1>14. Reached(line, n, line[i], m)
  BY <1>9, <1>10
<1> HIDE DEF v
<1>15. m + 1 = i /\ Reached(line, n, v, m + 1)
  BY <1>13, <1>14, ReachedNext
<1>16. ASSUME to.j < to.range_len
       PROVE  Within(x, to, a, b, pos) /\ Reached(line, n, Triplet(a, b, to.third.node), m + 1)
  <2>1. k + 1 < sp[pos + 2]
    BY <1>5, <1>7, <1>11, <1>16 DEF SameBut
  <2>2. /\ InLevel(x.e3, x.third_nodes, sp, to.third, pos, sp[pos + 1] + to.j)
        /\ OnTrack(sp, to.third, pos, sp[pos + 1] + to.j)
    BY <1>5, <1>7, <1>11, <1>12, <2>1
  <2>3. Within(x, to, a, b, pos)
    BY <1>4, <1>11, <1>16, <2>2 DEF Within, SameBut
  <2>4. to.third.node = x.third_nodes[k + 2]
    <3>1. to.third.node = x.third_nodes[(k + 1) + 1]
      BY <1>12, <2>1 DEF InLevel
    <3>2. (k + 1) + 1 = k + 2
      BY <1>7
    <3> QED
      BY <3>1, <3>2
  <2> QED
    BY <1>15, <2>1, <2>3, <2>4 DEF v
<1>17. ASSUME ~ (to.j < to.range_len) PROVE Reached(line, n, Triplet(a, b + 1, 0), m + 1)
  <2>1. ~ (k + 1 < sp[pos + 2])
    BY <1>5, <1>7, <1>11, <1>17 DEF SameBut
  <2> QED
    BY <1>15, <2>1 DEF v
<1> QED
  BY <1>9, <1>10, <1>11, <1>15, <1>16, <1>17 DEF to

(* What has_next sets when it goes into a pair.                            *)
EntersPair(x, iter, a, b, pos) ==
  LET r == RangeAt(x.t.second_pointers, pos)
  IN  /\ iter.val.first = a /\ iter.val.second = b /\ iter.j = 0
      /\ iter.range_len = r.end - r.begin
      /\ iter.third = ThirdIterator(x.t, cursor(x.t.third_nodes, r, r.begin), pos)

(* A pair that is gone into is at its first line.                          *)
LEMMA PairStarts ==
  ASSUME NEW x, Describes(x), NEW line, NEW n, SortedLines(line, n),
         NEW b \in 0 .. Len(x.t.first_pointers) - 2,
         NEW pos \in Positions(RangeAt(x.t.first_pointers, b)),
         NEW a, GroupAt(x, line, n, a, b, pos),
         NEW iter, EntersPair(x, iter, a, b, pos), NEW m, Reached(line, n, Triplet(a, b, 0), m)
  PROVE  Within(x, iter, a, b, pos) /\ Reached(line, n, Triplet(a, b, iter.third.node), m)
<1> DEFINE sp == x.t.second_pointers
           r == RangeAt(sp, pos)
<1>0. /\ iter.val.first = a /\ iter.val.second = b /\ iter.j = 0
      /\ iter.range_len = r.end - r.begin
      /\ iter.third = ThirdIterator(x.t, cursor(x.t.third_nodes, r, r.begin), pos)
  BY DEF EntersPair
<1>1. /\ sp[pos + 1] \in Nat /\ sp[pos + 2] \in Nat /\ sp[pos + 1] < sp[pos + 2]
      /\ r.begin = sp[pos + 1] /\ r.end = sp[pos + 2]
  <2>1. GroupOrder(x, pos)
    BY GroupInOrder
  <2> QED
    BY <2>1 DEF GroupOrder
<1>2. PICK lo, hi : lo = sp[pos + 1] /\ hi = sp[pos + 2]
  OBVIOUS
<1>3. iter.j \in Nat /\ iter.j < iter.range_len /\ iter.range_len = hi - lo /\ lo + iter.j = lo
  BY <1>0, <1>1, <1>2
<1>4. /\ InLevel(x.e3, x.third_nodes, sp, iter.third, pos, r.begin)
      /\ OnTrack(sp, iter.third, pos, r.begin)
  <2>1. LET third_it == ThirdIterator(x.t, cursor(x.t.third_nodes, r, r.begin), pos)
        IN  /\ InLevel(x.e3, x.third_nodes, sp, third_it, pos, r.begin)
            /\ OnTrack(sp, third_it, pos, r.begin)
    <3>1. [begin |-> x.t.first_pointers[b + 1]].begin = x.t.first_pointers[b + 1]
      OBVIOUS
    <3> HIDE DEF r
    <3> QED
      BY <1>1, <3>1, IteratorsPlaced
  <2> QED
    BY <1>0, <2>1
<1>5. Within(x, iter, a, b, pos)
  BY <1>0, <1>1, <1>2, <1>3, <1>4 DEF Within
<1>6. iter.third.node = x.third_nodes[sp[pos + 1] + 1]
  BY <1>1, <1>4 DEF InLevel
<1>7. n \in Nat
  BY DEF SortedLines
<1>8. Reached(line, n, Triplet(a, b, x.third_nodes[sp[pos + 1] + 1]), m)
  <2>1. \A i \in 1 .. n : Precedes(line[i], Triplet(a, b, x.third_nodes[sp[pos + 1] + 1]))
                            <=> Precedes(line[i], Triplet(a, b, 0))
    BY GroupStarts
  <2> QED
    BY <1>7, <2>1, ReachedAlike
<1> QED
  BY <1>5, <1>6, <1>8

(* The pair of a line is among the nodes of the second level.              *)
LEMMA PairOfLine ==
  ASSUME NEW x, Describes(x), NEW line, NEW n, SortedLines(line, n), Swapped(line, n, x), NEW i \in 1 .. n
  PROVE  /\ line[i].second \in 0 .. Len(x.t.first_pointers) - 2
         /\ \E j \in Positions(RangeAt(x.t.first_pointers, line[i].second)) :
              x.second_nodes[j + 1] = line[i].first
<1>1. PICK a \in Nat, b \in Nat, c \in Nat : line[i] = Triplet(a, b, c)
  <2>1. line[i] \in IdTriplets
    BY DEF SortedLines, IdTriplets
  <2> QED
    BY <2>1 DEF IdTriplets, Triplet
<1>2. PICK h \in 1 .. x.n : x.line[h] = Triplet(b, a, c)
  <2>1. \E g \in 1 .. n : line[g] = Triplet(a, b, c)
    BY <1>1
  <2> QED
    BY <2>1 DEF Swapped
<1>3. PICK f, j, k : /\ OnPath(x.t, f, j, k) /\ f = x.line[h].first
                     /\ x.second_nodes[j + 1] = x.line[h].second
  BY WayToLine
<1>4. line[i].first = a /\ line[i].second = b /\ x.line[h].first = b /\ x.line[h].second = a
  BY <1>1, <1>2 DEF Triplet
<1> QED
  BY <1>3, <1>4 DEF OnPath

(* * completes the triplet; asked again, it changes nothing.               *)
LEMMA PairReads ==
  ASSUME NEW iter, Record(iter, PairFields), Record(iter.val, ValFields)
  PROVE  LET given == [iter EXCEPT !.val.third = iter.third.node]
         IN  /\ Record(given, PairFields) /\ Record(given.val, ValFields) /\ SameBut(given, iter)
             /\ given.j = iter.j /\ given.third = iter.third
             /\ given.val = Triplet(iter.val.first, iter.val.second, iter.third.node)
             /\ [given EXCEPT !.val.third = given.third.node] = given
<1> DEFINE given == [iter EXCEPT !.val.third = iter.third.node]
<1>1. DOMAIN iter = PairFields
  BY RecordFields
<1>2. /\ Record(given, PairFields) /\ SameBut(given, iter)
      /\ given.j = iter.j /\ given.third = iter.third
      /\ given.val = [iter.val EXCEPT !.third = iter.third.node]
  <2>1. Record(given, PairFields)
    BY <1>1 DEF Record
  <2>2. SameBut(given, iter) /\ given.j = iter.j /\ given.third = iter.third
    BY <1>1 DEF SameBut, PairFields
  <2>3. given.val = [iter.val EXCEPT !.third = iter.third.node]
    BY <1>1 DEF PairFields
  <2> QED
    BY <2>1, <2>2, <2>3
<1> HIDE DEF given
<1>3. /\ Record(given.val, ValFields)
      /\ given.val = Triplet(iter.val.first, iter.val.second, iter.third.node)
      /\ given.val.third = iter.third.node
  <2>1. DOMAIN iter.val = ValFields
    BY RecordFields
  <2>2. iter.val = [f \in ValFields |-> iter.val[f]]
    BY DEF Record
  <2>3. given.val = [f \in ValFields |-> IF f = "third" THEN iter.third.node ELSE iter.val[f]]
    BY <1>2, <2>2 DEF ValFields
  <2>4. given.val = Triplet(iter.val.first, iter.val.second, iter.third.node)
    BY <2>3 DEF Triplet, ValFields
  <2> QED
    BY <2>3, <2>4 DEF Record, ValFields, Triplet
<1>4. [given EXCEPT !.val.third = given.third.node] = given
  BY <1>2, <1>3, SameRecord DEF PairFields
<1> QED
  BY <1>2, <1>3, <1>4 DEF given

(* Where it is: on a line of a pair, or past it, with nothing left before  *)
(* (a, b, 0).                                                              *)
PairAt(x, iter, a) ==
  /\ iter.val.second \in 0 .. Len(x.t.first_pointers) - 2
  /\ \E pos \in Positions(RangeAt(x.t.first_pointers, iter.val.second)) :
       x.second_nodes[pos + 1] = a /\ Within(x, iter, a, iter.val.second, pos)

PairNext(iter, a, b) ==
  IF iter.j < iter.range_len THEN Triplet(a, iter.val.second, iter.third.node) ELSE Triplet(a, b, 0)

PairGoes(x, iter, a) ==
  /\ Record(iter, PairFields) /\ Record(iter.val, ValFields)
  /\ iter.val.first = a /\ a \in Nat /\ iter.j \in Nat /\ iter.range_len \in Nat
  /\ iter.j < iter.range_len => PairAt(x, iter, a)

(* A line of a pair is read, and the iterator goes on from it.             *)
LEMMA PairGoesOn ==
  ASSUME NEW x, Describes(x), x.t.mapper = identity_mapper,
         NEW line, NEW n, SortedLines(line, n), Swapped(line, n, x),
         NEW iter, NEW a, PairGoes(x, iter, a), iter.j < iter.range_len,
         NEW b, NEW m, Reached(line, n, PairNext(iter, a, b), m)
  PROVE  LET given == [iter EXCEPT !.val.third = iter.third.node]
             to == iterator_po_next(x.t, iter)
         IN  /\ m + 1 \in 1 .. n /\ line[m + 1] = given.val
             /\ PairGoes(x, given, a) /\ SameBut(given, iter)
             /\ given.val.second = iter.val.second
             /\ \A c : PairNext(given, a, c) = PairNext(iter, a, c)
             /\ given.j = iter.j /\ [given EXCEPT !.val.third = given.third.node] = given
             /\ PairGoes(x, to, a) /\ SameBut(to, iter) /\ to.val = iter.val
             /\ Reached(line, n, PairNext(to, a, iter.val.second + 1), m + 1)
<1> DEFINE given == [iter EXCEPT !.val.third = iter.third.node]
           to == iterator_po_next(x.t, iter)
<1>1. /\ Record(iter, PairFields) /\ Record(iter.val, ValFields)
      /\ iter.val.first = a /\ a \in Nat /\ iter.j \in Nat /\ iter.range_len \in Nat
      /\ PairAt(x, iter, a)
  BY DEF PairGoes
<1>2. iter.val.second \in 0 .. Len(x.t.first_pointers) - 2
  BY <1>1 DEF PairAt
<1>3. PICK pos \in Positions(RangeAt(x.t.first_pointers, iter.val.second)) :
        x.second_nodes[pos + 1] = a /\ Within(x, iter, a, iter.val.second, pos)
  BY <1>1 DEF PairAt
<1>4. GroupAt(x, line, n, a, iter.val.second, pos)
  BY <1>2, <1>3, GroupOfPair
<1>5. Reached(line, n, Triplet(a, iter.val.second, iter.third.node), m)
  BY DEF PairNext
<1>6. /\ Record(given, PairFields) /\ Record(given.val, ValFields) /\ SameBut(given, iter)
      /\ given.j = iter.j /\ given.third = iter.third
      /\ given.val = Triplet(iter.val.first, iter.val.second, iter.third.node)
      /\ [given EXCEPT !.val.third = given.third.node] = given
  BY <1>1, PairReads
<1>7. /\ m + 1 \in 1 .. n /\ line[m + 1] = Triplet(a, iter.val.second, iter.third.node)
      /\ Record(to, PairFields) /\ SameBut(to, iter) /\ to.val = iter.val
      /\ to.j = iter.j + 1 /\ to.j \in Nat
      /\ to.j < to.range_len => /\ Within(x, to, a, iter.val.second, pos)
                                /\ Reached(line, n, Triplet(a, iter.val.second, to.third.node), m + 1)
      /\ ~ (to.j < to.range_len) => Reached(line, n, Triplet(a, iter.val.second + 1, 0), m + 1)
  BY <1>1, <1>3, <1>4, <1>5, PairAnswers
<1> HIDE DEF given, to
<1>8. given.val.first = a /\ given.val.second = iter.val.second
  BY <1>1, <1>6 DEF Triplet
<1>9. PairGoes(x, given, a)
  <2>1. Within(x, given, a, given.val.second, pos)
    BY <1>3, <1>6, <1>8 DEF Within, SameBut
  <2>2. PairAt(x, given, a)
    BY <1>2, <1>3, <1>8, <2>1 DEF PairAt
  <2> QED
    BY <1>1, <1>6, <1>8, <2>2 DEF PairGoes, SameBut
<1>10. \A c : PairNext(given, a, c) = PairNext(iter, a, c)
  BY <1>6, <1>8 DEF PairNext, SameBut
<1>11. PairGoes(x, to, a)
  <2>1. to.j < to.range_len => PairAt(x, to, a)
    BY <1>2, <1>3, <1>7 DEF PairAt
  <2> QED
    BY <1>1, <1>7, <2>1 DEF PairGoes, SameBut
<1>12. Reached(line, n, PairNext(to, a, iter.val.second + 1), m + 1)
  BY <1>7 DEF PairNext
<1> QED
  BY <1>1, <1>6, <1>7, <1>8, <1>9, <1>10, <1>11, <1>12 DEF given, to

-----------------------------------------------------------------------------
(* iterator_po: at the i-th first id, having left the lines of those before *)
(* but what is left of the pair it is in.                                  *)
PoGoes(x, iter, o) ==
  /\ PairGoes(x, iter, o) /\ iter.kind = "iterator_po"
  /\ iter.size = Len(x.t.first_pointers) - 1 /\ iter.i \in 0 .. iter.size
  /\ iter.i < iter.size => InRange(x.t.first_pointers, iter.second, iter.i)
  /\ iter.j < iter.range_len => iter.i = iter.val.second + 1

PoNext(iter, o) == PairNext(iter, o, iter.i)

(* select_o: nothing is given yet.                                         *)
LEMMA PoStarts ==
  ASSUME NEW x, Describes(x), NEW o \in Nat, NEW q, q.second = o
  PROVE  PoGoes(x, select_o(x.t, q), o) /\ PoNext(select_o(x.t, q), o) = Lower(o, wildcard_symbol)
<1> DEFINE fp == x.t.first_pointers
           iter == select_o(x.t, q)
           second_it == SecondIterator(x.t, first_cursor(x.t.second_nodes), 0)
<1>1. iter = [kind |-> "iterator_po", i |-> 0, j |-> 0, size |-> Len(fp) - 1, range_len |-> 0,
            second |-> second_it, third |-> <<>>, val |-> Triplet(o, 0, 0)]
  BY Zenon DEF select_o
<1>2. /\ Len(fp) \in Nat /\ Len(fp) > 1 /\ fp[1] = 0
      /\ WellFormedRanges(x.second_nodes, fp) /\ x.e2 \in Encodings(x.second_nodes)
      /\ x.t.second_nodes = build(x.e2, x.second_nodes, fp)
  BY LevelsDescribed DEF LevelsOf, WellFormedRanges
<1>3. PICK f \in 0 .. Len(fp) - 2 : f = 0 /\ f + 1 = 1
  BY <1>2
<1>4. InRange(fp, second_it, 0)
  <2> DEFINE r == [begin |-> 0, end |-> 0]
  <2>1. PICK j \in Positions(RangeAt(fp, f)) : j = 0
    <3>1. /\ fp[f + 1] < fp[f + 2] /\ fp[f + 2] \in 1 .. Len(x.second_nodes)
          /\ RangeAt(fp, f) = [begin |-> fp[f + 1], end |-> fp[f + 2]] /\ Len(x.second_nodes) \in Nat
      BY <1>2, RangeIn
    <3>2. 0 \in Positions(RangeAt(fp, f))
      <4>1. PICK hi \in Nat : hi = fp[f + 2] /\ hi > 0
        BY <3>1
      <4>2. RangeAt(fp, f) = [begin |-> 0, end |-> hi]
        BY <1>2, <1>3, <3>1, <4>1
      <4> QED
        BY <4>1, <4>2 DEF Positions
    <3> QED
      BY <3>2
  <2>2. r.begin = fp[f + 1]
    BY <1>2, <1>3
  <2>3. second_it = level_iterator(build(x.e2, x.second_nodes, fp), fp,
                                   cursor(build(x.e2, x.second_nodes, fp), r, j), f)
    BY <1>2, <1>3, <2>1 DEF SecondIterator, first_cursor
  <2> HIDE DEF second_it, r
  <2>4. InLevel(x.e2, x.second_nodes, fp, second_it, f, j)
    BY <1>2, <2>2, <2>3, LevelStarts
  <2> QED
    BY <1>3, <2>4 DEF InLevel
<1> HIDE DEF second_it, fp
<1>5. /\ Record(iter, PairFields) /\ iter.kind = "iterator_po" /\ iter.size = Len(fp) - 1 /\ iter.i = 0
      /\ iter.j = 0 /\ iter.range_len = 0 /\ iter.second = second_it /\ iter.val = Triplet(o, 0, 0)
  BY <1>1 DEF Record, PairFields
<1>6. Record(iter.val, ValFields) /\ iter.val.first = o
  BY <1>5 DEF Record, ValFields, Triplet
<1> HIDE DEF iter
<1>7. PairGoes(x, iter, o)
  BY <1>5, <1>6 DEF PairGoes
<1>8. iter.i \in 0 .. iter.size
  BY <1>2, <1>5
<1>9. PoGoes(x, iter, o)
  BY <1>4, <1>5, <1>7, <1>8 DEF PoGoes, fp
<1>10. PoNext(iter, o) = Lower(o, wildcard_symbol)
  BY <1>5 DEF PoNext, PairNext, Lower
<1> QED
  BY <1>9, <1>10 DEF iter

(* o is among the children of every first id where its find does not      *)
(* refuse it.                                                              *)
Present(x, o) ==
  \A f \in 0 .. Len(x.t.first_pointers) - 2 :
    LET r == RangeAt(x.t.first_pointers, f)
    IN  Unrefused(x.t.second_nodes, r, o) => \E j \in Positions(r) : x.second_nodes[j + 1] = o

(* has_next: the end, or another try, or a triplet.                        *)
LEMMA PoTurns ==
  ASSUME NEW x, Describes(x), x.t.mapper = identity_mapper,
         NEW line, NEW n, SortedLines(line, n), Swapped(line, n, x),
         NEW iter, NEW o, PoGoes(x, iter, o), NEW m, Reached(line, n, PoNext(iter, o), m),
         Present(x, o)
  PROVE  LET turn == iterator_po_has_next(x.t, iter)
         IN  /\ iter.j < iter.range_len => turn = Turn(iter, "yes")
             /\ \/ turn = Turn(iter, "no") /\ Reached(line, n, Upper(o, wildcard_symbol), m)
                \/ /\ turn.answer \in {"again", "yes"}
                   /\ PoGoes(x, turn.it, o) /\ Reached(line, n, PoNext(turn.it, o), m)
                   /\ turn.answer = "yes" => turn.it.j < turn.it.range_len
<1> DEFINE fp == x.t.first_pointers
           sp == x.t.second_pointers
           turn == iterator_po_has_next(x.t, iter)
           pos == find_node(x.t.second_nodes, pointer(iter.second), iter.val.first)
           r == RangeAt(sp, pos)
           tried == [iter EXCEPT !.second = next_pointer(fp, @), !.i = @ + 1]
           full == [tried EXCEPT !.val.second = iter.i, !.j = 0, !.range_len = r.end - r.begin,
                      !.third = ThirdIterator(x.t, cursor(x.t.third_nodes, r, r.begin), pos)]
<1>1. /\ PairGoes(x, iter, o) /\ iter.kind = "iterator_po"
      /\ iter.size = Len(fp) - 1 /\ iter.i \in 0 .. iter.size
      /\ iter.i < iter.size => InRange(fp, iter.second, iter.i)
      /\ iter.j < iter.range_len => iter.i = iter.val.second + 1
  BY DEF PoGoes
<1>2. /\ Record(iter, PairFields) /\ Record(iter.val, ValFields)
      /\ iter.val.first = o /\ o \in Nat /\ iter.j \in Nat /\ iter.range_len \in Nat
  BY <1>1 DEF PairGoes
<1>3. /\ WellFormedRanges(x.second_nodes, fp) /\ Len(fp) \in Nat
  BY LevelsDescribed DEF LevelsOf
<1>4. turn = IF iter.j < iter.range_len THEN Turn(iter, "yes")
             ELSE IF iter.i >= iter.size THEN Turn(iter, "no")
             ELSE IF pos = not_found THEN Turn(tried, "again") ELSE Turn(full, "yes")
  BY Zenon DEF iterator_po_has_next
<1>5. n \in Nat /\ \A k \in 1 .. n : /\ line[k].first \in Nat /\ line[k].second \in Nat
                                     /\ line[k].third \in Nat
  BY DEF SortedLines
<1> HIDE DEF turn, pos, r, tried, full, fp, sp
<1>6. CASE iter.j < iter.range_len
  <2>1. turn = Turn(iter, "yes")
    BY <1>4, <1>6
  <2>2. turn.answer = "yes" /\ turn.it = iter
    BY <2>1 DEF Turn
  <2> QED
    BY <1>6, <2>1, <2>2 DEF turn
<1>7. CASE ~ (iter.j < iter.range_len) /\ iter.i >= iter.size
  <2>1. turn = Turn(iter, "no")
    BY <1>4, <1>7
  <2>2. iter.i = Len(fp) - 1
    BY <1>1, <1>3, <1>7
  <2>3. PoNext(iter, o) = Triplet(o, Len(fp) - 1, 0)
    BY <1>7, <2>2 DEF PoNext, PairNext
  <2>4. ASSUME NEW k \in 1 .. n
        PROVE  Precedes(line[k], Upper(o, wildcard_symbol)) <=> Precedes(line[k], PoNext(iter, o))
    <3>1. line[k].second < Len(fp) - 1
      <4>1. line[k].second \in 0 .. Len(fp) - 2
        BY PairOfLine DEF fp
      <4> QED
        BY <1>3, <4>1
    <3>2. /\ line[k].first \in Nat /\ line[k].second \in Nat /\ line[k].third \in Nat
      BY <1>5
    <3>3. Precedes(line[k], Upper(o, wildcard_symbol)) <=> line[k].first < o + 1
      BY <1>2, <3>2 DEF Upper, Precedes, Triplet
    <3>4. Precedes(line[k], PoNext(iter, o))
            <=> (line[k].first < o \/ (line[k].first = o /\ line[k].second < Len(fp) - 1))
      BY <2>3, <3>2 DEF Precedes, Triplet
    <3> QED
      BY <1>2, <3>1, <3>2, <3>3, <3>4
  <2>5. Reached(line, n, Upper(o, wildcard_symbol), m)
    BY <1>5, <2>4, ReachedAlike
  <2> QED
    BY <1>7, <2>1, <2>5 DEF turn
<1>8. CASE ~ (iter.j < iter.range_len) /\ ~ (iter.i >= iter.size)
  <2>1. /\ iter.i \in 0 .. Len(fp) - 2 /\ iter.i < iter.size /\ iter.i + 1 \in 0 .. iter.size
        /\ iter.i + 1 < iter.size <=> iter.i + 1 < Len(fp) - 1
    BY <1>1, <1>3, <1>8
  <2>2. PICK f \in 0 .. Len(fp) - 2 : f = iter.i
    BY <2>1
  <2>3. pointer(iter.second) = RangeAt(fp, f)
    BY <1>1, <2>1, <2>2 DEF InRange, pointer, RangeAt
  <2>4. \/ pos \in Positions(RangeAt(fp, f)) /\ x.second_nodes[pos + 1] = o
        \/ pos = not_found /\ \A i \in Positions(RangeAt(fp, f)) : x.second_nodes[i + 1] # o
    <3>1. Unrefused(x.t.second_nodes, RangeAt(fp, f), o)
            => \E j \in Positions(RangeAt(fp, f)) : x.second_nodes[j + 1] = o
      BY DEF Present, fp
    <3>2. o \in Int
      BY <1>2
    <3>3. pos = find_node(x.t.second_nodes, RangeAt(fp, f), o)
      BY <1>2, <2>3 DEF pos
    <3> QED
      BY <3>1, <3>2, <3>3, FindsSecond DEF Describes, fp
  <2>5. PoNext(iter, o) = Triplet(o, f, 0)
    BY <1>8, <2>2 DEF PoNext, PairNext
  <2>6. /\ Record(tried, PairFields) /\ tried.kind = iter.kind /\ tried.size = iter.size
        /\ tried.j = iter.j /\ tried.range_len = iter.range_len /\ tried.val = iter.val
        /\ tried.i = f + 1 /\ tried.second = next_pointer(fp, iter.second)
    <3>1. DOMAIN iter = PairFields
      BY <1>2, RecordFields
    <3>2. Record(tried, PairFields)
      BY <3>1 DEF Record, tried
    <3>3. /\ tried.kind = iter.kind /\ tried.size = iter.size /\ tried.j = iter.j
          /\ tried.range_len = iter.range_len /\ tried.val = iter.val
      BY <3>1 DEF PairFields, tried
    <3>4. tried.i = f + 1 /\ tried.second = next_pointer(fp, iter.second)
      BY <2>2, <3>1 DEF PairFields, tried
    <3> QED
      BY <3>2, <3>3, <3>4
  <2>7. tried.i < tried.size => InRange(fp, tried.second, tried.i)
    <3> SUFFICES ASSUME tried.i < tried.size PROVE InRange(fp, tried.second, tried.i)
      OBVIOUS
    <3>1. f + 1 < Len(fp) - 1
      BY <2>1, <2>2, <2>6
    <3>2. InRange(fp, iter.second, f)
      BY <1>1, <2>1, <2>2
    <3>3. InRange(fp, next_pointer(fp, iter.second), f + 1)
      BY <1>3, <3>1, <3>2, NextPointer
    <3> QED
      BY <2>6, <3>3
  <2>8. CASE pos = not_found
    <3>1. turn.answer = "again" /\ turn.it = tried
      BY <1>4, <1>8, <2>8 DEF Turn
    <3>2. PairGoes(x, tried, o)
      BY <1>2, <1>8, <2>6 DEF PairGoes
    <3>3. tried.i \in 0 .. tried.size
      BY <2>1, <2>2, <2>6
    <3>4. PoGoes(x, tried, o)
      BY <1>1, <1>8, <2>6, <2>7, <3>2, <3>3 DEF PoGoes, fp
    <3>5. PoNext(tried, o) = Triplet(o, f + 1, 0)
      BY <1>8, <2>6 DEF PoNext, PairNext
    <3>6. ASSUME NEW k \in 1 .. n
          PROVE  Precedes(line[k], PoNext(tried, o)) <=> Precedes(line[k], PoNext(iter, o))
      <4>1. ~ (line[k].first = o /\ line[k].second = f)
        <5>1. pos \notin Positions(RangeAt(fp, f))
          <6>1. \A i \in Positions(RangeAt(fp, f)) : i \in 0 .. Len(x.second_nodes) - 1
            BY <1>3, RangeIn
          <6> QED
            BY <2>8, <6>1 DEF not_found
        <5>2. \E j \in Positions(RangeAt(fp, line[k].second)) : x.second_nodes[j + 1] = line[k].first
          BY PairOfLine DEF fp
        <5> QED
          BY <2>4, <5>1, <5>2
      <4>2. line[k].first \in Nat /\ line[k].second \in Nat /\ line[k].third \in Nat /\ f \in Nat
        BY <1>5
      <4>3. Precedes(line[k], Triplet(o, f + 1, 0))
              <=> (line[k].first < o \/ (line[k].first = o /\ line[k].second < f + 1))
        BY <4>2 DEF Precedes, Triplet
      <4>4. Precedes(line[k], Triplet(o, f, 0))
              <=> (line[k].first < o \/ (line[k].first = o /\ line[k].second < f))
        BY <4>2 DEF Precedes, Triplet
      <4> QED
        BY <2>5, <3>5, <4>1, <4>2, <4>3, <4>4
    <3>7. Reached(line, n, PoNext(tried, o), m)
      BY <1>5, <3>6, ReachedAlike
    <3> QED
      BY <1>8, <3>1, <3>4, <3>7 DEF turn
  <2>9. CASE pos # not_found
    <3>1. turn.answer = "yes" /\ turn.it = full
      BY <1>4, <1>8, <2>9 DEF Turn
    <3>2. pos \in Positions(RangeAt(fp, f)) /\ x.second_nodes[pos + 1] = o
      BY <2>4, <2>9
    <3>3. /\ Record(full, PairFields) /\ full.kind = iter.kind /\ full.size = iter.size
          /\ full.i = tried.i /\ full.second = tried.second
          /\ full.j = 0 /\ full.range_len = r.end - r.begin
          /\ full.third = ThirdIterator(x.t, cursor(x.t.third_nodes, r, r.begin), pos)
          /\ full.val = [iter.val EXCEPT !.second = f]
      <4>1. DOMAIN tried = PairFields
        BY <2>6, RecordFields
      <4>2. Record(full, PairFields)
        BY <4>1 DEF Record, full
      <4>3. /\ full.kind = tried.kind /\ full.size = tried.size
            /\ full.i = tried.i /\ full.second = tried.second
        BY <4>1 DEF PairFields, full
      <4>4. full.j = 0 /\ full.range_len = r.end - r.begin
        BY <4>1 DEF PairFields, full
      <4>5. full.third = ThirdIterator(x.t, cursor(x.t.third_nodes, r, r.begin), pos)
        BY <4>1 DEF PairFields, full
      <4>6. full.val = [tried.val EXCEPT !.second = iter.i]
        BY <4>1 DEF PairFields, full
      <4> QED
        BY <2>2, <2>6, <4>2, <4>3, <4>4, <4>5, <4>6
    <3>4. Record(full.val, ValFields) /\ full.val.first = o /\ full.val.second = f
      BY <1>2, <3>3 DEF Record, ValFields
    <3>5. GroupAt(x, line, n, o, f, pos)
      BY <3>2, GroupOfPair DEF fp
    <3>6. Reached(line, n, Triplet(o, f, 0), m)
      BY <2>5
    <3>7. Within(x, full, o, f, pos) /\ Reached(line, n, Triplet(o, f, full.third.node), m)
      <4>1. EntersPair(x, full, o, f, pos)
        BY <3>3, <3>4 DEF EntersPair, r, sp
      <4>2. f \in 0 .. Len(x.t.first_pointers) - 2 /\ pos \in Positions(RangeAt(x.t.first_pointers, f))
        BY <3>2 DEF fp
      <4> QED
        BY <3>5, <3>6, <4>1, <4>2, PairStarts
    <3>8. full.j < full.range_len
      BY <3>7 DEF Within
    <3>9. PairGoes(x, full, o)
      <4>1. PairAt(x, full, o)
        BY <3>2, <3>4, <3>7 DEF PairAt, fp
      <4>2. full.range_len \in Nat
        <5>1. GroupOrder(x, pos)
          BY <3>5, GroupInOrder
        <5>2. /\ sp[pos + 1] \in Nat /\ sp[pos + 2] \in Nat /\ sp[pos + 1] < sp[pos + 2]
              /\ r.begin = sp[pos + 1] /\ r.end = sp[pos + 2]
          BY <5>1 DEF GroupOrder, sp, r
        <5> QED
          BY <3>3, <5>2
      <4> QED
        BY <1>2, <3>3, <3>4, <4>1, <4>2 DEF PairGoes
    <3>10. full.i \in 0 .. full.size
      BY <2>1, <2>2, <2>6, <3>3
    <3>11. PoGoes(x, full, o)
      BY <1>1, <2>6, <2>7, <3>3, <3>4, <3>9, <3>10 DEF PoGoes, fp
    <3>12. PoNext(full, o) = Triplet(o, f, full.third.node)
      BY <3>4, <3>8 DEF PoNext, PairNext
    <3> QED
      BY <1>8, <3>1, <3>7, <3>8, <3>11, <3>12 DEF turn
  <2> QED
    BY <2>8, <2>9
<1> QED
  BY <1>6, <1>7, <1>8

(* When there is one, * gives the next line, and ++ goes past it.          *)
LEMMA PoAnswers ==
  ASSUME NEW x, Describes(x), x.t.mapper = identity_mapper,
         NEW line, NEW n, SortedLines(line, n), Swapped(line, n, x),
         NEW iter, NEW o, PoGoes(x, iter, o), NEW m, Reached(line, n, PoNext(iter, o), m),
         iter.j < iter.range_len
  PROVE  LET given == [iter EXCEPT !.val.third = iter.third.node]
             to == iterator_po_next(x.t, iter)
         IN  /\ m + 1 \in 1 .. n /\ line[m + 1] = given.val
             /\ PoGoes(x, given, o) /\ PoNext(given, o) = PoNext(iter, o)
             /\ given.j < given.range_len /\ [given EXCEPT !.val.third = given.third.node] = given
             /\ PoGoes(x, to, o) /\ Reached(line, n, PoNext(to, o), m + 1)
<1> DEFINE given == [iter EXCEPT !.val.third = iter.third.node]
           to == iterator_po_next(x.t, iter)
<1>1. /\ PairGoes(x, iter, o) /\ iter.kind = "iterator_po"
      /\ iter.size = Len(x.t.first_pointers) - 1 /\ iter.i \in 0 .. iter.size
      /\ iter.i < iter.size => InRange(x.t.first_pointers, iter.second, iter.i)
      /\ iter.i = iter.val.second + 1
  BY DEF PoGoes
<1>2. /\ m + 1 \in 1 .. n /\ line[m + 1] = given.val
      /\ PairGoes(x, given, o) /\ SameBut(given, iter)
      /\ given.val.second = iter.val.second
      /\ \A c : PairNext(given, o, c) = PairNext(iter, o, c)
      /\ given.j = iter.j /\ [given EXCEPT !.val.third = given.third.node] = given
      /\ PairGoes(x, to, o) /\ SameBut(to, iter) /\ to.val = iter.val
      /\ Reached(line, n, PairNext(to, o, iter.val.second + 1), m + 1)
  BY <1>1, PairGoesOn DEF PoNext
<1> HIDE DEF given, to
<1>3. PoGoes(x, given, o)
  BY <1>1, <1>2 DEF PoGoes, SameBut
<1>4. PoGoes(x, to, o)
  BY <1>1, <1>2 DEF PoGoes, SameBut
<1>5. PoNext(given, o) = PoNext(iter, o) /\ given.j < given.range_len
  BY <1>2 DEF PoNext, SameBut
<1>6. Reached(line, n, PoNext(to, o), m + 1)
  BY <1>1, <1>2 DEF PoNext, SameBut
<1> QED
  BY <1>2, <1>3, <1>4, <1>5, <1>6 DEF given, to

-----------------------------------------------------------------------------
(* iterator_p. The predicate index lists, for every first id of the lines, *)
(* their second ids.                                                       *)
ListsPairs(y, line, n) ==
  /\ WellFormedRanges(y.nodes, y.pointers)
  /\ \A p \in 0 .. Len(y.pointers) - 2 :
       /\ \A i \in 1 .. n : line[i].first = p =>
            \E k \in Positions(RangeAt(y.pointers, p)) : y.nodes[k + 1] = line[i].second
       /\ \A k \in Positions(RangeAt(y.pointers, p)) :
            \E i \in 1 .. n : line[i].first = p /\ line[i].second = y.nodes[k + 1]

IndexesPairs(p_index, y) ==
  /\ "pef" \in Encodings(y.nodes)
  /\ p_index.pointers = y.pointers /\ p_index.nodes = build("pef", y.nodes, y.pointers)

(* A line's second id, between two neighbours.                             *)
LEMMA PairsListed ==
  ASSUME NEW y, NEW line, NEW n, SortedLines(line, n), ListsPairs(y, line, n),
         NEW p \in 0 .. Len(y.pointers) - 2, NEW k \in Positions(RangeAt(y.pointers, p)),
         NEW i \in 1 .. n, line[i].first = p
  PROVE  /\ k = y.pointers[p + 1] => ~ (line[i].second < y.nodes[k + 1])
         /\ k > y.pointers[p + 1] =>
              /\ y.nodes[k] \in Nat
              /\ line[i].second < y.nodes[k] + 1 <=> line[i].second < y.nodes[k + 1]
         /\ k + 1 = y.pointers[p + 2] => line[i].second < y.nodes[k + 1] + 1
<1> DEFINE yp == y.pointers
           node(h) == y.nodes[h + 1]
           these == Positions(RangeAt(yp, p))
<1>1. WellFormedRanges(y.nodes, yp)
  BY DEF ListsPairs
<1>2. /\ yp[p + 1] \in Nat /\ yp[p + 2] \in Nat /\ these = yp[p + 1] .. yp[p + 2] - 1
  <2>1. /\ yp[p + 1] \in 0 .. Len(y.nodes) - 1 /\ yp[p + 2] \in 1 .. Len(y.nodes)
        /\ RangeAt(yp, p) = [begin |-> yp[p + 1], end |-> yp[p + 2]] /\ Len(y.nodes) \in Nat
    BY <1>1, RangeIn
  <2>2. yp[p + 1] \in Nat /\ yp[p + 2] \in Nat
    BY <2>1
  <2> QED
    BY <2>1, <2>2 DEF Positions
<1>3. \A h, g \in these : /\ node(h) < node(g) <=> h < g
                          /\ node(h) = node(g) <=> h = g
                          /\ h \in Nat /\ node(h) \in Nat
  BY <1>1, ChildrenInOrder
<1>4. PICK c \in these : node(c) = line[i].second
  BY DEF ListsPairs
<1> HIDE DEF node, these
<1>5. /\ c \in Nat /\ k \in Nat /\ k \in these /\ node(c) \in Nat /\ node(k) \in Nat
      /\ node(c) < node(k) <=> c < k
      /\ node(c) = node(k) <=> c = k
  BY <1>3, <1>4 DEF these
<1>6. k = yp[p + 1] => ~ (node(c) < node(k))
  BY <1>2, <1>4, <1>5
<1>7. ASSUME k > yp[p + 1] PROVE y.nodes[k] \in Nat /\ (node(c) < y.nodes[k] + 1 <=> node(c) < node(k))
  <2>1. PICK h \in these : h = k - 1 /\ h + 1 = k
    BY <1>2, <1>5, <1>7
  <2>2. node(h) = y.nodes[k]
    BY <2>1 DEF node
  <2>3. /\ node(h) \in Nat /\ (node(c) < node(h) <=> c < h) /\ (node(c) = node(h) <=> c = h)
        /\ h \in Nat
    BY <1>3, <1>4
  <2>4. c < k <=> c < h \/ c = h
    BY <1>5, <2>1, <2>3
  <2> QED
    BY <1>5, <2>2, <2>3, <2>4
<1>8. ASSUME k + 1 = yp[p + 2] PROVE node(c) < node(k) + 1
  <2>1. c < k \/ c = k
    BY <1>2, <1>4, <1>5, <1>8
  <2> QED
    BY <1>5, <2>1
<1> QED
  BY <1>4, <1>6, <1>7, <1>8 DEF node

(* At the i-th subject of p, having left the lines of those before but     *)
(* what is left of the pair it is in.                                      *)
PGoes(x, y, iter, p) ==
  /\ PairGoes(x, iter, p) /\ iter.kind = "iterator_p" /\ p \in 0 .. Len(y.pointers) - 2
  /\ iter.size = y.pointers[p + 2] - y.pointers[p + 1] /\ iter.i \in 0 .. iter.size
  /\ iter.i < iter.size => /\ InLevel("pef", y.nodes, y.pointers, iter.second, p, y.pointers[p + 1] + iter.i)
                       /\ OnTrack(y.pointers, iter.second, p, y.pointers[p + 1] + iter.i)
  /\ iter.i > 0 => iter.val.second = y.nodes[y.pointers[p + 1] + iter.i]
  /\ iter.j < iter.range_len => iter.i > 0

PNext(iter, p) == PairNext(iter, p, IF iter.i = 0 THEN 0 ELSE iter.val.second + 1)

(* select_p: nothing is given yet.                                         *)
LEMMA PStarts ==
  ASSUME NEW x, NEW y, WellFormedRanges(y.nodes, y.pointers), NEW p_index, IndexesPairs(p_index, y),
         NEW p \in 0 .. Len(y.pointers) - 2, NEW q, q.second = p
  PROVE  PGoes(x, y, select_p(p_index, q), p) /\ PNext(select_p(p_index, q), p) = Lower(p, wildcard_symbol)
<1> DEFINE yp == y.pointers
           r == RangeAt(yp, p)
           iter == select_p(p_index, q)
           second_it == level_iterator(build("pef", y.nodes, yp), yp, cursor(build("pef", y.nodes, yp), r, r.begin), p)
<1>1. iter = [kind |-> "iterator_p", i |-> 0, j |-> 0, size |-> r.end - r.begin, range_len |-> 0,
            second |-> second_it, third |-> <<>>, val |-> Triplet(p, 0, 0)]
  <2>1. p_index.pointers = yp /\ p_index.nodes = build("pef", y.nodes, yp)
    BY DEF IndexesPairs
  <2> QED
    BY <2>1, Zenon DEF select_p
<1>2. /\ yp[p + 1] \in Nat /\ yp[p + 2] \in Nat /\ yp[p + 1] < yp[p + 2]
      /\ r.begin = yp[p + 1] /\ r.end = yp[p + 2] /\ Positions(r) = yp[p + 1] .. yp[p + 2] - 1
  <2>1. /\ yp[p + 1] \in 0 .. Len(y.nodes) - 1 /\ yp[p + 2] \in 1 .. Len(y.nodes)
        /\ yp[p + 1] < yp[p + 2] /\ Len(y.nodes) \in Nat
        /\ RangeAt(yp, p) = [begin |-> yp[p + 1], end |-> yp[p + 2]]
    BY RangeIn
  <2>2. yp[p + 1] \in Nat /\ yp[p + 2] \in Nat
    BY <2>1
  <2> QED
    BY <2>1, <2>2 DEF Positions
<1>3. InLevel("pef", y.nodes, yp, second_it, p, yp[p + 1]) /\ OnTrack(yp, second_it, p, yp[p + 1])
  <2>1. PICK i \in Positions(RangeAt(yp, p)) : i = r.begin
    BY <1>2
  <2>2. "pef" \in Encodings(y.nodes)
    BY DEF IndexesPairs
  <2> HIDE DEF r
  <2>3. /\ InLevel("pef", y.nodes, yp, second_it, p, i)
        /\ i = yp[p + 1] => OnTrack(yp, second_it, p, i)
    BY <1>2, <2>1, <2>2, LevelStarts
  <2> QED
    BY <1>2, <2>1, <2>3
<1> HIDE DEF second_it, r
<1>4. /\ Record(iter, PairFields) /\ iter.kind = "iterator_p" /\ iter.size = yp[p + 2] - yp[p + 1]
      /\ iter.i = 0 /\ iter.j = 0 /\ iter.range_len = 0 /\ iter.second = second_it /\ iter.val = Triplet(p, 0, 0)
  BY <1>1, <1>2 DEF Record, PairFields
<1>5. Record(iter.val, ValFields) /\ iter.val.first = p
  BY <1>4 DEF Record, ValFields, Triplet
<1> HIDE DEF iter
<1>6. p \in Nat
  OBVIOUS
<1>7. PairGoes(x, iter, p)
  BY <1>4, <1>5, <1>6 DEF PairGoes
<1>8. iter.i \in 0 .. iter.size /\ yp[p + 1] + iter.i = yp[p + 1]
  BY <1>2, <1>4
<1>9. PGoes(x, y, iter, p)
  BY <1>3, <1>4, <1>7, <1>8 DEF PGoes
<1>10. PNext(iter, p) = Lower(p, wildcard_symbol)
  BY <1>4 DEF PNext, PairNext, Lower
<1> QED
  BY <1>9, <1>10 DEF iter

(* When there is one, * gives the next line, and ++ goes past it.          *)
LEMMA PAnswers ==
  ASSUME NEW x, Describes(x), x.t.mapper = identity_mapper,
         NEW line, NEW n, SortedLines(line, n), Swapped(line, n, x),
         NEW y, NEW iter, NEW p, PGoes(x, y, iter, p), NEW m, Reached(line, n, PNext(iter, p), m),
         iter.j < iter.range_len
  PROVE  LET given == [iter EXCEPT !.val.third = iter.third.node]
             to == iterator_po_next(x.t, iter)
         IN  /\ m + 1 \in 1 .. n /\ line[m + 1] = given.val
             /\ PGoes(x, y, given, p) /\ PNext(given, p) = PNext(iter, p)
             /\ given.j < given.range_len /\ [given EXCEPT !.val.third = given.third.node] = given
             /\ PGoes(x, y, to, p) /\ Reached(line, n, PNext(to, p), m + 1)
<1> DEFINE given == [iter EXCEPT !.val.third = iter.third.node]
           to == iterator_po_next(x.t, iter)
           yp == y.pointers
<1>1. /\ PairGoes(x, iter, p) /\ iter.kind = "iterator_p" /\ p \in 0 .. Len(yp) - 2
      /\ iter.size = yp[p + 2] - yp[p + 1] /\ iter.i \in 0 .. iter.size
      /\ iter.i < iter.size => /\ InLevel("pef", y.nodes, yp, iter.second, p, yp[p + 1] + iter.i)
                           /\ OnTrack(yp, iter.second, p, yp[p + 1] + iter.i)
      /\ iter.val.second = y.nodes[yp[p + 1] + iter.i]
      /\ iter.i > 0 /\ iter.i # 0
  BY DEF PGoes
<1>2. /\ m + 1 \in 1 .. n /\ line[m + 1] = given.val
      /\ PairGoes(x, given, p) /\ SameBut(given, iter)
      /\ given.val.second = iter.val.second
      /\ \A c : PairNext(given, p, c) = PairNext(iter, p, c)
      /\ given.j = iter.j /\ [given EXCEPT !.val.third = given.third.node] = given
      /\ PairGoes(x, to, p) /\ SameBut(to, iter) /\ to.val = iter.val
      /\ Reached(line, n, PairNext(to, p, iter.val.second + 1), m + 1)
  <2>1. Reached(line, n, PairNext(iter, p, IF iter.i = 0 THEN 0 ELSE iter.val.second + 1), m)
    BY DEF PNext
  <2>2. PICK b : b = IF iter.i = 0 THEN 0 ELSE iter.val.second + 1
    OBVIOUS
  <2> QED
    BY <1>1, <2>1, <2>2, PairGoesOn
<1> HIDE DEF given, to
<1>3. PGoes(x, y, given, p)
  BY <1>1, <1>2 DEF PGoes, SameBut
<1>4. PGoes(x, y, to, p)
  BY <1>1, <1>2 DEF PGoes, SameBut
<1>5. PNext(given, p) = PNext(iter, p) /\ given.j < given.range_len
  BY <1>2 DEF PNext, SameBut
<1>6. Reached(line, n, PNext(to, p), m + 1)
  BY <1>1, <1>2 DEF PNext, SameBut
<1> QED
  BY <1>2, <1>3, <1>4, <1>5, <1>6 DEF given, to

(* has_next: the end, or a triplet; the predicate is among the children of *)
(* every subject that is listed for it.                                    *)
LEMMA PTurns ==
  ASSUME NEW x, Describes(x), x.t.mapper = identity_mapper,
         NEW line, NEW n, SortedLines(line, n), Swapped(line, n, x),
         NEW y, ListsPairs(y, line, n), NEW p_index, IndexesPairs(p_index, y),
         NEW iter, NEW p, PGoes(x, y, iter, p), NEW m, Reached(line, n, PNext(iter, p), m)
  PROVE  LET turn == iterator_p_has_next(p_index, x.t, iter)
         IN  /\ iter.j < iter.range_len => turn = Turn(iter, "yes")
             /\ \/ turn = Turn(iter, "no") /\ Reached(line, n, Upper(p, wildcard_symbol), m)
                \/ /\ turn.answer = "yes"
                   /\ PGoes(x, y, turn.it, p) /\ Reached(line, n, PNext(turn.it, p), m)
                   /\ turn.it.j < turn.it.range_len
<1> DEFINE fp == x.t.first_pointers
           sp == x.t.second_pointers
           yp == y.pointers
           turn == iterator_p_has_next(p_index, x.t, iter)
           s == iter.second.node
           pos == find_node(x.t.second_nodes, RangeAt(fp, s), iter.val.first)
           r == RangeAt(sp, pos)
           full == [iter EXCEPT !.val.second = s, !.j = 0, !.range_len = r.end - r.begin,
                      !.third = ThirdIterator(x.t, cursor(x.t.third_nodes, r, r.begin), pos),
                      !.second = advance(p_index.nodes, p_index.pointers, @),
                      !.i = @ + 1]
<1>1. /\ PairGoes(x, iter, p) /\ iter.kind = "iterator_p" /\ p \in 0 .. Len(yp) - 2
      /\ iter.size = yp[p + 2] - yp[p + 1] /\ iter.i \in 0 .. iter.size
      /\ iter.i < iter.size => /\ InLevel("pef", y.nodes, yp, iter.second, p, yp[p + 1] + iter.i)
                           /\ OnTrack(yp, iter.second, p, yp[p + 1] + iter.i)
      /\ iter.i > 0 => iter.val.second = y.nodes[yp[p + 1] + iter.i]
      /\ iter.j < iter.range_len => iter.i > 0
  BY DEF PGoes
<1>2. /\ Record(iter, PairFields) /\ Record(iter.val, ValFields)
      /\ iter.val.first = p /\ p \in Nat /\ iter.j \in Nat /\ iter.range_len \in Nat
  BY <1>1 DEF PairGoes
<1>3. /\ WellFormedRanges(y.nodes, yp) /\ WellFormedRanges(x.second_nodes, fp)
      /\ p_index.pointers = yp /\ p_index.nodes = build("pef", y.nodes, yp)
  BY LevelsDescribed DEF LevelsOf, ListsPairs, IndexesPairs
<1>4. turn = IF iter.j < iter.range_len THEN Turn(iter, "yes")
             ELSE IF iter.i >= iter.size THEN Turn(iter, "no") ELSE Turn(full, "yes")
  BY Zenon DEF iterator_p_has_next
<1>5. n \in Nat /\ \A k \in 1 .. n : /\ line[k].first \in Nat /\ line[k].second \in Nat
                                     /\ line[k].third \in Nat
  BY DEF SortedLines
<1>6. /\ yp[p + 1] \in Nat /\ yp[p + 2] \in Nat /\ yp[p + 1] < yp[p + 2]
      /\ Positions(RangeAt(yp, p)) = yp[p + 1] .. yp[p + 2] - 1
      /\ \A k \in Positions(RangeAt(yp, p)) : k \in 0 .. Len(y.nodes) - 1 /\ y.nodes[k + 1] \in Nat
  <2>1. /\ yp[p + 1] \in 0 .. Len(y.nodes) - 1 /\ yp[p + 2] \in 1 .. Len(y.nodes)
        /\ yp[p + 1] < yp[p + 2] /\ Len(y.nodes) \in Nat
        /\ RangeAt(yp, p) = [begin |-> yp[p + 1], end |-> yp[p + 2]]
        /\ \A k \in Positions(RangeAt(yp, p)) : k \in 0 .. Len(y.nodes) - 1 /\ y.nodes[k + 1] \in Nat
    BY <1>1, <1>3, RangeIn
  <2>2. yp[p + 1] \in Nat /\ yp[p + 2] \in Nat
    BY <2>1
  <2> QED
    BY <2>1, <2>2 DEF Positions
<1> HIDE DEF turn, pos, r, full, fp, sp, yp, s
<1>7. PICK lo \in Nat, hi \in Nat : lo = yp[p + 1] /\ hi = yp[p + 2] /\ lo < hi
  BY <1>6
<1>8. iter.i \in Nat /\ iter.i <= hi - lo /\ iter.size = hi - lo
  BY <1>1, <1>7
<1>9. CASE iter.j < iter.range_len
  <2>1. turn = Turn(iter, "yes")
    BY <1>4, <1>9
  <2>2. turn.answer = "yes" /\ turn.it = iter
    BY <2>1 DEF Turn
  <2> QED
    BY <1>9, <2>1, <2>2 DEF turn
<1>10. CASE ~ (iter.j < iter.range_len) /\ iter.i >= iter.size
  <2>1. turn = Turn(iter, "no")
    BY <1>4, <1>10
  <2>2. PICK k : /\ k \in lo .. hi - 1 /\ k + 1 = hi /\ k + 1 = lo + iter.i /\ iter.i > 0 /\ iter.i # 0
    <3>1. iter.i = hi - lo
      BY <1>8, <1>10
    <3>2. /\ hi - 1 \in lo .. hi - 1 /\ (hi - 1) + 1 = hi /\ (hi - 1) + 1 = lo + iter.i
          /\ iter.i > 0 /\ iter.i # 0
      BY <1>7, <3>1
    <3> QED
      BY <3>2
  <2>3. k \in Positions(RangeAt(yp, p)) /\ y.nodes[k + 1] \in Nat /\ iter.val.second = y.nodes[k + 1]
    BY <1>1, <1>6, <1>7, <2>2
  <2>4. PNext(iter, p) = Triplet(p, y.nodes[k + 1] + 1, 0)
    BY <1>10, <2>2, <2>3 DEF PNext, PairNext
  <2>5. ASSUME NEW i \in 1 .. n
        PROVE  Precedes(line[i], Upper(p, wildcard_symbol)) <=> Precedes(line[i], PNext(iter, p))
    <3>1. line[i].first = p => line[i].second < y.nodes[k + 1] + 1
      BY <1>1, <1>7, <2>2, <2>3, PairsListed DEF yp
    <3>2. line[i].first \in Nat /\ line[i].second \in Nat /\ line[i].third \in Nat
      BY <1>5
    <3>3. Precedes(line[i], Upper(p, wildcard_symbol)) <=> line[i].first < p + 1
      BY <1>2, <3>2 DEF Upper, Precedes, Triplet
    <3>4. Precedes(line[i], PNext(iter, p))
            <=> (line[i].first < p \/ (line[i].first = p /\ line[i].second < y.nodes[k + 1] + 1))
      BY <2>3, <2>4, <3>2 DEF Precedes, Triplet
    <3> QED
      BY <1>2, <3>1, <3>2, <3>3, <3>4
  <2>6. Reached(line, n, Upper(p, wildcard_symbol), m)
    BY <1>5, <2>5, ReachedAlike
  <2> QED
    BY <1>10, <2>1, <2>6 DEF turn
<1>11. CASE ~ (iter.j < iter.range_len) /\ ~ (iter.i >= iter.size)
  <2>1. PICK k : /\ k \in lo .. hi - 1 /\ k = lo + iter.i /\ iter.i < iter.size /\ k \in Nat
                 /\ iter.i + 1 \in 0 .. iter.size /\ (iter.i + 1 < iter.size <=> k + 1 < hi)
                 /\ lo + (iter.i + 1) = k + 1
    <3>1. /\ lo + iter.i \in lo .. hi - 1 /\ iter.i < iter.size /\ lo + iter.i \in Nat
          /\ iter.i + 1 \in 0 .. iter.size /\ (iter.i + 1 < iter.size <=> (lo + iter.i) + 1 < hi)
          /\ lo + (iter.i + 1) = (lo + iter.i) + 1
      BY <1>7, <1>8, <1>11
    <3> QED
      BY <3>1
  <2>2. k \in Positions(RangeAt(yp, p)) /\ y.nodes[k + 1] \in Nat
    BY <1>6, <1>7, <2>1
  <2>3. InLevel("pef", y.nodes, yp, iter.second, p, k) /\ OnTrack(yp, iter.second, p, k)
    BY <1>1, <1>7, <2>1
  <2>4. s = y.nodes[k + 1]
    BY <2>3 DEF InLevel, s
  <2>5. PICK i \in 1 .. n : line[i].first = p /\ line[i].second = s
    BY <1>1, <2>2, <2>4 DEF ListsPairs, yp
  <2>6. s \in 0 .. Len(fp) - 2 /\ \E j \in Positions(RangeAt(fp, s)) : x.second_nodes[j + 1] = p
    BY <2>5, PairOfLine DEF fp
  <2>7. pos \in Positions(RangeAt(fp, s)) /\ x.second_nodes[pos + 1] = p
    <3>1. pos = find_node(x.t.second_nodes, RangeAt(fp, s), p)
      BY <1>2 DEF pos
    <3>2. p \in Int
      BY <1>2
    <3> QED
      BY <2>6, <3>1, <3>2, FindsSecond DEF Describes, fp
  <2>8. turn.answer = "yes" /\ turn.it = full
    BY <1>4, <1>11 DEF Turn
  <2>9. /\ Record(full, PairFields) /\ full.kind = iter.kind /\ full.size = iter.size
        /\ full.i = iter.i + 1 /\ full.second = advance(build("pef", y.nodes, yp), yp, iter.second)
        /\ full.j = 0 /\ full.range_len = r.end - r.begin
        /\ full.third = ThirdIterator(x.t, cursor(x.t.third_nodes, r, r.begin), pos)
        /\ full.val = [iter.val EXCEPT !.second = s]
    <3>1. DOMAIN iter = PairFields
      BY <1>2, RecordFields
    <3>2. Record(full, PairFields)
      BY <3>1 DEF Record, full
    <3>3. full.kind = iter.kind /\ full.size = iter.size /\ full.i = iter.i + 1
      BY <3>1 DEF PairFields, full
    <3>4. full.second = advance(build("pef", y.nodes, yp), yp, iter.second)
      BY <1>3, <3>1 DEF PairFields, full
    <3>5. full.j = 0 /\ full.range_len = r.end - r.begin
      BY <3>1 DEF PairFields, full
    <3>6. full.third = ThirdIterator(x.t, cursor(x.t.third_nodes, r, r.begin), pos)
      BY <3>1 DEF PairFields, full
    <3>7. full.val = [iter.val EXCEPT !.second = s]
      BY <3>1 DEF PairFields, full
    <3> QED
      BY <3>2, <3>3, <3>4, <3>5, <3>6, <3>7
  <2>10. Record(full.val, ValFields) /\ full.val.first = p /\ full.val.second = s
    BY <1>2, <2>9 DEF Record, ValFields
  <2>11. k + 1 < hi => /\ InLevel("pef", y.nodes, yp, full.second, p, k + 1)
                       /\ OnTrack(yp, full.second, p, k + 1)
    <3>1. "pef" \in Encodings(y.nodes)
      BY DEF IndexesPairs
    <3> QED
      BY <1>1, <1>3, <1>7, <2>2, <2>3, <2>9, <3>1, Advances
  <2>12. GroupAt(x, line, n, p, s, pos)
    BY <2>6, <2>7, GroupOfPair DEF fp
  <2>13. Reached(line, n, Triplet(p, s, 0), m)
    <3>1. s \in Nat
      BY <2>2, <2>4
    <3>2. ASSUME NEW h \in 1 .. n
          PROVE  Precedes(line[h], Triplet(p, s, 0)) <=> Precedes(line[h], PNext(iter, p))
      <4>1. line[h].first \in Nat /\ line[h].second \in Nat /\ line[h].third \in Nat
        BY <1>5
      <4>2. Precedes(line[h], Triplet(p, s, 0))
              <=> (line[h].first < p \/ (line[h].first = p /\ line[h].second < s))
        BY <1>2, <3>1, <4>1 DEF Precedes, Triplet
      <4>3. line[h].first = p =>
              /\ k = lo => ~ (line[h].second < s)
              /\ k > lo => y.nodes[k] \in Nat /\ (line[h].second < y.nodes[k] + 1 <=> line[h].second < s)
        <5> SUFFICES ASSUME line[h].first = p
                     PROVE  /\ k = lo => ~ (line[h].second < s)
                            /\ k > lo => /\ y.nodes[k] \in Nat
                                         /\ line[h].second < y.nodes[k] + 1 <=> line[h].second < s
          OBVIOUS
        <5>1. /\ SortedLines(line, n) /\ ListsPairs(y, line, n)
              /\ p \in 0 .. Len(yp) - 2 /\ k \in Positions(RangeAt(yp, p))
          BY <1>1, <2>2 DEF yp
        <5>2. /\ k = yp[p + 1] => ~ (line[h].second < y.nodes[k + 1])
              /\ k > yp[p + 1] =>
                   /\ y.nodes[k] \in Nat
                   /\ line[h].second < y.nodes[k] + 1 <=> line[h].second < y.nodes[k + 1]
          BY <5>1, PairsListed DEF yp
        <5> QED
          BY <1>7, <2>4, <5>2
      <4>4. CASE iter.i = 0
        <5>1. PNext(iter, p) = Triplet(p, 0, 0) /\ k = lo
          BY <1>7, <1>11, <2>1, <4>4 DEF PNext, PairNext
        <5>2. Precedes(line[h], PNext(iter, p)) <=> line[h].first < p
          BY <1>2, <4>1, <5>1 DEF Precedes, Triplet
        <5> QED
          BY <4>2, <4>3, <5>1, <5>2
      <4>5. CASE iter.i # 0
        <5>1. iter.i > 0 /\ k > lo
          BY <1>7, <1>8, <2>1, <4>5
        <5>2. iter.val.second = y.nodes[k]
          BY <1>1, <1>7, <2>1, <5>1
        <5>3. PNext(iter, p) = Triplet(p, y.nodes[k] + 1, 0)
          BY <1>11, <4>5, <5>2 DEF PNext, PairNext
        <5>4. Precedes(line[h], Triplet(p, y.nodes[k] + 1, 0))
                <=> (line[h].first < p \/ (line[h].first = p /\ line[h].second < y.nodes[k] + 1))
          BY <4>1 DEF Precedes, Triplet
        <5> QED
          BY <4>2, <4>3, <5>1, <5>3, <5>4
      <4> QED
        BY <4>4, <4>5
    <3> QED
      BY <1>5, <3>2, ReachedAlike
  <2>14. Within(x, full, p, s, pos) /\ Reached(line, n, Triplet(p, s, full.third.node), m)
    <3>1. EntersPair(x, full, p, s, pos)
      BY <2>9, <2>10 DEF EntersPair, r, sp
    <3>2. s \in 0 .. Len(x.t.first_pointers) - 2 /\ pos \in Positions(RangeAt(x.t.first_pointers, s))
      BY <2>6, <2>7 DEF fp
    <3> QED
      BY <2>12, <2>13, <3>1, <3>2, PairStarts
  <2>15. full.j < full.range_len
    BY <2>14 DEF Within
  <2>16. PairGoes(x, full, p)
    <3>1. PairAt(x, full, p)
      BY <2>6, <2>7, <2>10, <2>14 DEF PairAt, fp
    <3>2. full.range_len \in Nat
      <4>1. GroupOrder(x, pos)
        BY <2>12, GroupInOrder
      <4>2. /\ sp[pos + 1] \in Nat /\ sp[pos + 2] \in Nat /\ sp[pos + 1] < sp[pos + 2]
            /\ r.begin = sp[pos + 1] /\ r.end = sp[pos + 2]
        BY <4>1 DEF GroupOrder, sp, r
      <4> QED
        BY <2>9, <4>2
    <3> QED
      BY <1>2, <2>9, <2>10, <3>1, <3>2 DEF PairGoes
  <2>17. full.i > 0 /\ full.i # 0 /\ full.i \in 0 .. full.size
    BY <1>8, <2>1, <2>9
  <2>18. full.i < full.size => /\ InLevel("pef", y.nodes, yp, full.second, p, yp[p + 1] + full.i)
                               /\ OnTrack(yp, full.second, p, yp[p + 1] + full.i)
    BY <1>7, <2>1, <2>9, <2>11
  <2>19. full.val.second = y.nodes[yp[p + 1] + full.i]
    BY <1>7, <2>1, <2>4, <2>9, <2>10
  <2>20. PGoes(x, y, full, p)
    BY <1>1, <2>9, <2>16, <2>17, <2>18, <2>19 DEF PGoes, yp
  <2>21. PNext(full, p) = Triplet(p, s, full.third.node)
    BY <2>10, <2>15 DEF PNext, PairNext
  <2> QED
    BY <1>11, <2>8, <2>14, <2>15, <2>20, <2>21 DEF turn
<1> QED
  BY <1>9, <1>10, <1>11



-----------------------------------------------------------------------------
(* A selection, whichever its iterator: w has the trie x and, for          *)
(* iterator_p, the predicate index y; the lines of the file that lists the *)
(* answers; the first id a and the second id b that are asked, or any; and *)
(* that the answers are the c lines after the first base ones.             *)
ByPair(w) ==
  /\ w.x.t.mapper = identity_mapper /\ Swapped(w.line, w.n, w.x)
  /\ w.a \in Nat /\ w.b = wildcard_symbol
  /\ Reached(w.line, w.n, Upper(w.a, w.b), w.base + w.c)

Walk(w, p_index) ==
  /\ Describes(w.x) /\ SortedLines(w.line, w.n) /\ Block(w.line, w.n, w.a, w.b, w.base, w.c)
  /\ \/ w.kind = "iterator" /\ w.x.line = w.line /\ w.x.n = w.n
     \/ /\ w.kind = "iterator_so" /\ w.x.t.mapper = identity_mapper /\ w.x.e3 \notin {"pef", "vb"}
        /\ Rotated(w.line, w.n, w.x) /\ w.a \in Nat /\ w.b \in Nat
        /\ Reached(w.line, w.n, Upper(w.a, w.b), w.base + w.c)
     \/ /\ w.kind = "iterator_po" /\ ByPair(w)
        /\ Present(w.x, w.a)
     \/ /\ w.kind = "iterator_p" /\ ByPair(w)
        /\ ListsPairs(w.y, w.line, w.n) /\ IndexesPairs(p_index, w.y)

(* It has given the first e of the answers.                                *)
Gave(w, iter, e) ==
  /\ e \in 0 .. w.c /\ iter.kind = w.kind
  /\ w.kind = "iterator" => Goes(w.x, iter, w.base, w.c, e)
  /\ w.kind = "iterator_so" => /\ SoGoes(w.x, iter, w.a, w.b)
                               /\ Reached(w.line, w.n, SoNext(w.x, iter, w.a, w.b), w.base + e)
  /\ w.kind = "iterator_po" => /\ PoGoes(w.x, iter, w.a)
                               /\ Reached(w.line, w.n, PoNext(iter, w.a), w.base + e)
  /\ w.kind = "iterator_p" => /\ PGoes(w.x, w.y, iter, w.a)
                              /\ Reached(w.line, w.n, PNext(iter, w.a), w.base + e)

(* It is on an answer.                                                     *)
HasAnswer(w, iter) ==
  /\ w.kind = "iterator" => iter.i # iter.size
  /\ w.kind = "iterator_so" => SoReady(w.x, iter, w.a)
  /\ w.kind \in {"iterator_po", "iterator_p"} => iter.j < iter.range_len

(* has_next, * and ++.                                                     *)
HasNextOf(t, p_index, iter) ==
  CASE iter.kind = "iterator"    -> Turn(iter, YesIf(iter.i # iter.size))
    [] iter.kind = "iterator_so" -> iterator_so_has_next(t, iter)
    [] iter.kind = "iterator_po" -> iterator_po_has_next(t, iter)
    [] iter.kind = "iterator_p"  -> iterator_p_has_next(p_index, t, iter)

GivenOf(iter) ==
  IF iter.kind \in {"iterator_po", "iterator_p"}
  THEN [iter EXCEPT !.val.third = iter.third.node] ELSE iter

NextOf(t, iter) ==
  CASE iter.kind = "iterator"    -> iterator_next(t, iter)
    [] iter.kind = "iterator_so" -> iterator_so_next(t, iter)
    [] iter.kind \in {"iterator_po", "iterator_p"} -> iterator_po_next(t, iter)

(* A threshold is reached at one place.                                    *)
LEMMA ReachedOnce ==
  ASSUME NEW line, NEW n, n \in Nat, NEW u, NEW m, NEW k, Reached(line, n, u, m), Reached(line, n, u, k)
  PROVE  m = k
<1>1. /\ m \in 0 .. n /\ k \in 0 .. n
      /\ \A h \in 0 .. n - 1 : (Precedes(line[h + 1], u) <=> h < m) /\ (Precedes(line[h + 1], u) <=> h < k)
  BY DEF Reached
<1>2. \A h \in 0 .. n - 1 : h < m <=> h < k
  BY <1>1
<1>3. ~ (m < k)
  <2> SUFFICES ASSUME m < k PROVE FALSE
    OBVIOUS
  <2>1. m \in 0 .. n - 1
    BY <1>1
  <2>2. m < m
    BY <1>2, <2>1
  <2> QED
    BY <1>1, <2>2
<1>4. ~ (k < m)
  <2> SUFFICES ASSUME k < m PROVE FALSE
    OBVIOUS
  <2>1. k \in 0 .. n - 1
    BY <1>1
  <2>2. k < k
    BY <1>2, <2>1
  <2> QED
    BY <1>1, <2>2
<1> QED
  BY <1>1, <1>3, <1>4

(* A line that answers is one of the answers.                              *)
LEMMA AnswerCounted ==
  ASSUME NEW line, NEW n, NEW a, NEW b, NEW base, NEW c, Block(line, n, a, b, base, c),
         NEW e \in Nat, base + e + 1 \in 1 .. n, n \in Nat, Answers(line[base + e + 1], a, b)
  PROVE  e < c
<1>1. /\ base \in Nat /\ c \in Nat
      /\ \A k \in 0 .. n - 1 : Answers(line[k + 1], a, b) <=> base <= k /\ k < base + c
  BY DEF Block
<1>2. base + e \in 0 .. n - 1 /\ (base + e) + 1 = base + e + 1
  BY <1>1
<1>3. base + e < base + c
  BY <1>1, <1>2
<1> QED
  BY <1>1, <1>3


(* has_next goes on until the answers end, and no further.                 *)
LEMMA WalkTurns ==
  ASSUME NEW w, NEW p_index, Walk(w, p_index), NEW iter, NEW e, Gave(w, iter, e)
  PROVE  LET turn == HasNextOf(w.x.t, p_index, iter)
         IN  /\ HasAnswer(w, iter) => turn = Turn(iter, "yes")
             /\ \/ turn = Turn(iter, "no") /\ e = w.c
                \/ /\ turn.answer \in {"again", "yes"} /\ Gave(w, turn.it, e)
                   /\ turn.answer = "yes" => HasAnswer(w, turn.it)
<1> DEFINE turn == HasNextOf(w.x.t, p_index, iter)
<1>1. /\ Describes(w.x) /\ SortedLines(w.line, w.n) /\ Block(w.line, w.n, w.a, w.b, w.base, w.c)
      /\ w.n \in Nat
  BY DEF Walk, SortedLines
<1>2. w.base \in Nat /\ w.c \in Nat /\ e \in 0 .. w.c /\ iter.kind = w.kind
  BY <1>1 DEF Block, Gave
<1>3. ASSUME Reached(w.line, w.n, Upper(w.a, w.b), w.base + e),
             Reached(w.line, w.n, Upper(w.a, w.b), w.base + w.c)
      PROVE  e = w.c
  <2>1. w.base + e = w.base + w.c
    BY <1>1, <1>3, ReachedOnce
  <2> QED
    BY <1>2, <2>1
<1>4. CASE w.kind = "iterator"
  <2>1. turn = Turn(iter, YesIf(iter.i # iter.size))
    BY <1>2, <1>4, Zenon DEF HasNextOf
  <2>2. iter.i = e /\ iter.size = w.c
    BY <1>4 DEF Gave, Goes
  <2>3. HasAnswer(w, iter) <=> iter.i # iter.size
    BY <1>4 DEF HasAnswer
  <2> HIDE DEF turn
  <2>4. CASE iter.i = iter.size
    <3>1. turn = Turn(iter, "no")
      BY <2>1, <2>4 DEF YesIf
    <3> QED
      BY <2>2, <2>3, <2>4, <3>1 DEF turn
  <2>5. CASE iter.i # iter.size
    <3>1. turn = Turn(iter, "yes")
      BY <2>1, <2>5 DEF YesIf
    <3>2. turn.it = iter /\ turn.answer = "yes"
      BY <3>1 DEF Turn
    <3> QED
      BY <2>3, <2>5, <3>1, <3>2 DEF turn
  <2> QED
    BY <2>4, <2>5
<1>5. CASE w.kind = "iterator_so"
  <2>1. /\ w.x.t.mapper = identity_mapper /\ w.x.e3 \notin {"pef", "vb"} /\ Rotated(w.line, w.n, w.x)
        /\ Reached(w.line, w.n, Upper(w.a, w.b), w.base + w.c)
    BY <1>5 DEF Walk
  <2>2. /\ SoGoes(w.x, iter, w.a, w.b)
        /\ Reached(w.line, w.n, SoNext(w.x, iter, w.a, w.b), w.base + e)
    BY <1>5 DEF Gave
  <2>3. turn = iterator_so_has_next(w.x.t, iter)
    BY <1>2, <1>5 DEF HasNextOf
  <2>4. HasAnswer(w, iter) => turn = Turn(iter, "yes")
    <3> SUFFICES ASSUME SoReady(w.x, iter, w.a) PROVE iterator_so_has_next(w.x.t, iter) = Turn(iter, "yes")
      BY <1>5, <2>3 DEF HasAnswer
    <3> QED
      BY <1>1, <2>1, <2>2, SoAnswers
  <2>5. \/ turn = Turn(iter, "no") /\ Reached(w.line, w.n, Upper(w.a, w.b), w.base + e)
        \/ /\ turn.answer \in {"again", "yes"}
           /\ SoGoes(w.x, turn.it, w.a, w.b)
           /\ Reached(w.line, w.n, SoNext(w.x, turn.it, w.a, w.b), w.base + e)
           /\ turn.answer = "yes" => SoReady(w.x, turn.it, w.a)
    BY <1>1, <2>1, <2>2, <2>3, SoTurns
  <2> HIDE DEF turn
  <2>6. CASE turn = Turn(iter, "no") /\ Reached(w.line, w.n, Upper(w.a, w.b), w.base + e)
    BY <1>3, <2>1, <2>4, <2>6 DEF turn
  <2>7. CASE /\ turn.answer \in {"again", "yes"}
             /\ SoGoes(w.x, turn.it, w.a, w.b)
             /\ Reached(w.line, w.n, SoNext(w.x, turn.it, w.a, w.b), w.base + e)
             /\ turn.answer = "yes" => SoReady(w.x, turn.it, w.a)
    <3>1. turn.it.kind = "iterator_so"
      BY <2>7 DEF SoGoes
    <3>2. Gave(w, turn.it, e)
      BY <1>2, <1>5, <2>7, <3>1 DEF Gave
    <3>3. turn.answer = "yes" => HasAnswer(w, turn.it)
      BY <1>5, <2>7 DEF HasAnswer
    <3> QED
      BY <2>4, <2>7, <3>2, <3>3 DEF turn
  <2> QED
    BY <2>5, <2>6, <2>7
<1>6. CASE w.kind = "iterator_po"
  <2>1. /\ w.x.t.mapper = identity_mapper /\ Swapped(w.line, w.n, w.x) /\ w.b = wildcard_symbol
        /\ Reached(w.line, w.n, Upper(w.a, w.b), w.base + w.c)
        /\ Present(w.x, w.a)
    BY <1>6 DEF Walk, ByPair
  <2>2. PoGoes(w.x, iter, w.a) /\ Reached(w.line, w.n, PoNext(iter, w.a), w.base + e)
    BY <1>6 DEF Gave
  <2>3. turn = iterator_po_has_next(w.x.t, iter)
    BY <1>2, <1>6 DEF HasNextOf
  <2>4. /\ iter.j < iter.range_len => turn = Turn(iter, "yes")
        /\ \/ turn = Turn(iter, "no") /\ Reached(w.line, w.n, Upper(w.a, wildcard_symbol), w.base + e)
           \/ /\ turn.answer \in {"again", "yes"}
              /\ PoGoes(w.x, turn.it, w.a) /\ Reached(w.line, w.n, PoNext(turn.it, w.a), w.base + e)
              /\ turn.answer = "yes" => turn.it.j < turn.it.range_len
    BY <1>1, <2>1, <2>2, <2>3, PoTurns
  <2> HIDE DEF turn
  <2>5. HasAnswer(w, iter) => turn = Turn(iter, "yes")
    BY <1>6, <2>4 DEF HasAnswer
  <2>6. CASE turn = Turn(iter, "no") /\ Reached(w.line, w.n, Upper(w.a, wildcard_symbol), w.base + e)
    BY <1>3, <2>1, <2>5, <2>6 DEF turn
  <2>7. CASE /\ turn.answer \in {"again", "yes"}
             /\ PoGoes(w.x, turn.it, w.a) /\ Reached(w.line, w.n, PoNext(turn.it, w.a), w.base + e)
             /\ turn.answer = "yes" => turn.it.j < turn.it.range_len
    <3>1. turn.it.kind = "iterator_po"
      BY <2>7 DEF PoGoes
    <3>2. Gave(w, turn.it, e)
      BY <1>2, <1>6, <2>7, <3>1 DEF Gave
    <3>3. turn.answer = "yes" => HasAnswer(w, turn.it)
      BY <1>6, <2>7 DEF HasAnswer
    <3> QED
      BY <2>5, <2>7, <3>2, <3>3 DEF turn
  <2> QED
    BY <2>4, <2>6, <2>7
<1>7. CASE w.kind = "iterator_p"
  <2>1. /\ w.x.t.mapper = identity_mapper /\ Swapped(w.line, w.n, w.x) /\ w.b = wildcard_symbol
        /\ Reached(w.line, w.n, Upper(w.a, w.b), w.base + w.c)
        /\ ListsPairs(w.y, w.line, w.n) /\ IndexesPairs(p_index, w.y)
    BY <1>7 DEF Walk, ByPair
  <2>2. PGoes(w.x, w.y, iter, w.a) /\ Reached(w.line, w.n, PNext(iter, w.a), w.base + e)
    BY <1>7 DEF Gave
  <2>3. turn = iterator_p_has_next(p_index, w.x.t, iter)
    BY <1>2, <1>7 DEF HasNextOf
  <2>4. /\ iter.j < iter.range_len => turn = Turn(iter, "yes")
        /\ \/ turn = Turn(iter, "no") /\ Reached(w.line, w.n, Upper(w.a, wildcard_symbol), w.base + e)
           \/ /\ turn.answer = "yes"
              /\ PGoes(w.x, w.y, turn.it, w.a) /\ Reached(w.line, w.n, PNext(turn.it, w.a), w.base + e)
              /\ turn.it.j < turn.it.range_len
    BY <1>1, <2>1, <2>2, <2>3, PTurns
  <2> HIDE DEF turn
  <2>5. HasAnswer(w, iter) => turn = Turn(iter, "yes")
    BY <1>7, <2>4 DEF HasAnswer
  <2>6. CASE turn = Turn(iter, "no") /\ Reached(w.line, w.n, Upper(w.a, wildcard_symbol), w.base + e)
    BY <1>3, <2>1, <2>5, <2>6 DEF turn
  <2>7. CASE /\ turn.answer = "yes"
             /\ PGoes(w.x, w.y, turn.it, w.a) /\ Reached(w.line, w.n, PNext(turn.it, w.a), w.base + e)
             /\ turn.it.j < turn.it.range_len
    <3>1. turn.it.kind = "iterator_p"
      BY <2>7 DEF PGoes
    <3>2. Gave(w, turn.it, e)
      BY <1>2, <1>7, <2>7, <3>1 DEF Gave
    <3>3. HasAnswer(w, turn.it)
      BY <1>7, <2>7 DEF HasAnswer
    <3> QED
      BY <2>5, <2>7, <3>2, <3>3 DEF turn
  <2> QED
    BY <2>4, <2>6, <2>7
<1> QED
  BY <1>4, <1>5, <1>6, <1>7 DEF Walk

(* What * gives on a pair.                                                 *)
PairGiven(iter) == [iter EXCEPT !.val.third = iter.third.node]

(* As PoAnswers says, of names for what * and ++ give.                     *)
LEMMA PoAnswersNamed ==
  ASSUME NEW x, Describes(x), x.t.mapper = identity_mapper,
         NEW line, NEW n, SortedLines(line, n), Swapped(line, n, x),
         NEW iter, NEW o, PoGoes(x, iter, o), NEW m, Reached(line, n, PoNext(iter, o), m),
         iter.j < iter.range_len,
         NEW given, given = PairGiven(iter), NEW to, to = iterator_po_next(x.t, iter)
  PROVE  /\ m + 1 \in 1 .. n /\ line[m + 1] = given.val
         /\ PoGoes(x, given, o) /\ PoNext(given, o) = PoNext(iter, o)
         /\ given.j < given.range_len /\ PairGiven(given) = given
         /\ PoGoes(x, to, o) /\ Reached(line, n, PoNext(to, o), m + 1)
<1>1. /\ m + 1 \in 1 .. n /\ line[m + 1] = PairGiven(iter).val
      /\ PoGoes(x, PairGiven(iter), o) /\ PoNext(PairGiven(iter), o) = PoNext(iter, o)
      /\ PairGiven(iter).j < PairGiven(iter).range_len /\ PairGiven(PairGiven(iter)) = PairGiven(iter)
      /\ PoGoes(x, iterator_po_next(x.t, iter), o)
      /\ Reached(line, n, PoNext(iterator_po_next(x.t, iter), o), m + 1)
  BY PoAnswers, Zenon DEF PairGiven
<1> QED
  BY <1>1, Zenon

(* iterator_p is on a pair of the predicate p, the m-th line from 0 next.  *)
PReads(x, line, n, y, iter, p, m) ==
  /\ Describes(x) /\ x.t.mapper = identity_mapper
  /\ SortedLines(line, n) /\ Swapped(line, n, x)
  /\ PGoes(x, y, iter, p) /\ Reached(line, n, PNext(iter, p), m) /\ iter.j < iter.range_len

(* As PAnswers says, of names for what * and ++ give.                      *)
LEMMA PAnswersNamed ==
  ASSUME NEW x, NEW line, NEW n, NEW y, NEW iter, NEW p, NEW m, PReads(x, line, n, y, iter, p, m),
         NEW given, given = PairGiven(iter), NEW to, to = iterator_po_next(x.t, iter)
  PROVE  /\ m + 1 \in 1 .. n /\ line[m + 1] = given.val
         /\ PGoes(x, y, given, p) /\ PNext(given, p) = PNext(iter, p)
         /\ given.j < given.range_len /\ PairGiven(given) = given
         /\ PGoes(x, y, to, p) /\ Reached(line, n, PNext(to, p), m + 1)
<1>1. /\ m + 1 \in 1 .. n /\ line[m + 1] = PairGiven(iter).val
      /\ PGoes(x, y, PairGiven(iter), p) /\ PNext(PairGiven(iter), p) = PNext(iter, p)
      /\ PairGiven(iter).j < PairGiven(iter).range_len /\ PairGiven(PairGiven(iter)) = PairGiven(iter)
      /\ PGoes(x, y, iterator_po_next(x.t, iter), p)
      /\ Reached(line, n, PNext(iterator_po_next(x.t, iter), p), m + 1)
  <2>1. /\ Describes(x) /\ x.t.mapper = identity_mapper
        /\ SortedLines(line, n) /\ Swapped(line, n, x)
        /\ PGoes(x, y, iter, p) /\ Reached(line, n, PNext(iter, p), m) /\ iter.j < iter.range_len
    BY DEF PReads
  <2> QED
    BY <2>1, PAnswers, Zenon DEF PairGiven
<1> QED
  BY <1>1, Zenon

(* On an answer, * gives it, again and again, and ++ goes past it.         *)
LEMMA WalkAnswers ==
  ASSUME NEW w, NEW p_index, Walk(w, p_index), NEW iter, NEW e, Gave(w, iter, e), HasAnswer(w, iter)
  PROVE  LET given == GivenOf(iter)
         IN  /\ e \in Nat /\ e < w.c /\ w.base + e + 1 \in 1 .. w.n
             /\ given.val = w.line[w.base + e + 1]
             /\ Gave(w, given, e) /\ HasAnswer(w, given) /\ GivenOf(given) = given
             /\ Gave(w, NextOf(w.x.t, iter), e + 1)
<1>1. /\ Describes(w.x) /\ SortedLines(w.line, w.n) /\ Block(w.line, w.n, w.a, w.b, w.base, w.c)
      /\ w.n \in Nat
  BY DEF Walk, SortedLines
<1>2. w.base \in Nat /\ w.c \in Nat /\ w.base + w.c <= w.n /\ e \in 0 .. w.c /\ e \in Nat /\ iter.kind = w.kind
  BY <1>1 DEF Block, Gave
<1>3. \A k : k = w.base + e => k + 1 = w.base + e + 1 /\ k + 1 = w.base + (e + 1)
  BY <1>2
<1>4. CASE w.kind = "iterator"
  <2>1. Goes(w.x, iter, w.base, w.c, e) /\ w.x.line = w.line /\ w.x.n = w.n
    BY <1>4 DEF Gave, Walk
  <2>2. GivenOf(iter) = iter
    BY <1>2, <1>4 DEF GivenOf
  <2>3. e < w.c
    BY <1>2, <1>4, <2>1 DEF HasAnswer, Goes
  <2>4. iter.val = w.line[w.base + e + 1]
    BY <2>1, <2>3 DEF Goes, AtPath
  <2>5. Goes(w.x, iterator_next(w.x.t, iter), w.base, w.c, e + 1)
    BY <1>1, <2>1, <2>3, IteratorMoves
  <2>6. NextOf(w.x.t, iter) = iterator_next(w.x.t, iter)
    BY <1>2, <1>4 DEF NextOf
  <2>7. iterator_next(w.x.t, iter).kind = "iterator"
    BY <2>5 DEF Goes
  <2>8. e + 1 \in 0 .. w.c /\ w.base + e + 1 \in 1 .. w.n
    BY <1>1, <1>2, <2>3
  <2>9. Gave(w, NextOf(w.x.t, iter), e + 1)
    BY <1>4, <2>5, <2>6, <2>7, <2>8 DEF Gave
  <2> QED
    BY <1>2, <2>2, <2>3, <2>4, <2>8, <2>9
<1>5. CASE w.kind = "iterator_so"
  <2>1. /\ w.x.t.mapper = identity_mapper /\ w.x.e3 \notin {"pef", "vb"} /\ Rotated(w.line, w.n, w.x)
    BY <1>5 DEF Walk
  <2>2. /\ SoGoes(w.x, iter, w.a, w.b)
        /\ Reached(w.line, w.n, SoNext(w.x, iter, w.a, w.b), w.base + e)
    BY <1>5 DEF Gave
  <2>3. SoReady(w.x, iter, w.a)
    BY <1>5 DEF HasAnswer
  <2>4. PICK m : m = w.base + e
    OBVIOUS
  <2>5. /\ m + 1 \in 1 .. w.n /\ w.line[m + 1] = iter.val
        /\ Answers(iter.val, w.a, w.b)
        /\ SoGoes(w.x, iterator_so_next(w.x.t, iter), w.a, w.b)
        /\ Reached(w.line, w.n, SoNext(w.x, iterator_so_next(w.x.t, iter), w.a, w.b), m + 1)
    BY <1>1, <2>1, <2>2, <2>3, <2>4, SoAnswers
  <2>6. e < w.c
    BY <1>1, <1>2, <1>3, <2>4, <2>5, AnswerCounted
  <2>7. e + 1 \in 0 .. w.c
    BY <1>2, <2>6
  <2>8. GivenOf(iter) = iter /\ NextOf(w.x.t, iter) = iterator_so_next(w.x.t, iter)
    BY <1>2, <1>5 DEF GivenOf, NextOf
  <2>9. iterator_so_next(w.x.t, iter).kind = "iterator_so"
    BY <2>5 DEF SoGoes
  <2>10. Gave(w, NextOf(w.x.t, iter), e + 1)
    BY <1>3, <1>5, <2>4, <2>5, <2>7, <2>8, <2>9 DEF Gave
  <2> QED
    BY <1>2, <1>3, <2>4, <2>5, <2>6, <2>8, <2>10
<1>6. CASE w.kind = "iterator_po"
  <2>1. w.x.t.mapper = identity_mapper /\ Swapped(w.line, w.n, w.x) /\ w.b = wildcard_symbol
    BY <1>6 DEF Walk, ByPair
  <2>2. PoGoes(w.x, iter, w.a) /\ Reached(w.line, w.n, PoNext(iter, w.a), w.base + e)
    BY <1>6 DEF Gave
  <2>3. iter.j < iter.range_len
    BY <1>6 DEF HasAnswer
  <2>4. PICK m : m = w.base + e
    OBVIOUS
  <2>5. PICK given, to : given = PairGiven(iter) /\ to = iterator_po_next(w.x.t, iter)
    OBVIOUS
  <2>6. /\ m + 1 \in 1 .. w.n /\ w.line[m + 1] = given.val
        /\ PoGoes(w.x, given, w.a) /\ PoNext(given, w.a) = PoNext(iter, w.a)
        /\ given.j < given.range_len /\ PairGiven(given) = given
        /\ PoGoes(w.x, to, w.a) /\ Reached(w.line, w.n, PoNext(to, w.a), m + 1)
    BY <1>1, <2>1, <2>2, <2>3, <2>4, <2>5, PoAnswersNamed
  <2>7. /\ given.kind = "iterator_po" /\ to.kind = "iterator_po" /\ given.val.first = w.a
    BY <2>6 DEF PoGoes, PairGoes
  <2>8. e < w.c
    <3>1. Answers(given.val, w.a, w.b)
      BY <2>1, <2>7 DEF Answers
    <3> QED
      BY <1>1, <1>2, <1>3, <2>4, <2>6, <3>1, AnswerCounted
  <2>9. e + 1 \in 0 .. w.c
    BY <1>2, <2>8
  <2>10. GivenOf(iter) = given /\ GivenOf(given) = given /\ NextOf(w.x.t, iter) = to
    <3>1. GivenOf(iter) = given
      BY <1>2, <1>6, <2>5 DEF GivenOf, PairGiven
    <3>2. GivenOf(given) = given
      BY <2>6, <2>7 DEF GivenOf, PairGiven
    <3>3. NextOf(w.x.t, iter) = to
      BY <1>2, <1>6, <2>5 DEF NextOf
    <3> QED
      BY <3>1, <3>2, <3>3
  <2>11. Gave(w, given, e) /\ HasAnswer(w, given)
    BY <1>2, <1>6, <2>2, <2>6, <2>7 DEF Gave, HasAnswer
  <2>12. Gave(w, to, e + 1)
    BY <1>3, <1>6, <2>4, <2>6, <2>7, <2>9 DEF Gave
  <2> QED
    BY <1>2, <1>3, <2>4, <2>6, <2>8, <2>10, <2>11, <2>12
<1>7. CASE w.kind = "iterator_p"
  <2>1. w.x.t.mapper = identity_mapper /\ Swapped(w.line, w.n, w.x) /\ w.b = wildcard_symbol
    BY <1>7 DEF Walk, ByPair
  <2>2. PGoes(w.x, w.y, iter, w.a) /\ Reached(w.line, w.n, PNext(iter, w.a), w.base + e)
    BY <1>7 DEF Gave
  <2>3. iter.j < iter.range_len
    BY <1>7 DEF HasAnswer
  <2>4. PICK m : m = w.base + e
    OBVIOUS
  <2>5. PICK given, to : given = PairGiven(iter) /\ to = iterator_po_next(w.x.t, iter)
    OBVIOUS
  <2>6. /\ m + 1 \in 1 .. w.n /\ w.line[m + 1] = given.val
        /\ PGoes(w.x, w.y, given, w.a) /\ PNext(given, w.a) = PNext(iter, w.a)
        /\ given.j < given.range_len /\ PairGiven(given) = given
        /\ PGoes(w.x, w.y, to, w.a) /\ Reached(w.line, w.n, PNext(to, w.a), m + 1)
    <3>1. PReads(w.x, w.line, w.n, w.y, iter, w.a, m)
      BY <1>1, <2>1, <2>2, <2>3, <2>4 DEF PReads
    <3> QED
      BY <2>5, <3>1, PAnswersNamed
  <2>7. /\ given.kind = "iterator_p" /\ to.kind = "iterator_p" /\ given.val.first = w.a
    BY <2>6 DEF PGoes, PairGoes
  <2>8. e < w.c
    <3>1. Answers(given.val, w.a, w.b)
      BY <2>1, <2>7 DEF Answers
    <3> QED
      BY <1>1, <1>2, <1>3, <2>4, <2>6, <3>1, AnswerCounted
  <2>9. e + 1 \in 0 .. w.c
    BY <1>2, <2>8
  <2>10. GivenOf(iter) = given /\ GivenOf(given) = given /\ NextOf(w.x.t, iter) = to
    <3>1. GivenOf(iter) = given
      BY <1>2, <1>7, <2>5 DEF GivenOf, PairGiven
    <3>2. GivenOf(given) = given
      BY <2>6, <2>7 DEF GivenOf, PairGiven
    <3>3. NextOf(w.x.t, iter) = to
      BY <1>2, <1>7, <2>5 DEF NextOf
    <3> QED
      BY <3>1, <3>2, <3>3
  <2>11. Gave(w, given, e) /\ HasAnswer(w, given)
    BY <1>2, <1>7, <2>2, <2>6, <2>7 DEF Gave, HasAnswer
  <2>12. Gave(w, to, e + 1)
    BY <1>3, <1>7, <2>4, <2>6, <2>7, <2>9 DEF Gave
  <2> QED
    BY <1>2, <1>3, <2>4, <2>6, <2>8, <2>10, <2>11, <2>12
<1> QED
  BY <1>4, <1>5, <1>6, <1>7 DEF Walk
-----------------------------------------------------------------------------
(* The lines of a permutation's file, in the order of its columns.         *)
FileLines(d, perm) == [i \in 1 .. Len(d.file[perm]) |-> read_next(perm, d.file[perm][i])]

(* The columns of a permutation are those of a line.                       *)
LEMMA ColumnsPermuted ==
  ASSUME NEW perm \in permutation_type
  PROVE  /\ Columns[perm][1] \in 1 .. 3 /\ Columns[perm][2] \in 1 .. 3 /\ Columns[perm][3] \in 1 .. 3
         /\ Columns[perm][1] \in {Subject, Predicate, Object}
BY DEF permutation_type, Columns, Subject, Predicate, Object

(* The ids of a column of the data have no gaps.                           *)
LEMMA IdsDense ==
  ASSUME NEW d, WellFormed(d), NEW column \in {Subject, Predicate, Object}
  PROVE  \E count \in Nat : {l[column] : l \in d.lines} = 0 .. count - 1
<1> DEFINE ids == {l[column] : l \in d.lines}
<1>1. ids = 0 .. Cardinality(ids) - 1
  BY DEF WellFormed
<1>2. IsFiniteSet(ids)
  <2> DEFINE file == d.file["spo"]
  <2>0. "spo" \in permutation_type
    BY DEF permutation_type
  <2>1. file \in Seq(d.lines) /\ d.lines = {file[i] : i \in 1 .. Len(file)} /\ Len(file) \in Nat
    <3>1. file \in Seq(d.lines) /\ d.lines = {file[i] : i \in 1 .. Len(file)}
      BY <2>0 DEF WellFormed
    <3> QED
      BY <3>1
  <2> DEFINE g == [i \in 1 .. Len(file) |-> file[i][column]]
  <2>2. g \in Surjection(1 .. Len(file), ids)
    <3> HIDE DEF file
    <3>1. \A i \in 1 .. Len(file) : file[i] \in d.lines
      BY <2>1
    <3>2. g \in [1 .. Len(file) -> ids]
      BY <3>1
    <3>3. \A v \in ids : \E i \in 1 .. Len(file) : g[i] = v
      BY <2>1
    <3> HIDE DEF g
    <3> QED
      BY <3>2, <3>3 DEF Surjection
  <2>3. 1 \in Int /\ Len(file) \in Int
    BY <2>1
  <2>4. IsFiniteSet(1 .. Len(file))
    BY <2>3, FS_Interval
  <2> HIDE DEF g, file
  <2> QED
    BY <2>2, <2>4, FS_Surjection
<1>3. Cardinality(ids) \in Nat
  BY <1>2, FS_CardinalityType
<1> QED
  BY <1>1, <1>3

(* A permutation file has a line of the data at every place, and all.      *)
LEMMA FileHasLines ==
  ASSUME NEW d, WellFormed(d), NEW perm \in permutation_type
  PROVE  /\ Len(d.file[perm]) \in Nat \ {0}
         /\ \A i \in 1 .. Len(d.file[perm]) :
              /\ d.file[perm][i] \in d.lines
              /\ FileLines(d, perm)[i] = read_next(perm, d.file[perm][i])
         /\ \A l \in d.lines : \E i \in 1 .. Len(d.file[perm]) : d.file[perm][i] = l
<1>1. /\ d.file[perm] \in Seq(d.lines) /\ d.lines # {}
      /\ d.lines = {d.file[perm][i] : i \in 1 .. Len(d.file[perm])}
  BY DEF WellFormed
<1>2. Len(d.file[perm]) \in Nat
  BY <1>1
<1>3. \A i \in 1 .. Len(d.file[perm]) : d.file[perm][i] \in d.lines
  BY <1>1
<1>4. \A l \in d.lines : \E i \in 1 .. Len(d.file[perm]) : d.file[perm][i] = l
  BY <1>1
<1>5. Len(d.file[perm]) # 0
  BY <1>1, <1>2, <1>4
<1>6. \A i \in 1 .. Len(d.file[perm]) : FileLines(d, perm)[i] = read_next(perm, d.file[perm][i])
  BY DEF FileLines
<1> QED
  BY <1>2, <1>3, <1>4, <1>5, <1>6

(* A line in the order of a permutation.                                   *)
LEMMA LineRead ==
  ASSUME NEW perm \in permutation_type, NEW l \in Nat \X Nat \X Nat
  PROVE  /\ read_next(perm, l) \in [first : Nat, second : Nat, third : Nat]
         /\ read_next(perm, l).first = l[Columns[perm][1]]
         /\ read_next(perm, l).second = l[Columns[perm][2]]
         /\ read_next(perm, l).third = l[Columns[perm][3]]
<1>1. l[1] \in Nat /\ l[2] \in Nat /\ l[3] \in Nat
  OBVIOUS
<1>2. \A c \in 1 .. 3 : l[c] \in Nat
  BY <1>1
<1> QED
  BY <1>2, ColumnsPermuted DEF read_next, Triplet

(* It is sorted, and its first ids have no gaps.                           *)
LEMMA FileSorted ==
  ASSUME NEW d, WellFormed(d), NEW perm \in permutation_type
  PROVE  /\ AreLines(perm, d.file[perm], FileLines(d, perm), Len(d.file[perm]))
         /\ SortedLines(FileLines(d, perm), Len(d.file[perm]))
<1>1. PICK n : n = Len(d.file[perm])
  OBVIOUS
<1>2. PICK line : line = FileLines(d, perm)
  OBVIOUS
<1>3. /\ n \in Nat \ {0}
      /\ \A i \in 1 .. n : /\ d.file[perm][i] \in d.lines
                           /\ line[i] = read_next(perm, d.file[perm][i])
      /\ \A l \in d.lines : \E i \in 1 .. n : d.file[perm][i] = l
  BY SMTT(30), <1>1, <1>2, FileHasLines
<1>4. d.lines \subseteq Nat \X Nat \X Nat
  BY DEF WellFormed
<1>5. \A i \in 1 .. n : /\ line[i] \in [first : Nat, second : Nat, third : Nat]
                        /\ line[i].first = d.file[perm][i][Columns[perm][1]]
  BY <1>3, <1>4, LineRead
<1>6. line \in [1 .. n -> [first : Nat, second : Nat, third : Nat]]
  <2>1. line = [i \in 1 .. n |-> line[i]]
    BY <1>1, <1>2 DEF FileLines
  <2> QED
    BY <1>5, <2>1
<1>7. \A k \in 1 .. n - 1 : Precedes(line[k], line[k + 1])
  <2> TAKE k \in 1 .. n - 1
  <2>1. Precedes(read_next(perm, d.file[perm][k]), read_next(perm, d.file[perm][k + 1]))
    BY <1>1 DEF WellFormed
  <2>2. k \in 1 .. n /\ k + 1 \in 1 .. n
    BY <1>3
  <2> QED
    BY <1>3, <2>1, <2>2
<1>8. ASSUME NEW f \in 0 .. line[n].first PROVE \E i \in 1 .. n : line[i].first = f
  <2> DEFINE column == Columns[perm][1]
  <2>1. column \in {Subject, Predicate, Object}
    BY ColumnsPermuted
  <2> HIDE DEF column
  <2>2. PICK count \in Nat : {l[column] : l \in d.lines} = 0 .. count - 1
    BY <2>1, IdsDense
  <2>3. n \in 1 .. n /\ line[n].first = d.file[perm][n][column] /\ d.file[perm][n] \in d.lines
    BY <1>3, <1>5 DEF column
  <2>4. line[n].first \in 0 .. count - 1
    BY <2>2, <2>3
  <2>5. f \in 0 .. count - 1
    BY <2>4
  <2>6. PICK l \in d.lines : l[column] = f
    BY <2>2, <2>5
  <2>7. PICK i \in 1 .. n : d.file[perm][i] = l
    BY <1>3
  <2> QED
    BY <1>5, <2>6, <2>7 DEF column
<1>9. SortedLines(line, n)
  BY <1>3, <1>6, <1>7, <1>8 DEF SortedLines
<1>10. AreLines(perm, d.file[perm], FileLines(d, perm), Len(d.file[perm]))
  BY DEF AreLines, FileLines
<1> QED
  BY <1>1, <1>2, <1>9, <1>10

-----------------------------------------------------------------------------
(* The columns of each permutation.                                        *)
LEMMA Readings ==
  ASSUME NEW l
  PROVE  /\ read_next("spo", l) = Triplet(l[1], l[2], l[3])
         /\ read_next("pos", l) = Triplet(l[2], l[3], l[1])
         /\ read_next("osp", l) = Triplet(l[3], l[1], l[2])
         /\ read_next("ops", l) = Triplet(l[3], l[2], l[1])
         /\ read_next("pso", l) = Triplet(l[2], l[1], l[3])
BY DEF read_next, Columns, Subject, Predicate, Object

(* A file lists the lines of the data and no others.                       *)
LEMMA ListsLines ==
  ASSUME NEW d, WellFormed(d), NEW perm \in permutation_type, NEW t
  PROVE  (\E i \in 1 .. Len(d.file[perm]) : FileLines(d, perm)[i] = t)
           <=> \E l \in d.lines : read_next(perm, l) = t
BY FileHasLines

(* identity_mapper leaves the ids as they are.                             *)
LEMMA IdentityMaps ==
  ASSUME NEW line, NEW n, SortedLines(line, n)
  PROVE  MapsLines(identity_mapper, line, n)
<1>1. \A i \in 1 .. n : line[i].third \in Nat
  BY DEF SortedLines
<1> QED
  BY <1>1 DEF MapsLines, map, unmap, identity_mapper, Triplet

(* sorted_array_mapper writes, for a line (p, o, s), the rank of s among   *)
(* the children of o in OSP.                                               *)
LEMMA SortedArrayMaps ==
  ASSUME NEW d, WellFormed(d)
  PROVE  LET osp == TrieOf("osp", d.file["osp"], identity_mapper)
         IN  MapsLines(sorted_array_mapper(osp.first_pointers, osp.second_nodes),
                       FileLines(d, "pos"), Len(d.file["pos"]))
<1> DEFINE osp == TrieOf("osp", d.file["osp"], identity_mapper)
           fp == osp.first_pointers
           sn == osp.second_nodes
           m == sorted_array_mapper(fp, sn)
           x == [t |-> Encoded(osp, "compact", "compact", identity_mapper),
                 second_nodes |-> sn, third_nodes |-> osp.third_nodes,
                 e2 |-> "compact", e3 |-> "compact",
                 line |-> FileLines(d, "osp"), n |-> Len(d.file["osp"])]
<1>0. "osp" \in permutation_type /\ "pos" \in permutation_type
  BY DEF permutation_type
<1>1. Describes(x) /\ x.t.first_pointers = fp /\ x.second_nodes = sn
  <2>1. /\ AreLines("osp", d.file["osp"], FileLines(d, "osp"), Len(d.file["osp"]))
        /\ SortedLines(FileLines(d, "osp"), Len(d.file["osp"]))
    BY <1>0, FileSorted
  <2>2. MapsLines(identity_mapper, FileLines(d, "osp"), Len(d.file["osp"]))
    BY <2>1, IdentityMaps
  <2>3. "compact" \in Encodings(osp.second_nodes) /\ "compact" \in Encodings(osp.third_nodes)
    BY DEF Encodings
  <2>4. Holds(Encoded(osp, "compact", "compact", identity_mapper), osp.second_nodes,
              osp.third_nodes, "compact", "compact", FileLines(d, "osp"), Len(d.file["osp"]))
    BY <2>1, <2>2, <2>3, EncodedHolds
  <2> HIDE DEF osp
  <2> QED
    BY <2>4 DEF Describes, Encoded
<1>2. PICK n : n = Len(d.file["pos"])
  OBVIOUS
<1>3. PICK line : line = FileLines(d, "pos")
  OBVIOUS
<1>4. x.line = FileLines(d, "osp") /\ x.n = Len(d.file["osp"])
  OBVIOUS
<1> HIDE DEF x, osp
<1>5. /\ WellFormedRanges(sn, fp) /\ x.n \in Nat \ {0} /\ Len(sn) \in Nat
  BY <1>1, LevelsDescribed DEF LevelsOf
<1>6. ASSUME NEW i \in 1 .. n
      PROVE  \E o \in 0 .. Len(fp) - 2 : \E j \in Positions(RangeAt(fp, o)) :
               line[i].second = o /\ sn[j + 1] = line[i].third
  <2>1. PICK l \in d.lines : line[i] = read_next("pos", l)
    <3>1. d.file["pos"][i] \in d.lines /\ FileLines(d, "pos")[i] = read_next("pos", d.file["pos"][i])
      BY <1>0, <1>2, FileHasLines
    <3> QED
      BY <1>3, <3>1
  <2>2. \E k \in 1 .. x.n : x.line[k] = read_next("osp", l)
    BY <1>0, <1>4, ListsLines
  <2>3. PICK k \in 0 .. x.n - 1 : x.line[k + 1] = read_next("osp", l)
    <3>1. PICK k \in 1 .. x.n : x.line[k] = read_next("osp", l)
      BY <2>2
    <3>2. k - 1 \in 0 .. x.n - 1 /\ (k - 1) + 1 = k
      BY <1>5
    <3> QED
      BY <3>1, <3>2
  <2>4. PICK o, j : OnPath(x.t, o, j, k)
    BY <1>1, PathExists DEF Describes
  <2>5. x.line[k + 1].first = o /\ x.line[k + 1].second = sn[j + 1]
    BY <1>1, <2>4, PathHolds DEF Describes, PathFacts, LineOfPath
  <2>6. line[i].second = o /\ line[i].third = sn[j + 1]
    <3>1. line[i] = Triplet(l[2], l[3], l[1]) /\ x.line[k + 1] = Triplet(l[3], l[1], l[2])
      BY <2>1, <2>3, Readings
    <3>2. line[i].second = l[3] /\ line[i].third = l[1]
      BY <3>1 DEF Triplet
    <3>3. x.line[k + 1].first = l[3] /\ x.line[k + 1].second = l[1]
      BY <3>1 DEF Triplet
    <3> QED
      BY <2>5, <3>2, <3>3
  <2>7. o \in 0 .. Len(fp) - 2 /\ j \in Positions(RangeAt(fp, o))
    BY <1>1, <2>4 DEF OnPath
  <2> QED
    BY <2>6, <2>7
<1>7. /\ m.kind # "identity" /\ m.pointers = fp /\ m.nodes = sn
  BY DEF sorted_array_mapper
<1> HIDE DEF m
<1>8. ASSUME NEW i \in 1 .. n, NEW o \in 0 .. Len(fp) - 2, NEW j \in Positions(RangeAt(fp, o)),
             line[i].second = o, sn[j + 1] = line[i].third
      PROVE  /\ map(m, line[i]) = j - fp[o + 1] /\ map(m, line[i]) \in Nat
             /\ unmap(m, Triplet(line[i].first, line[i].second, map(m, line[i]))) = line[i].third
  <2>1. find(sn, RangeAt(fp, o), line[i].third) = j
    BY <1>5, <1>8, FindIn
  <2>2. RangeAt(fp, o).begin = fp[o + 1]
    BY DEF RangeAt
  <2>3. map(m, line[i]) = j - fp[o + 1]
    BY <1>7, <1>8, <2>1, <2>2 DEF map, get_parent
  <2>4. j \in 0 .. Len(sn) - 1 /\ fp[o + 1] <= j
    BY <1>5, RangeIn
  <2>5. fp[o + 1] \in 0 .. Len(sn) - 1
    BY <1>5, RangeIn
  <2>6. (j - fp[o + 1]) + fp[o + 1] + 1 = j + 1 /\ j - fp[o + 1] \in Nat
    BY <1>5, <2>4, <2>5
  <2>7. unmap(m, Triplet(line[i].first, line[i].second, map(m, line[i])))
          = sn[map(m, line[i]) + fp[o + 1] + 1]
    BY <1>7, <1>8, <2>2 DEF unmap, get_parent, Triplet
  <2> QED
    BY <1>8, <2>3, <2>6, <2>7
<1>9. ASSUME NEW i \in 1 .. n, NEW k \in 1 .. n, line[i].second = line[k].second,
             line[i].third < line[k].third
      PROVE  map(m, line[i]) < map(m, line[k])
  <2>1. PICK o \in 0 .. Len(fp) - 2 : \E j \in Positions(RangeAt(fp, o)) :
               line[i].second = o /\ sn[j + 1] = line[i].third
    BY <1>6
  <2>2. PICK j \in Positions(RangeAt(fp, o)) : line[i].second = o /\ sn[j + 1] = line[i].third
    BY <2>1
  <2>3. PICK h \in Positions(RangeAt(fp, o)) : line[k].second = o /\ sn[h + 1] = line[k].third
    BY <1>6, <1>9, <2>2
  <2>4. map(m, line[i]) = j - fp[o + 1] /\ map(m, line[k]) = h - fp[o + 1]
    BY <1>8, <2>2, <2>3
  <2>5. /\ j \in 0 .. Len(sn) - 1 /\ h \in 0 .. Len(sn) - 1 /\ fp[o + 1] <= j /\ fp[o + 1] <= h
        /\ j < fp[o + 2] /\ h < fp[o + 2] /\ sn[j + 1] \in Nat /\ sn[h + 1] \in Nat
    BY <1>5, RangeIn
  <2>6. fp[o + 1] \in 0 .. Len(sn) - 1 /\ o + 1 \in 1 .. Len(fp) - 1 /\ (o + 1) + 1 = o + 2
    <3>1. fp[o + 1] \in 0 .. Len(sn) - 1 /\ Len(fp) \in Nat
      BY <1>5, RangeIn
    <3> QED
      BY <3>1
  <2>7. fp[o + 2] \in 1 .. Len(sn)
    BY <1>5, RangeIn
  <2>8. j + 1 \in fp[o + 1] + 1 .. fp[o + 2] /\ h + 1 \in fp[o + 1] + 1 .. fp[o + 2]
    <3>1. PICK a, b : a = fp[o + 1] /\ b = fp[o + 2]
      OBVIOUS
    <3>2. /\ a \in Int /\ b \in Int /\ j \in Int /\ h \in Int
          /\ a <= j /\ a <= h /\ j < b /\ h < b
      BY <1>5, <2>5, <2>6, <2>7, <3>1
    <3>3. j + 1 \in a + 1 .. b /\ h + 1 \in a + 1 .. b
      BY <3>2
    <3> QED
      BY <3>1, <3>3
  <2>9. h + 1 < j + 1 => sn[h + 1] < sn[j + 1]
    BY <1>5, <2>6, <2>8 DEF WellFormedRanges
  <2>10. sn[j + 1] < sn[h + 1]
    BY <1>9, <2>2, <2>3
  <2>11. j # h
    BY <2>5, <2>10
  <2>12. ~ (h < j)
    <3>1. h < j => h + 1 < j + 1
      BY <1>5, <2>5
    <3> QED
      BY SMTT(30), <2>5, <2>9, <2>10, <3>1
  <2> QED
    BY SMTT(30), <1>5, <2>4, <2>5, <2>6, <2>11, <2>12
<1>10. \A i \in 1 .. n :
         /\ map(m, line[i]) \in Nat
         /\ unmap(m, Triplet(line[i].first, line[i].second, map(m, line[i]))) = line[i].third
  <2> TAKE i \in 1 .. n
  <2>1. PICK o \in 0 .. Len(fp) - 2 : \E j \in Positions(RangeAt(fp, o)) :
               line[i].second = o /\ sn[j + 1] = line[i].third
    BY <1>6
  <2>2. PICK j \in Positions(RangeAt(fp, o)) : line[i].second = o /\ sn[j + 1] = line[i].third
    BY <2>1
  <2> QED
    BY <1>8, <2>2
<1>11. MapsLines(m, line, n)
  BY <1>9, <1>10 DEF MapsLines
<1> QED
  BY <1>2, <1>3, <1>11 DEF m, osp

-----------------------------------------------------------------------------
(* A trie of an index, with what it was built from.                        *)
Context(d, perm, levels, mapper) ==
  [t |-> BuildTrie(d, perm, levels, mapper),
   second_nodes |-> TrieOf(perm, d.file[perm], mapper).second_nodes,
   third_nodes |-> TrieOf(perm, d.file[perm], mapper).third_nodes,
   e2 |-> levels.second, e3 |-> levels.third,
   line |-> FileLines(d, perm), n |-> Len(d.file[perm])]

(* The encoders of a trie; the second level is a block_sequence if the     *)
(* third is.                                                               *)
GoodLevels(levels) ==
  /\ levels.second \in {"compact", "ef", "pef", "vb"}
  /\ levels.third \in {"compact", "ef", "pef", "vb"}
  /\ levels.third = "vb" => levels.second = "vb"

(* No level of a trie is a pef_sequence of a single partition.             *)
Partitioned(t) == ~ OnePartition(t.second_nodes) /\ ~ OnePartition(t.third_nodes)

(* So its encoders encode the nodes well.                                  *)
LEMMA EncodesWell ==
  ASSUME NEW from, NEW enc \in {"compact", "ef", "pef", "vb"}, NEW pointers,
         WellFormedRanges(from, pointers), ~ OnePartition(build(enc, from, pointers))
  PROVE  enc \in Encodings(from)
<1>1. CASE enc # "pef"
  BY <1>1 DEF Encodings
<1>2. CASE enc = "pef"
  <2>1. build("pef", from, pointers).values = raised(from, pointers)
        /\ build("pef", from, pointers).encoding = "pef"
    BY DEF build
  <2>2. raised(from, pointers) \in [1 .. Len(from) -> Nat] /\ Len(from) \in Nat
    <3>1. Len(from) \in Nat
      BY DEF WellFormedRanges
    <3> QED
      BY <3>1, Raised
  <2>3. size(build("pef", from, pointers)) = Len(from)
    <3>1. PICK values : values = raised(from, pointers)
      OBVIOUS
    <3>2. values \in Seq(Nat) /\ Len(values) = Len(from)
      BY <2>2, <3>1
    <3> QED
      BY <2>1, <3>1, <3>2 DEF size
  <2> QED
    BY <1>2, <2>1, <2>3 DEF OnePartition, Encodings
<1> QED
  BY <1>1, <1>2

(* It describes the trie.                                                  *)
LEMMA ContextDescribes ==
  ASSUME NEW d, WellFormed(d), NEW perm \in permutation_type, NEW levels, GoodLevels(levels),
         NEW mapper, MapsLines(mapper, FileLines(d, perm), Len(d.file[perm])),
         Partitioned(BuildTrie(d, perm, levels, mapper))
  PROVE  LET x == Context(d, perm, levels, mapper)
         IN  /\ Describes(x)
             /\ x.t = BuildTrie(d, perm, levels, mapper) /\ x.t.mapper = mapper
             /\ x.line = FileLines(d, perm) /\ x.n = Len(d.file[perm])
             /\ x.e2 = levels.second /\ x.e3 = levels.third
             /\ x.t.second_nodes.encoding = levels.second
<1> DEFINE x == Context(d, perm, levels, mapper)
           t == TrieOf(perm, d.file[perm], mapper)
<1>1. /\ x.t = BuildTrie(d, perm, levels, mapper)
      /\ x.second_nodes = t.second_nodes /\ x.third_nodes = t.third_nodes
      /\ x.line = FileLines(d, perm) /\ x.n = Len(d.file[perm])
      /\ x.e2 = levels.second /\ x.e3 = levels.third
  BY DEF Context
<1>2. x.t = Encoded(t, levels.second, levels.third, mapper)
  BY <1>1 DEF BuildTrie
<1>3. /\ AreLines(perm, d.file[perm], FileLines(d, perm), Len(d.file[perm]))
      /\ SortedLines(FileLines(d, perm), Len(d.file[perm]))
  BY FileSorted
<1>4. levels.second \in Encodings(t.second_nodes) /\ levels.third \in Encodings(t.third_nodes)
  <2>1. HoldsLines(t.first_pointers, t.second_nodes, t.second_pointers, t.third_nodes, mapper,
                   FileLines(d, perm), Len(d.file[perm]))
    BY <1>3, TrieHoldsLines
  <2> HIDE DEF t
  <2>2. /\ WellFormedRanges(t.second_nodes, t.first_pointers)
        /\ WellFormedRanges(t.third_nodes, t.second_pointers)
    BY <2>1 DEF HoldsLines
  <2>3. /\ x.t.second_nodes = build(levels.second, t.second_nodes, t.first_pointers)
        /\ x.t.third_nodes = build(levels.third, t.third_nodes, t.second_pointers)
    BY <1>2 DEF Encoded
  <2>4. ~ OnePartition(x.t.second_nodes) /\ ~ OnePartition(x.t.third_nodes)
    BY <1>1 DEF Partitioned
  <2> HIDE DEF x
  <2> QED
    BY <2>2, <2>3, <2>4, EncodesWell DEF GoodLevels
<1>5. Holds(Encoded(t, levels.second, levels.third, mapper), t.second_nodes, t.third_nodes,
            levels.second, levels.third, FileLines(d, perm), Len(d.file[perm]))
  BY <1>3, <1>4, EncodedHolds
<1> HIDE DEF x, t
<1>6. Describes(x)
  BY <1>1, <1>2, <1>5 DEF Describes
<1>7. x.t.mapper = mapper
  BY <1>2 DEF Encoded
<1>8. x.t.second_nodes.encoding = levels.second
  <2>1. /\ x.t.second_nodes = build(levels.second, x.second_nodes, x.t.first_pointers)
        /\ WellFormedRanges(x.second_nodes, x.t.first_pointers)
    BY <1>1, <1>6, LevelsDescribed DEF LevelsOf
  <2> QED
    BY <1>1, <1>4, <2>1, BuiltFields
<1> QED
  BY <1>1, <1>6, <1>7, <1>8 DEF x

(* The index types.                                                        *)
LEMMA TypeFacts ==
  ASSUME NEW name \in DOMAIN index_types
  PROVE  LET t == index_types[name]
         IN  /\ t.layout \in {"3t", "2tp", "2to"} /\ GoodLevels(t.spo) /\ t.spo.third # "pef"
             /\ t.layout = "3t" => /\ GoodLevels(t.pos) /\ GoodLevels(t.osp)
                                   /\ t.mapper \in {"identity", "sorted_array"}
             /\ t.layout = "2tp" => GoodLevels(t.pos)
             /\ t.layout = "2to" => GoodLevels(t.ops) /\ t.ops.second # "vb"
             /\ t.layout # "3t" => t.spo.second # "vb" /\ t.spo.third # "vb"
<1>1. /\ GoodLevels(compact_levels) /\ GoodLevels(ef_levels) /\ GoodLevels(pef_levels)
      /\ GoodLevels(pef_compact_levels) /\ GoodLevels(pef_compact_levels2) /\ GoodLevels(vb_levels)
      /\ \A t \in {compact_levels, ef_levels, pef_compact_levels, vb_levels} : t.third # "pef"
      /\ pef_compact_levels.second # "vb" /\ pef_compact_levels.third # "vb"
      /\ pef_levels.second # "vb"
  BY DEF GoodLevels, compact_levels, ef_levels, pef_levels, pef_compact_levels,
         pef_compact_levels2, vb_levels, Levels
<1>2. name \in {"compact_3t", "ef_3t", "pef_3t", "pef_r_3t", "pef_2tp", "vb_3t", "vb_2tp", "pef_2to"}
  BY DEF index_types
<1>3. CASE name = "compact_3t"
  BY <1>1, <1>3 DEF index_types
<1>4. CASE name = "ef_3t"
  BY <1>1, <1>4 DEF index_types
<1>5. CASE name = "pef_3t"
  BY <1>1, <1>5 DEF index_types
<1>6. CASE name = "pef_r_3t"
  BY <1>1, <1>6 DEF index_types
<1>7. CASE name = "pef_2tp"
  BY <1>1, <1>7 DEF index_types
<1>8. CASE name = "vb_3t"
  BY <1>1, <1>8 DEF index_types
<1>9. CASE name = "vb_2tp"
  BY <1>1, <1>9 DEF index_types
<1>10. CASE name = "pef_2to"
  BY <1>1, <1>10 DEF index_types
<1> QED
  BY <1>2, <1>3, <1>4, <1>5, <1>6, <1>7, <1>8, <1>9, <1>10

(* The tries of each layout.                                               *)
LEMMA TriesBuilt ==
  ASSUME NEW d, NEW name \in DOMAIN index_types
  PROVE  LET t == index_types[name]
             i == build_index(d, name)
             osp == TrieOf("osp", d.file["osp"], identity_mapper)
         IN  /\ i.spo = BuildTrie(d, "spo", t.spo, identity_mapper)
             /\ t.layout = "3t" =>
                  /\ i.osp = BuildTrie(d, "osp", t.osp, identity_mapper)
                  /\ t.mapper = "identity" => i.pos = BuildTrie(d, "pos", t.pos, identity_mapper)
                  /\ t.mapper # "identity" =>
                       i.pos = BuildTrie(d, "pos", t.pos,
                                         sorted_array_mapper(osp.first_pointers, osp.second_nodes))
             /\ t.layout = "2tp" => i.pos = BuildTrie(d, "pos", t.pos, identity_mapper)
             /\ t.layout = "2to" =>
                  /\ i.ops = BuildTrie(d, "ops", t.ops, identity_mapper)
                  /\ i.p_index = EncodedPredicateIndex(
                                   PredicateIndexOf(d.file["spo"],
                                                    Cardinality({l[Predicate] : l \in d.lines})), "pef")
<1>1. PICK t : t = index_types[name]
  OBVIOUS
<1>2. t.layout \in {"3t", "2tp", "2to"}
  BY <1>1, TypeFacts
<1>3. build_index(d, name) = CASE t.layout = "3t"  -> build_3t(d, t)
                               [] t.layout = "2tp" -> build_2tp(d, t)
                               [] t.layout = "2to" -> build_2to(d, t)
  BY <1>1 DEF build_index
<1>4. CASE t.layout = "3t"
  BY <1>1, <1>3, <1>4 DEF build_3t
<1>5. CASE t.layout = "2tp"
  BY <1>1, <1>3, <1>5 DEF build_2tp
<1>6. CASE t.layout = "2to"
  BY <1>1, <1>3, <1>6 DEF build_2to
<1> QED
  BY <1>2, <1>4, <1>5, <1>6


(* The tries that each layout has.                                         *)
Tries(name) ==
  CASE index_types[name].layout = "3t"  -> {"spo", "pos", "osp"}
    [] index_types[name].layout = "2tp" -> {"spo", "pos"}
    [] index_types[name].layout = "2to" -> {"spo", "ops"}

(* x describes the trie of a permutation.                                  *)
IndexTrie(x, d, name, perm) ==
  /\ Describes(x)
  /\ x.t = build_index(d, name)[perm]
  /\ perm = "spo" => x.e3 # "pef"
  /\ x.line = FileLines(d, perm) /\ x.n = Len(d.file[perm])
  /\ x.t.second_nodes.encoding = x.e2 /\ (x.e3 = "vb" => x.e2 = "vb")
  /\ perm = "spo" \/ index_types[name].layout # "3t" => x.t.mapper = identity_mapper
  /\ perm = "spo" /\ index_types[name].layout # "3t" => x.e2 # "vb" /\ x.e3 \notin {"pef", "vb"}
  /\ perm = "ops" => x.e2 # "vb"

(* Each is described.                                                      *)
LEMMA TriesDescribed ==
  ASSUME NEW d, WellFormed(d), NEW name \in DOMAIN index_types, NEW perm \in Tries(name),
         Partitioned(build_index(d, name)[perm])
  PROVE  perm \in permutation_type /\ \E x : IndexTrie(x, d, name, perm)
<1>1. PICK t : t = index_types[name]
  OBVIOUS
<1>2. PICK i : i = build_index(d, name)
  OBVIOUS
<1>3. PICK m : /\ m = sorted_array_mapper(TrieOf("osp", d.file["osp"], identity_mapper).first_pointers,
                                          TrieOf("osp", d.file["osp"], identity_mapper).second_nodes)
               /\ MapsLines(m, FileLines(d, "pos"), Len(d.file["pos"]))
  BY SortedArrayMaps
<1>4. /\ t.layout \in {"3t", "2tp", "2to"} /\ GoodLevels(t.spo) /\ t.spo.third # "pef"
      /\ t.layout = "3t" => /\ GoodLevels(t.pos) /\ GoodLevels(t.osp)
                            /\ t.mapper \in {"identity", "sorted_array"}
      /\ t.layout = "2tp" => GoodLevels(t.pos)
      /\ t.layout = "2to" => GoodLevels(t.ops) /\ t.ops.second # "vb"
      /\ t.layout # "3t" => t.spo.second # "vb" /\ t.spo.third # "vb"
  BY <1>1, TypeFacts
<1>5. /\ i.spo = BuildTrie(d, "spo", t.spo, identity_mapper)
      /\ t.layout = "3t" =>
           /\ i.osp = BuildTrie(d, "osp", t.osp, identity_mapper)
           /\ t.mapper = "identity" => i.pos = BuildTrie(d, "pos", t.pos, identity_mapper)
           /\ t.mapper # "identity" => i.pos = BuildTrie(d, "pos", t.pos, m)
      /\ t.layout = "2tp" => i.pos = BuildTrie(d, "pos", t.pos, identity_mapper)
      /\ t.layout = "2to" => i.ops = BuildTrie(d, "ops", t.ops, identity_mapper)
  BY <1>1, <1>2, <1>3, TriesBuilt
<1>6. /\ perm \in {"spo", "pos", "osp", "ops"}
      /\ perm = "pos" => t.layout \in {"3t", "2tp"}
      /\ perm = "osp" => t.layout = "3t"
      /\ perm = "ops" => t.layout = "2to"
  BY <1>1, <1>4 DEF Tries
<1>7. perm \in permutation_type
  BY <1>6 DEF permutation_type
<1>8. ASSUME NEW levels, GoodLevels(levels), NEW mapper,
             MapsLines(mapper, FileLines(d, perm), Len(d.file[perm])),
             i[perm] = BuildTrie(d, perm, levels, mapper),
             perm = "spo" \/ t.layout # "3t" => mapper = identity_mapper,
             perm = "spo" => levels.third # "pef",
             perm = "spo" /\ t.layout # "3t" => levels.second # "vb" /\ levels.third # "vb",
             perm = "ops" => levels.second # "vb"
      PROVE  \E x : IndexTrie(x, d, name, perm)
  <2>1. PICK x : /\ Describes(x) /\ x.t = BuildTrie(d, perm, levels, mapper) /\ x.t.mapper = mapper
                 /\ x.line = FileLines(d, perm) /\ x.n = Len(d.file[perm])
                 /\ x.e2 = levels.second /\ x.e3 = levels.third
                 /\ x.t.second_nodes.encoding = levels.second
    BY <1>2, <1>7, <1>8, ContextDescribes
  <2>2. IndexTrie(x, d, name, perm)
    BY <1>1, <1>2, <1>8, <2>1 DEF IndexTrie, GoodLevels
  <2> QED
    BY <2>2
<1>9. MapsLines(identity_mapper, FileLines(d, perm), Len(d.file[perm]))
  BY <1>7, FileSorted, IdentityMaps
<1>10. ASSUME perm = "spo" PROVE \E x : IndexTrie(x, d, name, perm)
  <2>1. i[perm] = BuildTrie(d, perm, t.spo, identity_mapper)
    BY <1>5, <1>10
  <2>2. GoodLevels(t.spo) /\ t.spo.third # "pef" /\ (t.layout # "3t" => t.spo.second # "vb" /\ t.spo.third # "vb")
    BY <1>4
  <2> QED
    BY <1>8, <1>9, <1>10, <2>1, <2>2
<1>11. ASSUME perm = "osp" PROVE \E x : IndexTrie(x, d, name, perm)
  <2>1. i[perm] = BuildTrie(d, perm, t.osp, identity_mapper) /\ GoodLevels(t.osp)
    BY <1>4, <1>5, <1>6, <1>11
  <2> QED
    BY <1>8, <1>9, <1>11, <2>1
<1>12. ASSUME perm = "ops" PROVE \E x : IndexTrie(x, d, name, perm)
  <2>1. i[perm] = BuildTrie(d, perm, t.ops, identity_mapper) /\ GoodLevels(t.ops) /\ t.ops.second # "vb"
    BY <1>4, <1>5, <1>6, <1>12
  <2> QED
    BY <1>8, <1>9, <1>12, <2>1
<1>13. ASSUME perm = "pos", t.layout = "3t", t.mapper # "identity"
       PROVE  \E x : IndexTrie(x, d, name, perm)
  <2>1. i[perm] = BuildTrie(d, perm, t.pos, m) /\ GoodLevels(t.pos)
    BY <1>4, <1>5, <1>13
  <2>2. MapsLines(m, FileLines(d, perm), Len(d.file[perm]))
    BY <1>3, <1>13
  <2>3. ~ (perm = "spo" \/ t.layout # "3t")
    BY <1>13
  <2> QED
    BY <1>8, <1>13, <2>1, <2>2, <2>3
<1>14. ASSUME perm = "pos", ~ (t.layout = "3t" /\ t.mapper # "identity")
       PROVE  \E x : IndexTrie(x, d, name, perm)
  <2>1. i[perm] = BuildTrie(d, perm, t.pos, identity_mapper) /\ GoodLevels(t.pos)
    BY <1>4, <1>5, <1>6, <1>14
  <2> QED
    BY <1>8, <1>9, <1>14, <2>1
<1>15. \E x : IndexTrie(x, d, name, perm)
  BY <1>6, <1>10, <1>11, <1>12, <1>13, <1>14
<1> QED
  BY <1>7, <1>15

(* An id of the data is in the range of the first level.                   *)
LEMMA IdsInRange ==
  ASSUME NEW d, WellFormed(d), NEW perm \in permutation_type, NEW l \in d.lines, NEW x,
         Describes(x), x.line = FileLines(d, perm), x.n = Len(d.file[perm])
  PROVE  /\ l[Columns[perm][1]] \in 0 .. Len(x.t.first_pointers) - 2
         /\ l \in Nat \X Nat \X Nat
<1>1. /\ x.n \in Nat \ {0} /\ Len(x.t.first_pointers) = x.line[x.n].first + 2
      /\ x.line \in [1 .. x.n -> [first : Nat, second : Nat, third : Nat]]
  BY LevelsDescribed DEF LevelsOf
<1>2. l \in Nat \X Nat \X Nat
  BY DEF WellFormed
<1>3. PICK i \in 1 .. x.n : x.line[i] = read_next(perm, l)
  BY FileHasLines
<1>4. x.line[i].first = l[Columns[perm][1]] /\ x.line[i].first \in Nat
  BY <1>2, <1>3, LineRead
<1>5. SortedLines(x.line, x.n)
  BY FileSorted
<1>6. x.n \in 1 .. x.n /\ (i = x.n \/ i < x.n)
  BY <1>1
<1>7. x.line[i].first <= x.line[x.n].first /\ x.line[x.n].first \in Nat
  <2>1. x.line[x.n].first \in Nat
    BY <1>1, <1>6
  <2>2. CASE i = x.n
    BY <1>4, <2>1, <2>2
  <2>3. CASE i < x.n
    BY <1>5, <1>6, <2>1, <2>3, LinesInOrder
  <2> QED
    BY <1>6, <2>2, <2>3
<1> QED
  BY <1>1, <1>2, <1>4, <1>7


(* They are the fields of the index, and none is the predicate index.      *)
LEMMA TriesNamed ==
  ASSUME NEW d, NEW name \in DOMAIN index_types
  PROVE  Tries(name) \subseteq DOMAIN build_index(d, name) \ {"p_index"}
<1>1. PICK t : t = index_types[name]
  OBVIOUS
<1>2. t.layout \in {"3t", "2tp", "2to"}
  BY <1>1, TypeFacts
<1>3. build_index(d, name) = CASE t.layout = "3t"  -> build_3t(d, t)
                               [] t.layout = "2tp" -> build_2tp(d, t)
                               [] t.layout = "2to" -> build_2to(d, t)
  BY <1>1 DEF build_index
<1>4. CASE t.layout = "3t"
  <2>1. DOMAIN build_3t(d, t) = {"spo", "pos", "osp"}
    BY DEF build_3t
  <2> QED
    BY <1>1, <1>3, <1>4, <2>1 DEF Tries
<1>5. CASE t.layout = "2tp"
  <2>1. DOMAIN build_2tp(d, t) = {"spo", "pos"}
    BY DEF build_2tp
  <2> QED
    BY <1>1, <1>3, <1>5, <2>1 DEF Tries
<1>6. CASE t.layout = "2to"
  <2>1. DOMAIN build_2to(d, t) = {"spo", "ops", "p_index"}
    BY DEF build_2to
  <2> QED
    BY <1>1, <1>3, <1>6, <2>1 DEF Tries
<1> QED
  BY <1>2, <1>4, <1>5, <1>6

-----------------------------------------------------------------------------
(* What does not change while a client asks.                               *)
Built ==
  /\ type \in IndexTypes /\ type \in DOMAIN index_types
  /\ data \in Datasets /\ WellFormed(data)
  /\ index = build_index(data, type)
  /\ \A perm \in Tries(type) : Partitioned(index[perm])
  /\ layout = "2to" => ~ OnePartition(index.p_index.nodes)

(* Every step leaves the index as the builders made it.                    *)
LEMMA BuiltAlways ==
  ASSUME Unguarded = FALSE
  PROVE  Spec => []Built
<1>1. Init => Built
  <2> SUFFICES ASSUME Init PROVE Built
    OBVIOUS
  <2>1. /\ type \in IndexTypes /\ type \in DOMAIN index_types
        /\ data \in Datasets /\ WellFormed(data)
        /\ index = build_index(data, type) /\ SeveralPartitions
    BY IndexAssumption DEF Init
  <2>2. Tries(type) \subseteq DOMAIN index \ {"p_index"}
    BY <2>1, TriesNamed
  <2> QED
    BY <2>1, <2>2 DEF Built, SeveralPartitions, Partitioned
<1>2. Built /\ [Next]_vars => Built'
  BY DEF Built, Next, vars, layout, SelectAll, Select, IsMember, HasNext, Dereference, Increment
<1> QED
  BY <1>1, <1>2, PTL DEF Spec

(* The SPO trie is in each layout; what a client asks is in the data.      *)
LEMMA SpoTrie ==
  ASSUME Built
  PROVE  /\ TrieFor("spo") = index.spo
         /\ \E x : IndexTrie(x, data, type, "spo") /\ x.t = index.spo
<1>1. layout \in {"3t", "2tp", "2to"}
  BY TypeFacts DEF Built, layout
<1>2. TrieFor("spo") = index.spo
  BY <1>1 DEF TrieFor
<1>3. "spo" \in Tries(type)
  BY <1>1 DEF Tries, layout
<1>4. PICK x : IndexTrie(x, data, type, "spo")
  BY <1>3, TriesDescribed DEF Built
<1>5. x.t = index.spo
  BY <1>4 DEF IndexTrie, Built
<1> QED
  BY <1>2, <1>4, <1>5

(* Each id of a query for a whole triplet is in the data.                  *)
LEMMA AskedIds ==
  ASSUME Built, NEW q \in Triplets
  PROVE  /\ q \in [first : Nat, second : Nat, third : Nat]
         /\ \A l \in data.lines : l \in Nat \X Nat \X Nat
         /\ \E l \in data.lines : l[Subject] = q.first
         /\ \E l \in data.lines : l[Predicate] = q.second
         /\ \E l \in data.lines : l[Object] = q.third
<1>1. data.lines \subseteq Nat \X Nat \X Nat
  BY DEF Built, WellFormed
<1>2. \A l \in data.lines : l[1] \in Nat /\ l[2] \in Nat /\ l[3] \in Nat
  BY <1>1
<1>3. /\ q \in [first : Ids(Subject), second : Ids(Predicate), third : Ids(Object)]
      /\ q.first \in Ids(Subject) /\ q.second \in Ids(Predicate) /\ q.third \in Ids(Object)
  BY DEF Triplets
<1>4. Ids(Subject) \subseteq Nat /\ Ids(Predicate) \subseteq Nat /\ Ids(Object) \subseteq Nat
  BY <1>2 DEF Ids, Subject, Predicate, Object
<1>5. q \in [first : Nat, second : Nat, third : Nat]
  BY <1>3, <1>4
<1>6. /\ \E l \in data.lines : l[Subject] = q.first
      /\ \E l \in data.lines : l[Predicate] = q.second
      /\ \E l \in data.lines : l[Object] = q.third
  BY <1>3 DEF Ids
<1> QED
  BY <1>1, <1>5, <1>6

(* What is_member answers: the position of the line in the SPO file, or    *)
(* that it is not in the data.                                             *)
RightMember(answer, q) ==
  \/ /\ answer \in 0 .. Len(data.file["spo"]) - 1
     /\ FileLines(data, "spo")[answer + 1] = q
  \/ /\ answer = not_found
     /\ \A l \in data.lines : read_next("spo", l) # q

(* is_member is right of every triplet a client asks about.                *)
LEMMA MemberRight ==
  ASSUME Built, NEW q \in Triplets,
         ~ AbsenceUnseen(q, Permuted("spo", q.first, q.second, q.third))
  PROVE  RightMember(is_member(index.spo, q), q)
<1>1. PICK x : IndexTrie(x, data, type, "spo") /\ x.t = index.spo
  BY SpoTrie
<1>2. /\ Describes(x) /\ x.t.mapper = identity_mapper
      /\ x.line = FileLines(data, "spo") /\ x.n = Len(data.file["spo"])
      /\ index.spo.second_nodes.encoding = x.e2 /\ (x.e3 = "vb" => x.e2 = "vb")
      /\ x.e3 # "pef"
  BY <1>1 DEF IndexTrie
<1>3. "spo" \in permutation_type /\ WellFormed(data)
  BY DEF permutation_type, Built
<1>4. /\ q \in [first : Nat, second : Nat, third : Nat]
      /\ q.first \in Nat /\ q.second \in Nat /\ q.third \in Nat
  BY AskedIds
<1>5. q.first \in 0 .. Len(x.t.first_pointers) - 2
  <2>1. PICK l \in data.lines : l[Subject] = q.first
    BY AskedIds
  <2>2. Columns["spo"][1] = Subject
    BY DEF Columns
  <2> QED
    BY <1>2, <1>3, <2>1, <2>2, IdsInRange
<1>6. \A l : read_next("spo", l) = Triplet(l[1], l[2], l[3])
  BY Readings
<1>7. (\E i \in 1 .. x.n : x.line[i] = q) <=> \E l \in data.lines : read_next("spo", l) = q
  <2>1. (\E i \in 1 .. Len(data.file["spo"]) : FileLines(data, "spo")[i] = q)
           <=> \E l \in data.lines : read_next("spo", l) = q
    BY <1>3, ListsLines
  <2> QED
    BY <1>2, <2>1, Zenon
<1>10. /\ TrieFor("spo").second_nodes.encoding = "vb" => Occurs(q)
       /\ ~ past_bounds(x.t.second_nodes, RangeAt(x.t.first_pointers, q.first), q.second)
  <2>1. PICK p : p = Permuted("spo", q.first, q.second, q.third)
    OBVIOUS
  <2>2. /\ p.perm = "spo" /\ p.triplet.first = q.first /\ p.triplet.second = q.second
    BY <2>1 DEF Permuted, Triplet
  <2>3. TrieFor("spo") = x.t
    BY <1>1, SpoTrie
  <2>4. LooksUnder(p) = {q.first}
    BY <2>2, Zenon DEF LooksUnder
  <2>5. Given(q.second)
    BY <1>4 DEF Given, wildcard_symbol
  <2> QED
    BY <2>1, <2>2, <2>3, <2>4, <2>5 DEF AbsenceUnseen
<1>8. \/ x.e2 = "vb" \/ x.e3 = "vb"
      \/ past_bounds(x.t.second_nodes, RangeAt(x.t.first_pointers, q.first), q.second)
      => \E i \in 1 .. x.n : x.line[i] = q
  <2> SUFFICES ASSUME x.e2 = "vb" PROVE \E l \in data.lines : read_next("spo", l) = q
    BY <1>2, <1>7, <1>10
  <2>1. TrieFor("spo").second_nodes.encoding = "vb"
    BY <1>2, SpoTrie
  <2>2. Occurs(q)
    BY <1>10, <2>1
  <2>3. PICK l \in data.lines : /\ q.first \in {wildcard_symbol, l[Subject]}
                                /\ q.second \in {wildcard_symbol, l[Predicate]}
                                /\ q.third \in {wildcard_symbol, l[Object]}
    BY <2>2 DEF Occurs
  <2>4. q.first = l[1] /\ q.second = l[2] /\ q.third = l[3]
    BY <1>4, <2>3 DEF wildcard_symbol, Subject, Predicate, Object
  <2>5. q = Triplet(q.first, q.second, q.third)
    BY <1>4 DEF Triplet
  <2> QED
    BY <1>6, <2>4, <2>5
<1>9. \/ is_member(x.t, q) \in 0 .. x.n - 1 /\ x.line[is_member(x.t, q) + 1] = q
      \/ is_member(x.t, q) = not_found /\ \A i \in 1 .. x.n : x.line[i] # q
  <2>1. x.t.mapper.kind = "identity"
    BY <1>2 DEF identity_mapper
  <2> QED
    BY <1>2, <1>4, <1>5, <1>8, <2>1, MemberFound DEF Describes
<1> QED
  BY <1>1, <1>2, <1>7, <1>9 DEF RightMember

(* The answer to a membership query is right, from when it is given.       *)
MemberInv ==
  triplet_id # garbage =>
    pc = "end" /\ pattern \in Triplets /\ RightMember(triplet_id, pattern)

(* A membership answer, once given, stays right.                           *)
LEMMA MemberAlways ==
  ASSUME Unguarded = FALSE
  PROVE  Spec => []MemberInv
<1>1. Init => MemberInv
  BY DEF Init, MemberInv
<1>2. Built /\ MemberInv /\ [Next]_vars => MemberInv'
  <2> SUFFICES ASSUME Built, MemberInv, [Next]_vars PROVE MemberInv'
    OBVIOUS
  <2>1. CASE UNCHANGED vars
    BY <2>1 DEF MemberInv, RightMember, vars, Triplets, Ids
  <2>2. CASE SelectAll
    BY <2>2 DEF MemberInv, SelectAll
  <2>3. ASSUME NEW q \in Patterns, Select(q) PROVE MemberInv'
    <3>1. triplet_id' = garbage /\ pc' # "idle"
      BY <2>3 DEF MemberInv, Select
    <3> QED
      BY <3>1 DEF MemberInv
  <2>4. ASSUME NEW q \in Triplets, IsMember(q) PROVE MemberInv'
    <3>1. /\ pc' = "end" /\ pattern' = q /\ triplet_id' = is_member(index.spo, q)
          /\ data' = data /\ ~ AbsenceUnseen(q, Permuted("spo", q.first, q.second, q.third))
      BY <2>4 DEF IsMember, MemberInv
    <3>2. RightMember(triplet_id', q)
      BY <3>1, MemberRight
    <3> QED
      BY <2>4, <3>1, <3>2 DEF MemberInv, RightMember, Triplets, Ids
  <2>5. CASE HasNext \/ Dereference \/ Increment
    <3>1. triplet_id = garbage
      BY <2>5 DEF MemberInv, HasNext, Dereference, Increment
    <3>2. triplet_id' = garbage
      BY <2>5, <3>1 DEF HasNext, Dereference, Increment
    <3> QED
      BY <3>2 DEF MemberInv
  <2> QED
    BY <2>1, <2>2, <2>3, <2>4, <2>5 DEF Next
<1> QED
  BY <1>1, <1>2, BuiltAlways, PTL DEF Spec

(* is_member gives the position of the triplet in the SPO file, of an      *)
(* index whose pef_sequences have several partitions each and a triplet    *)
(* that find sees is there or not (Unguarded is FALSE).                    *)
THEOREM MemberPositionHolds ==
  ASSUME Unguarded = FALSE
  PROVE  Spec => []MemberPosition
<1>1. Built /\ MemberInv => MemberPosition
  <2> SUFFICES ASSUME Built, MemberInv, triplet_id \notin {garbage, not_found}
               PROVE  read_next("spo", data.file["spo"][triplet_id + 1]) = pattern
    BY DEF MemberPosition
  <2>1. /\ triplet_id \in 0 .. Len(data.file["spo"]) - 1
        /\ FileLines(data, "spo")[triplet_id + 1] = pattern
    BY DEF MemberInv, RightMember
  <2>2. "spo" \in permutation_type /\ WellFormed(data)
    BY DEF permutation_type, Built
  <2>3. Len(data.file["spo"]) \in Nat
    BY <2>2, FileHasLines
  <2>4. triplet_id + 1 \in 1 .. Len(data.file["spo"])
    BY <2>1, <2>3
  <2> QED
    BY <2>1, <2>2, <2>4, FileHasLines
<1> QED
  BY <1>1, BuiltAlways, MemberAlways, PTL


-----------------------------------------------------------------------------
(* What a selection walks: a walk w over the lines of a file, in the order *)
(* of some permutation, of the answers to the ids a and b, with t as its   *)
(* trie, at its start.                                                     *)
Started(w, p_index, t, d, order, a, b, walker) ==
  /\ Walk(w, p_index) /\ w.x.t = t
  /\ w.line = FileLines(d, order) /\ w.n = Len(d.file[order])
  /\ w.a = a /\ w.b = b /\ Gave(w, walker, 0)

(* The record of a walk.                                                   *)
WalkOf(kind, x, y, d, order, a, b, base, c) ==
  [kind |-> kind, x |-> x, y |-> y, line |-> FileLines(d, order), n |-> Len(d.file[order]),
   a |-> a, b |-> b, base |-> base, c |-> c]

(* A line has the node of its second id among the children of its first.   *)
LEMMA LineHasNode ==
  ASSUME NEW x, Describes(x), NEW i \in 1 .. x.n
  PROVE  /\ x.line[i].first \in 0 .. Len(x.t.first_pointers) - 2
         /\ \E j \in Positions(RangeAt(x.t.first_pointers, x.line[i].first)) :
              x.second_nodes[j + 1] = x.line[i].second
BY WayToLine DEF OnPath

(* trie::select, of a first id that is in the data and a second that it    *)
(* has found, or any.                                                      *)
LEMMA IteratorWalk ==
  ASSUME NEW d, WellFormed(d), NEW name \in DOMAIN index_types, NEW perm \in permutation_type,
         NEW x, IndexTrie(x, d, name, perm), NEW p_index,
         NEW l \in d.lines, NEW t, t.first = read_next(perm, l).first,
         t.second \in Nat \cup {wildcard_symbol}, SelectedNode(x.t, t) # not_found,
         x.e2 = "vb" /\ t.second # wildcard_symbol => t.second = read_next(perm, l).second,
         t.second # wildcard_symbol =>
           ~ past_bounds(x.t.second_nodes, RangeAt(x.t.first_pointers, t.first), t.second)
  PROVE  \E w : Started(w, p_index, x.t, d, perm, t.first, t.second, select(x.t, t))
<1>1. /\ Describes(x) /\ x.line = FileLines(d, perm) /\ x.n = Len(d.file[perm])
  BY DEF IndexTrie
<1>2. t.first \in 0 .. Len(x.t.first_pointers) - 2
  <2>1. /\ l[Columns[perm][1]] \in 0 .. Len(x.t.first_pointers) - 2
        /\ l \in Nat \X Nat \X Nat
    BY <1>1, IdsInRange
  <2> QED
    BY <2>1, LineRead
<1>3. SortedLines(FileLines(d, perm), Len(d.file[perm]))
  BY FileSorted
<1>4. ASSUME NEW base, NEW c, Goes(x, select(x.t, t), base, c, 0),
             Block(x.line, x.n, t.first, t.second, base, c)
      PROVE  \E w : Started(w, p_index, x.t, d, perm, t.first, t.second, select(x.t, t))
  <2>1. PICK w : w = WalkOf("iterator", x, x, d, perm, t.first, t.second, base, c)
    OBVIOUS
  <2>2. /\ w.kind = "iterator" /\ w.x = x /\ w.line = x.line /\ w.n = x.n
        /\ w.a = t.first /\ w.b = t.second /\ w.base = base /\ w.c = c
    BY <1>1, <2>1 DEF WalkOf
  <2>3. Walk(w, p_index)
    BY <1>1, <1>3, <1>4, <2>2 DEF Walk
  <2>4. select(x.t, t).kind = "iterator"
    BY <1>4 DEF Goes
  <2>5. 0 \in 0 .. c
    BY <1>4 DEF Block
  <2>6. Gave(w, select(x.t, t), 0)
    BY <1>4, <2>2, <2>4, <2>5 DEF Gave
  <2> QED
    BY <1>1, <2>2, <2>3, <2>6 DEF Started
<1>5. CASE t.second = wildcard_symbol
  BY <1>1, <1>2, <1>4, <1>5, SelectsFirst
<1>6. CASE t.second # wildcard_symbol
  <2>1. t.second \in Nat
    BY <1>6
  <2>2. /\ SelectedNode(x.t, t) \in Positions(RangeAt(x.t.first_pointers, t.first))
        /\ x.second_nodes[SelectedNode(x.t, t) + 1] = t.second
    <3>1. PICK first \in 0 .. Len(x.t.first_pointers) - 2 : first = t.first
      BY <1>2
    <3>2. SelectedNode(x.t, t) = find_node(x.t.second_nodes, RangeAt(x.t.first_pointers, first), t.second)
      BY <1>6, <3>1 DEF SelectedNode
    <3>3. ASSUME x.e2 = "vb"
          PROVE  \E j \in Positions(RangeAt(x.t.first_pointers, first)) : x.second_nodes[j + 1] = t.second
      <4>1. PICK i \in 1 .. x.n : x.line[i] = read_next(perm, l)
        BY SMTT(30), <1>1, FileHasLines
      <4>2. PICK j \in Positions(RangeAt(x.t.first_pointers, x.line[i].first)) :
                   x.second_nodes[j + 1] = x.line[i].second
        BY <1>1, LineHasNode
      <4> QED
        BY <1>6, <3>1, <3>3, <4>1, <4>2
    <3>4. Unrefused(x.t.second_nodes, RangeAt(x.t.first_pointers, first), t.second)
            => \E j \in Positions(RangeAt(x.t.first_pointers, first)) : x.second_nodes[j + 1] = t.second
      <4>1. x.t.second_nodes.encoding = x.e2
        BY DEF IndexTrie
      <4> QED
        BY <1>6, <3>1, <3>3, <4>1 DEF Unrefused
    <3> QED
      BY <1>1, <2>1, <3>1, <3>2, <3>4, FindsSecond DEF Describes
  <2> QED
    BY <1>1, <1>2, <1>4, <2>1, <2>2, SelectsPair
<1> QED
  BY <1>5, <1>6


(* The lines of a trie are those of the data.                              *)
LinesOf(x, d, perm) ==
  /\ \A t : (\E i \in 1 .. x.n : x.line[i] = t) <=> \E l \in d.lines : read_next(perm, l) = t
  /\ \A i \in 1 .. x.n : \E l \in d.lines : x.line[i] = read_next(perm, l)
  /\ \A l \in d.lines : \E i \in 1 .. x.n : x.line[i] = read_next(perm, l)

(* They are, as its file lists them.                                       *)
LEMMA LinesHeld ==
  ASSUME NEW d, WellFormed(d), NEW perm \in permutation_type, NEW x,
         x.line = FileLines(d, perm), x.n = Len(d.file[perm])
  PROVE  LinesOf(x, d, perm)
<1>1. ASSUME NEW t
      PROVE  (\E i \in 1 .. x.n : x.line[i] = t) <=> \E l \in d.lines : read_next(perm, l) = t
  BY ListsLines
<1>2. ASSUME NEW i \in 1 .. x.n PROVE \E l \in d.lines : x.line[i] = read_next(perm, l)
  BY <1>1
<1>3. ASSUME NEW l \in d.lines PROVE \E i \in 1 .. x.n : x.line[i] = read_next(perm, l)
  BY <1>1
<1> QED
  BY <1>1, <1>2, <1>3 DEF LinesOf

(* The ids of a line of the data, as each permutation reads them.          *)
LEMMA ReadFields ==
  ASSUME NEW l
  PROVE  /\ read_next("spo", l).first = l[Subject] /\ read_next("spo", l).second = l[Predicate]
         /\ read_next("spo", l).third = l[Object]
         /\ read_next("pos", l).first = l[Predicate] /\ read_next("pos", l).second = l[Object]
         /\ read_next("pos", l).third = l[Subject]
         /\ read_next("osp", l).first = l[Object] /\ read_next("osp", l).second = l[Subject]
         /\ read_next("osp", l).third = l[Predicate]
         /\ read_next("ops", l).first = l[Object] /\ read_next("ops", l).second = l[Predicate]
         /\ read_next("ops", l).third = l[Subject]
         /\ read_next("pso", l).first = l[Predicate] /\ read_next("pso", l).second = l[Subject]
         /\ read_next("pso", l).third = l[Object]
<1>1. \A a, b, c : Triplet(a, b, c).first = a /\ Triplet(a, b, c).second = b /\ Triplet(a, b, c).third = c
  BY DEF Triplet
<1> QED
  <2>1. PICK a, b, c : a = l[1] /\ b = l[2] /\ c = l[3]
    OBVIOUS
  <2>2. l[Subject] = a /\ l[Predicate] = b /\ l[Object] = c
    BY <2>1 DEF Subject, Predicate, Object
  <2>3. /\ read_next("spo", l) = Triplet(a, b, c) /\ read_next("pos", l) = Triplet(b, c, a)
        /\ read_next("osp", l) = Triplet(c, a, b) /\ read_next("ops", l) = Triplet(c, b, a)
        /\ read_next("pso", l) = Triplet(b, a, c)
    BY <2>1, Readings
  <2> QED
    BY <1>1, <2>2, <2>3

(* The files of two permutations list the same lines.                      *)
LEMMA FilesAlike ==
  ASSUME NEW d, WellFormed(d), NEW x
  PROVE  /\ x.line = FileLines(d, "spo") /\ x.n = Len(d.file["spo"]) =>
              /\ Rotated(FileLines(d, "osp"), Len(d.file["osp"]), x)
              /\ Swapped(FileLines(d, "pso"), Len(d.file["pso"]), x)
         /\ x.line = FileLines(d, "pos") /\ x.n = Len(d.file["pos"]) =>
              Swapped(FileLines(d, "ops"), Len(d.file["ops"]), x)
<1>1. {"spo", "pos", "osp", "ops", "pso"} \subseteq permutation_type
  BY DEF permutation_type
<1>2. ASSUME NEW perm \in permutation_type, NEW t
      PROVE  (\E i \in 1 .. Len(d.file[perm]) : FileLines(d, perm)[i] = t)
               <=> \E l \in d.lines : read_next(perm, l) = t
  BY <1>2, ListsLines
<1>3. ASSUME NEW a, NEW b, NEW c
      PROVE  \A l : /\ read_next("osp", l) = Triplet(a, b, c) <=> read_next("spo", l) = Triplet(b, c, a)
                    /\ read_next("pso", l) = Triplet(a, b, c) <=> read_next("spo", l) = Triplet(b, a, c)
                    /\ read_next("ops", l) = Triplet(a, b, c) <=> read_next("pos", l) = Triplet(b, a, c)
  <2> TAKE l
  <2>1. \A e, f, g, h, i, j : Triplet(e, f, g) = Triplet(h, i, j) <=> e = h /\ f = i /\ g = j
    BY DEF Triplet
  <2>2. PICK e, f, g : e = l[1] /\ f = l[2] /\ g = l[3]
    OBVIOUS
  <2>3. /\ read_next("spo", l) = Triplet(e, f, g) /\ read_next("pos", l) = Triplet(f, g, e)
        /\ read_next("osp", l) = Triplet(g, e, f) /\ read_next("ops", l) = Triplet(g, f, e)
        /\ read_next("pso", l) = Triplet(f, e, g)
    BY <2>2, Readings
  <2> QED
    BY <2>1, <2>3
<1>4. ASSUME x.line = FileLines(d, "spo"), x.n = Len(d.file["spo"])
      PROVE  /\ Rotated(FileLines(d, "osp"), Len(d.file["osp"]), x)
             /\ Swapped(FileLines(d, "pso"), Len(d.file["pso"]), x)
  <2>1. ASSUME NEW a \in Nat, NEW b \in Nat, NEW c \in Nat
        PROVE  /\ (\E i \in 1 .. Len(d.file["osp"]) : FileLines(d, "osp")[i] = Triplet(a, b, c))
                    <=> (\E i \in 1 .. x.n : x.line[i] = Triplet(b, c, a))
               /\ (\E i \in 1 .. Len(d.file["pso"]) : FileLines(d, "pso")[i] = Triplet(a, b, c))
                    <=> (\E i \in 1 .. x.n : x.line[i] = Triplet(b, a, c))
    <3>1. /\ (\E l \in d.lines : read_next("osp", l) = Triplet(a, b, c))
               <=> (\E l \in d.lines : read_next("spo", l) = Triplet(b, c, a))
          /\ (\E l \in d.lines : read_next("pso", l) = Triplet(a, b, c))
               <=> (\E l \in d.lines : read_next("spo", l) = Triplet(b, a, c))
      BY <1>3
    <3>2. \A t : (\E i \in 1 .. x.n : x.line[i] = t) <=> \E l \in d.lines : read_next("spo", l) = t
      <4>1. "spo" \in permutation_type
        BY <1>1
      <4>2. LinesOf(x, d, "spo")
        BY <1>4, <4>1, LinesHeld
      <4> QED
        BY <4>2 DEF LinesOf
    <3>3. /\ "osp" \in permutation_type /\ "pso" \in permutation_type
      BY <1>1
    <3>4. \A t : (\E i \in 1 .. Len(d.file["osp"]) : FileLines(d, "osp")[i] = t)
                   <=> \E l \in d.lines : read_next("osp", l) = t
      BY <1>2, <3>3
    <3>5. \A t : (\E i \in 1 .. Len(d.file["pso"]) : FileLines(d, "pso")[i] = t)
                   <=> \E l \in d.lines : read_next("pso", l) = t
      BY <1>2, <3>3
    <3> QED
      BY <3>1, <3>2, <3>4, <3>5
  <2> QED
    BY <2>1 DEF Rotated, Swapped
<1>5. ASSUME x.line = FileLines(d, "pos"), x.n = Len(d.file["pos"])
      PROVE  Swapped(FileLines(d, "ops"), Len(d.file["ops"]), x)
  <2>1. ASSUME NEW a \in Nat, NEW b \in Nat, NEW c \in Nat
        PROVE  (\E i \in 1 .. Len(d.file["ops"]) : FileLines(d, "ops")[i] = Triplet(a, b, c))
                 <=> (\E i \in 1 .. x.n : x.line[i] = Triplet(b, a, c))
    <3>1. (\E l \in d.lines : read_next("ops", l) = Triplet(a, b, c))
             <=> (\E l \in d.lines : read_next("pos", l) = Triplet(b, a, c))
      BY <1>3
    <3>2. "pos" \in permutation_type /\ "ops" \in permutation_type
      BY <1>1
    <3>3. \A t : (\E i \in 1 .. Len(d.file["ops"]) : FileLines(d, "ops")[i] = t)
                   <=> \E l \in d.lines : read_next("ops", l) = t
      BY <1>2, <3>2
    <3>4. \A t : (\E i \in 1 .. Len(d.file["pos"]) : FileLines(d, "pos")[i] = t)
                   <=> \E l \in d.lines : read_next("pos", l) = t
      BY <1>2, <3>2
    <3> QED
      BY <1>5, <3>1, <3>3, <3>4
  <2> QED
    BY <2>1 DEF Swapped
<1> QED
  BY <1>4, <1>5

(* select_so, of a subject and an object of the data.                      *)
LEMMA SoWalk ==
  ASSUME NEW d, WellFormed(d), NEW name \in DOMAIN index_types, index_types[name].layout # "3t",
         NEW x, IndexTrie(x, d, name, "spo"), NEW p_index,
         NEW l \in d.lines, NEW t, t.first = l[Subject], t.third \in Nat
  PROVE  \E w : Started(w, p_index, x.t, d, "osp", t.third, t.first, select_so(x.t, t))
<1>1. /\ Describes(x) /\ x.line = FileLines(d, "spo") /\ x.n = Len(d.file["spo"])
      /\ x.t.mapper = identity_mapper /\ x.e3 \notin {"pef", "vb"}
  BY DEF IndexTrie
<1>2. "spo" \in permutation_type /\ "osp" \in permutation_type /\ Columns["spo"][1] = Subject
  BY DEF permutation_type, Columns
<1>3. t.first \in 0 .. Len(x.t.first_pointers) - 2 /\ t.first \in Nat
  BY <1>1, <1>2, IdsInRange DEF Subject
<1>4. SortedLines(FileLines(d, "osp"), Len(d.file["osp"]))
  BY <1>2, FileSorted
<1>5. PICK base, c : /\ Block(FileLines(d, "osp"), Len(d.file["osp"]), t.third, t.first, base, c)
                     /\ Reached(FileLines(d, "osp"), Len(d.file["osp"]), Lower(t.third, t.first), base)
                     /\ Reached(FileLines(d, "osp"), Len(d.file["osp"]), Upper(t.third, t.first), base + c)
  BY <1>3, <1>4, AnswersBetween
<1>6. Rotated(FileLines(d, "osp"), Len(d.file["osp"]), x)
  BY <1>1, FilesAlike
<1>7. /\ SoGoes(x, select_so(x.t, t), t.third, t.first)
      /\ Reached(FileLines(d, "osp"), Len(d.file["osp"]),
                 SoNext(x, select_so(x.t, t), t.third, t.first), base)
  BY <1>1, <1>3, <1>4, <1>5, <1>6, SoStarts
<1>8. PICK w : w = WalkOf("iterator_so", x, x, d, "osp", t.third, t.first, base, c)
  OBVIOUS
<1>9. /\ w.kind = "iterator_so" /\ w.x = x /\ w.line = FileLines(d, "osp") /\ w.n = Len(d.file["osp"])
      /\ w.a = t.third /\ w.b = t.first /\ w.base = base /\ w.c = c
  BY <1>8 DEF WalkOf
<1>10. Walk(w, p_index)
  BY <1>1, <1>3, <1>4, <1>5, <1>6, <1>9 DEF Walk
<1>11. 0 \in 0 .. c /\ base + 0 = base /\ select_so(x.t, t).kind = "iterator_so"
  BY <1>5, <1>7 DEF Block, SoGoes
<1>12. Gave(w, select_so(x.t, t), 0)
  BY <1>7, <1>9, <1>11 DEF Gave
<1> QED
  BY <1>9, <1>10, <1>12 DEF Started

(* The walks of iterator_po and iterator_p, where the lines of the first   *)
(* id begin.                                                               *)
LEMMA PairWalk ==
  ASSUME NEW d, WellFormed(d), NEW order \in permutation_type, NEW a \in Nat
  PROVE  \E base, c :
           /\ SortedLines(FileLines(d, order), Len(d.file[order]))
           /\ Block(FileLines(d, order), Len(d.file[order]), a, wildcard_symbol, base, c)
           /\ Reached(FileLines(d, order), Len(d.file[order]), Lower(a, wildcard_symbol), base)
           /\ Reached(FileLines(d, order), Len(d.file[order]), Upper(a, wildcard_symbol), base + c)
           /\ 0 \in 0 .. c /\ base + 0 = base
<1>1. SortedLines(FileLines(d, order), Len(d.file[order]))
  BY FileSorted
<1>2. PICK base, c :
           /\ Block(FileLines(d, order), Len(d.file[order]), a, wildcard_symbol, base, c)
           /\ Reached(FileLines(d, order), Len(d.file[order]), Lower(a, wildcard_symbol), base)
           /\ Reached(FileLines(d, order), Len(d.file[order]), Upper(a, wildcard_symbol), base + c)
  BY <1>1, AnswersBetween
<1>3. 0 \in 0 .. c /\ base + 0 = base
  BY <1>2 DEF Block
<1> QED
  BY <1>1, <1>2, <1>3

(* select_o, of an object that each predicate has, if a block_sequence is  *)
(* asked for it, and that no pef_sequence looks for past its bounds.       *)
EveryPredicateHas(d, object) ==
  \A id \in {l[Predicate] : l \in d.lines} : \E l \in d.lines : l[Predicate] = id /\ l[Object] = object

(* select_o's iterator walks the lines of an object, per predicate.        *)
LEMMA PoWalk ==
  ASSUME NEW d, WellFormed(d), NEW name \in DOMAIN index_types, index_types[name].layout # "3t",
         NEW x, IndexTrie(x, d, name, "pos"), NEW p_index,
         NEW t, t.second \in Nat,
         x.e2 = "vb" => EveryPredicateHas(d, t.second),
         \A f \in 0 .. Len(x.t.first_pointers) - 2 :
           ~ past_bounds(x.t.second_nodes, RangeAt(x.t.first_pointers, f), t.second)
  PROVE  \E w : Started(w, p_index, x.t, d, "ops", t.second, wildcard_symbol, select_o(x.t, t))
<1>1. /\ Describes(x) /\ x.line = FileLines(d, "pos") /\ x.n = Len(d.file["pos"])
      /\ x.t.mapper = identity_mapper
  BY DEF IndexTrie
<1>2. "pos" \in permutation_type /\ "ops" \in permutation_type
  BY DEF permutation_type
<1>3. PICK base, c :
           /\ SortedLines(FileLines(d, "ops"), Len(d.file["ops"]))
           /\ Block(FileLines(d, "ops"), Len(d.file["ops"]), t.second, wildcard_symbol, base, c)
           /\ Reached(FileLines(d, "ops"), Len(d.file["ops"]), Lower(t.second, wildcard_symbol), base)
           /\ Reached(FileLines(d, "ops"), Len(d.file["ops"]), Upper(t.second, wildcard_symbol), base + c)
           /\ 0 \in 0 .. c /\ base + 0 = base
  BY <1>2, PairWalk
<1>4. Swapped(FileLines(d, "ops"), Len(d.file["ops"]), x)
  BY <1>1, FilesAlike
<1>5. ASSUME x.e2 = "vb", NEW f \in 0 .. Len(x.t.first_pointers) - 2
      PROVE  \E j \in Positions(RangeAt(x.t.first_pointers, f)) : x.second_nodes[j + 1] = t.second
  <2>1. PICK i \in 1 .. x.n : x.line[i].first = f
    <3>1. /\ WellFormedRanges(x.second_nodes, x.t.first_pointers) /\ Len(x.t.first_pointers) \in Nat
          /\ Len(x.t.first_pointers) = x.line[x.n].first + 2
          /\ x.line \in [1 .. x.n -> [first : Nat, second : Nat, third : Nat]] /\ x.n \in Nat \ {0}
      BY <1>1, LevelsDescribed DEF LevelsOf
    <3>2. x.line[x.n].first \in Nat
      BY <3>1
    <3>3. f \in 0 .. x.line[x.n].first
      BY <3>1, <3>2
    <3> QED
      BY <1>1, <1>2, <3>3, FileSorted DEF SortedLines
  <2>7. /\ \A k \in 1 .. x.n : \E l \in d.lines : x.line[k] = read_next("pos", l)
        /\ \A l \in d.lines : \E k \in 1 .. x.n : x.line[k] = read_next("pos", l)
    <3>1. LinesOf(x, d, "pos")
      BY <1>1, <1>2, LinesHeld
    <3> QED
      BY <3>1 DEF LinesOf
  <2>2. PICK l \in d.lines : x.line[i] = read_next("pos", l)
    BY <2>7
  <2>3. x.line[i].first = l[Predicate]
    BY <2>2, ReadFields
  <2>4. PICK k \in d.lines : k[Predicate] = f /\ k[Object] = t.second
    <3>1. f \in {j[Predicate] : j \in d.lines}
      BY <2>1, <2>3
    <3> QED
      BY <1>5, <3>1 DEF EveryPredicateHas
  <2>5. PICK h \in 1 .. x.n : x.line[h] = read_next("pos", k)
    BY <2>7
  <2>6. x.line[h].first = f /\ x.line[h].second = t.second
    BY <2>4, <2>5, ReadFields
  <2> QED
    BY <1>1, <2>6, LineHasNode
<1>6. /\ PoGoes(x, select_o(x.t, t), t.second)
      /\ PoNext(select_o(x.t, t), t.second) = Lower(t.second, wildcard_symbol)
  BY <1>1, PoStarts
<1>7. PICK w : w = WalkOf("iterator_po", x, x, d, "ops", t.second, wildcard_symbol, base, c)
  OBVIOUS
<1>8. /\ w.kind = "iterator_po" /\ w.x = x /\ w.line = FileLines(d, "ops") /\ w.n = Len(d.file["ops"])
      /\ w.a = t.second /\ w.b = wildcard_symbol /\ w.base = base /\ w.c = c
  BY <1>7 DEF WalkOf
<1>9. ByPair(w)
  BY <1>1, <1>3, <1>4, <1>8 DEF ByPair
<1>10. Walk(w, p_index)
  <2>1. x.t.second_nodes.encoding = x.e2
    BY DEF IndexTrie
  <2>2. Present(x, t.second)
    BY <1>5, <2>1 DEF Present, Unrefused
  <2> QED
    BY <1>1, <1>3, <1>8, <1>9, <2>2 DEF Walk
<1>11. select_o(x.t, t).kind = "iterator_po"
  BY <1>6 DEF PoGoes
<1>12. Gave(w, select_o(x.t, t), 0)
  BY <1>3, <1>6, <1>8, <1>11 DEF Gave
<1> QED
  BY <1>8, <1>10, <1>12 DEF Started


(* The predicate index, of the pairs of a predicate and a subject.         *)
IndexedPredicates(d) ==
  EncodedPredicateIndex(
    PredicateIndexOf(d.file["spo"], Cardinality({l[Predicate] : l \in d.lines})), "pef")

(* What the predicate index of a 2to index holds.                          *)
LEMMA PredicatesIndexed ==
  ASSUME NEW d, WellFormed(d), NEW p_index, p_index = IndexedPredicates(d),
         ~ OnePartition(p_index.nodes)
  PROVE  \E y : /\ IndexesPairs(p_index, y)
                /\ ListsPairs(y, FileLines(d, "pso"), Len(d.file["pso"]))
                /\ \A l \in d.lines : l[Predicate] \in 0 .. Len(y.pointers) - 2
<1> DEFINE file == d.file["spo"]
           S == {<<file[i][Predicate], file[i][Subject]>> : i \in DOMAIN file}
           ids == {l[Predicate] : l \in d.lines}
           predicates == Cardinality(ids)
<1>1. /\ file \in Seq(d.lines) /\ DOMAIN file = 1 .. Len(file) /\ Len(file) \in Nat
      /\ \A i \in DOMAIN file : file[i] \in d.lines
      /\ \A l \in d.lines : \E i \in DOMAIN file : file[i] = l
      /\ d.lines \subseteq Nat \X Nat \X Nat /\ d.lines # {}
  <2>1. "spo" \in permutation_type
    BY DEF permutation_type
  <2>2. /\ file \in Seq(d.lines) /\ d.lines = {file[i] : i \in 1 .. Len(file)}
        /\ d.lines \subseteq Nat \X Nat \X Nat /\ d.lines # {}
    BY <2>1 DEF WellFormed
  <2>3. DOMAIN file = 1 .. Len(file) /\ Len(file) \in Nat
    BY <2>2
  <2> QED
    BY <2>2, <2>3
<1>2. p_index = EncodedPredicateIndex(PredicateIndexOf(file, predicates), "pef")
  BY DEF IndexedPredicates
<1> HIDE DEF file, ids
<1>3. \A l \in d.lines : l[Predicate] \in Nat /\ l[Subject] \in Nat
  BY <1>1 DEF Predicate, Subject
<1>4. /\ S \subseteq Nat \X Nat
      /\ \A q \in S : \E l \in d.lines : l[Predicate] = q[1] /\ l[Subject] = q[2]
  <2>1. ASSUME NEW q \in S
        PROVE  q \in Nat \X Nat /\ \E l \in d.lines : l[Predicate] = q[1] /\ l[Subject] = q[2]
    <3>1. PICK i \in DOMAIN file : q = <<file[i][Predicate], file[i][Subject]>>
      OBVIOUS
    <3>2. PICK l \in d.lines : l = file[i]
      BY <1>1
    <3>3. q = <<l[Predicate], l[Subject]>> /\ l[Predicate] \in Nat /\ l[Subject] \in Nat
      BY <1>3, <3>1, <3>2
    <3> QED
      BY <3>3
  <2> QED
    BY <2>1
<1>5. IsFiniteSet(S)
  <2> DEFINE g == [i \in 1 .. Len(file) |-> <<file[i][Predicate], file[i][Subject]>>]
  <2>1. /\ g \in [1 .. Len(file) -> S]
        /\ \A v \in S : \E i \in 1 .. Len(file) : g[i] = v
    BY <1>1
  <2>2. IsFiniteSet(1 .. Len(file))
    BY <1>1, FS_Interval
  <2> HIDE DEF g
  <2>3. g \in Surjection(1 .. Len(file), S)
    BY <2>1 DEF Surjection
  <2> HIDE DEF S
  <2> QED
    BY <2>2, <2>3, FS_Surjection
<1>6. PICK top \in Nat : predicates = top + 1 /\ ids = 0 .. top /\ \A l \in d.lines : l[Predicate] \in ids
  <2>1. Predicate \in {Subject, Predicate, Object}
    OBVIOUS
  <2>2. PICK count \in Nat : ids = 0 .. count - 1
    BY <2>1, IdsDense DEF ids
  <2>6. \A l \in d.lines : l[Predicate] \in ids
    BY DEF ids
  <2>3. count # 0
    <3>1. PICK l : l \in d.lines
      BY <1>1
    <3>2. l[Predicate] \in 0 .. count - 1
      BY <2>2, <2>6, <3>1
    <3> QED
      BY <3>2
  <2>4. Cardinality(0 .. count - 1) = count
    BY <2>3, FS_Interval
  <2>5. count - 1 \in Nat /\ count = (count - 1) + 1
    BY <2>3
  <2> QED
    BY <2>2, <2>4, <2>5, <2>6
<1> DEFINE y == [pointers |-> PairPointers(S, top), nodes |-> PairNodes(S)]
<1>7. \A l \in d.lines : l[Predicate] \in 0 .. top /\ \E q \in S : q[1] = l[Predicate] /\ q[2] = l[Subject]
  <2> TAKE l \in d.lines
  <2>1. l[Predicate] \in 0 .. top
    BY <1>6
  <2>2. PICK i \in DOMAIN file : file[i] = l
    BY <1>1
  <2>3. <<l[Predicate], l[Subject]>> \in S
    BY <2>2
  <2> QED
    BY <2>1, <2>3
<1>8. \A q \in S : \E l \in d.lines : l[Predicate] = q[1] /\ l[Subject] = q[2]
  BY <1>4
<1>9. DenseFirsts(S, top)
  <2>1. \A q \in S : q[1] \in 0 .. top
    BY <1>7, <1>8
  <2>2. ASSUME NEW f \in 0 .. top PROVE \E q \in S : q[1] = f
    <3>1. PICK l \in d.lines : l[Predicate] = f
      BY <1>6 DEF ids
    <3> QED
      BY <1>7, <3>1
  <2> QED
    BY <2>1, <2>2 DEF DenseFirsts
<1>10. p_index.pointers = y.pointers /\ p_index.nodes = build("pef", y.nodes, y.pointers)
  <2>1. predicates + 1 = top + 2
    BY <1>6
  <2>2. /\ PredicateIndexOf(file, predicates).pointers = y.pointers
        /\ PredicateIndexOf(file, predicates).nodes = y.nodes
    BY <2>1 DEF PredicateIndexOf, PairPointers, PairNodes
  <2> QED
    BY <1>2, <2>2 DEF EncodedPredicateIndex
<1> HIDE DEF S
<1>11. /\ WellFormedRanges(y.nodes, y.pointers)
       /\ Len(y.pointers) = top + 2 /\ Len(y.nodes) = Cardinality(S)
       /\ \A j \in 0 .. Cardinality(S) - 1 :
            /\ Nth(S, j) \in S /\ y.nodes[j + 1] = Nth(S, j)[2]
            /\ \A f \in 0 .. top : j \in Positions(RangeAt(y.pointers, f)) <=> Nth(S, j)[1] = f
  BY <1>4, <1>5, <1>9, PairLevel
<1>12. ListsPairs(y, FileLines(d, "pso"), Len(d.file["pso"]))
  <2> DEFINE x == [line |-> FileLines(d, "pso"), n |-> Len(d.file["pso"])]
  <2>1. x.line = FileLines(d, "pso") /\ x.n = Len(d.file["pso"])
    OBVIOUS
  <2> HIDE DEF x, y
  <2>2. "pso" \in permutation_type
    BY DEF permutation_type
  <2>5. /\ \A k \in 1 .. x.n : \E l \in d.lines : x.line[k] = read_next("pso", l)
        /\ \A l \in d.lines : \E k \in 1 .. x.n : x.line[k] = read_next("pso", l)
    <3>1. LinesOf(x, d, "pso")
      BY <2>1, <2>2, LinesHeld
    <3> QED
      BY <3>1 DEF LinesOf
  <2>3. ASSUME NEW p \in 0 .. Len(y.pointers) - 2, NEW i \in 1 .. x.n, x.line[i].first = p
        PROVE  \E k \in Positions(RangeAt(y.pointers, p)) : y.nodes[k + 1] = x.line[i].second
    <3>1. PICK l \in d.lines : x.line[i] = read_next("pso", l)
      BY <2>5
    <3>2. l[Predicate] = p /\ l[Subject] = x.line[i].second
      BY <2>3, <3>1, ReadFields
    <3>3. PICK q \in S : q[1] = p /\ q[2] = x.line[i].second
      BY <1>7, <3>2
    <3>4. PICK k \in 0 .. Cardinality(S) - 1 : Nth(S, k) = q
      <4>1. PICK m \in Nat : m = Cardinality(S)
        BY <1>5, FS_CardinalityType
      <4>2. Rank(S, q) \in 0 .. m - 1 /\ Nth(S, Rank(S, q)) = q
        BY <1>4, <1>5, <4>1, RanksArePositions
      <4> QED
        BY <4>1, <4>2
    <3>5. p \in 0 .. top
      BY <1>11
    <3>6. k \in Positions(RangeAt(y.pointers, p)) /\ y.nodes[k + 1] = x.line[i].second
      BY <1>11, <3>3, <3>4, <3>5
    <3> QED
      BY <3>6
  <2>4. ASSUME NEW p \in 0 .. Len(y.pointers) - 2, NEW k \in Positions(RangeAt(y.pointers, p))
        PROVE  \E i \in 1 .. x.n : x.line[i].first = p /\ x.line[i].second = y.nodes[k + 1]
    <3>1. k \in 0 .. Cardinality(S) - 1 /\ p \in 0 .. top
      <4>1. WellFormedRanges(y.nodes, y.pointers) /\ Len(y.pointers) = top + 2
            /\ Len(y.nodes) = Cardinality(S)
        BY <1>11
      <4>2. k \in 0 .. Len(y.nodes) - 1
        BY <4>1, RangeIn
      <4> QED
        BY <4>1, <4>2
    <3>2. Nth(S, k) \in S /\ y.nodes[k + 1] = Nth(S, k)[2] /\ Nth(S, k)[1] = p
      BY <1>11, <3>1
    <3>3. PICK l \in d.lines : l[Predicate] = p /\ l[Subject] = y.nodes[k + 1]
      BY <1>8, <3>2
    <3>4. PICK i \in 1 .. x.n : x.line[i] = read_next("pso", l)
      BY <2>5
    <3> QED
      BY <3>3, <3>4, ReadFields
  <2> QED
    <3>1. WellFormedRanges(y.nodes, y.pointers)
      BY <1>11
    <3>2. ListsPairs(y, x.line, x.n)
      BY <2>3, <2>4, <3>1 DEF ListsPairs
    <3> QED
      BY <2>1, <3>2
<1>13. \A l \in d.lines : l[Predicate] \in 0 .. Len(y.pointers) - 2
  BY <1>7, <1>11
<1>14. IndexesPairs(p_index, y)
  <2> HIDE DEF y
  <2>1. "pef" \in Encodings(y.nodes)
    BY <1>10, <1>11, EncodesWell
  <2> QED
    BY <1>10, <2>1 DEF IndexesPairs
<1> QED
  BY <1>12, <1>13, <1>14

(* select_p, of a predicate of the data.                                   *)
LEMMA PWalk ==
  ASSUME NEW d, WellFormed(d), NEW name \in DOMAIN index_types, index_types[name].layout # "3t",
         NEW x, IndexTrie(x, d, name, "spo"), NEW p_index,
         p_index = IndexedPredicates(d), ~ OnePartition(p_index.nodes),
         NEW l \in d.lines, NEW t, t.second = l[Predicate], t.second \in Nat
  PROVE  \E w : Started(w, p_index, x.t, d, "pso", t.second, wildcard_symbol, select_p(p_index, t))
<1>1. /\ Describes(x) /\ x.line = FileLines(d, "spo") /\ x.n = Len(d.file["spo"])
      /\ x.t.mapper = identity_mapper
  BY DEF IndexTrie
<1>2. "pso" \in permutation_type
  BY DEF permutation_type
<1>3. PICK base, c :
           /\ SortedLines(FileLines(d, "pso"), Len(d.file["pso"]))
           /\ Block(FileLines(d, "pso"), Len(d.file["pso"]), t.second, wildcard_symbol, base, c)
           /\ Reached(FileLines(d, "pso"), Len(d.file["pso"]), Lower(t.second, wildcard_symbol), base)
           /\ Reached(FileLines(d, "pso"), Len(d.file["pso"]), Upper(t.second, wildcard_symbol), base + c)
           /\ 0 \in 0 .. c /\ base + 0 = base
  BY <1>2, PairWalk
<1>4. Swapped(FileLines(d, "pso"), Len(d.file["pso"]), x)
  BY <1>1, FilesAlike
<1>5. PICK y : /\ IndexesPairs(p_index, y)
               /\ ListsPairs(y, FileLines(d, "pso"), Len(d.file["pso"]))
               /\ t.second \in 0 .. Len(y.pointers) - 2
  <2>1. PICK y : /\ IndexesPairs(p_index, y)
                 /\ ListsPairs(y, FileLines(d, "pso"), Len(d.file["pso"]))
                 /\ \A k \in d.lines : k[Predicate] \in 0 .. Len(y.pointers) - 2
    BY PredicatesIndexed
  <2> QED
    BY <2>1
<1>6. /\ PGoes(x, y, select_p(p_index, t), t.second)
      /\ PNext(select_p(p_index, t), t.second) = Lower(t.second, wildcard_symbol)
  <2>1. WellFormedRanges(y.nodes, y.pointers)
    BY <1>5 DEF ListsPairs
  <2> QED
    BY <1>5, <2>1, PStarts
<1>7. PICK w : w = WalkOf("iterator_p", x, y, d, "pso", t.second, wildcard_symbol, base, c)
  OBVIOUS
<1>8. /\ w.kind = "iterator_p" /\ w.x = x /\ w.y = y
      /\ w.line = FileLines(d, "pso") /\ w.n = Len(d.file["pso"])
      /\ w.a = t.second /\ w.b = wildcard_symbol /\ w.base = base /\ w.c = c
  BY <1>7 DEF WalkOf
<1>9. ByPair(w)
  BY <1>1, <1>3, <1>4, <1>8 DEF ByPair
<1>10. Walk(w, p_index)
  BY <1>1, <1>3, <1>5, <1>8, <1>9 DEF Walk
<1>11. select_p(p_index, t).kind = "iterator_p"
  BY <1>6 DEF PGoes
<1>12. Gave(w, select_p(p_index, t), 0)
  BY <1>3, <1>6, <1>8, <1>11 DEF Gave
<1> QED
  BY <1>8, <1>10, <1>12 DEF Started


-----------------------------------------------------------------------------
(* A query: one or two ids of the data, and wildcards.                     *)
Shaped(q) ==
  /\ q = Triplet(q.first, q.second, q.third)
  /\ q.first \in Ids(Subject) \cup {wildcard_symbol}
  /\ q.second \in Ids(Predicate) \cup {wildcard_symbol}
  /\ q.third \in Ids(Object) \cup {wildcard_symbol}
  /\ Given(q.first) \/ Given(q.second) \/ Given(q.third)
  /\ ~ (Given(q.first) /\ Given(q.second) /\ Given(q.third))

(* The query tool asks no other.                                           *)
LEMMA PatternsShaped ==
  ASSUME Built, NEW q \in Patterns
  PROVE  /\ Shaped(q) /\ q \in [first : Int, second : Int, third : Int]
         /\ \A column \in {Subject, Predicate, Object} : Ids(column) \subseteq Nat
<1>1. PICK t \in Triplets, perm \in {"spo", "pos", "osp"}, n \in 1 .. 2 : q = AsQuery(t, perm, n)
  BY DEF Patterns
<1>2. PICK s, p, o : s = t.first /\ p = t.second /\ o = t.third
  OBVIOUS
<1>3. s \in Ids(Subject) /\ p \in Ids(Predicate) /\ o \in Ids(Object)
  BY <1>2 DEF Triplets
<1>4. s \in Nat /\ p \in Nat /\ o \in Nat /\ t = [first |-> s, second |-> p, third |-> o]
  <2>1. t \in [first : Nat, second : Nat, third : Nat]
    BY AskedIds
  <2> QED
    BY <1>2, <2>1
<1>5. \A column \in {Subject, Predicate, Object} : Ids(column) \subseteq Nat
  <2>1. data.lines \subseteq Nat \X Nat \X Nat
    BY DEF Built, WellFormed
  <2>2. \A l \in data.lines : l[1] \in Nat /\ l[2] \in Nat /\ l[3] \in Nat
    BY <2>1
  <2> QED
    BY <2>2 DEF Ids, Subject, Predicate, Object
<1> DEFINE w == wildcard_symbol
<1>6. /\ perm = "spo" /\ n = 1 => q = Triplet(s, p, w)
      /\ perm = "spo" /\ n # 1 => q = Triplet(s, w, w)
      /\ perm = "pos" /\ n = 1 => q = Triplet(w, p, o)
      /\ perm = "pos" /\ n # 1 => q = Triplet(w, p, w)
      /\ perm = "osp" /\ n = 1 => q = Triplet(s, w, o)
      /\ perm = "osp" /\ n # 1 => q = Triplet(w, w, o)
  BY <1>1, <1>4 DEF AsQuery, Triplet
<1>7. q \in {Triplet(s, p, w), Triplet(s, w, w), Triplet(w, p, o), Triplet(w, p, w),
             Triplet(s, w, o), Triplet(w, w, o)}
  BY <1>6
<1>8. \A a, b, c : Triplet(a, b, c).first = a /\ Triplet(a, b, c).second = b /\ Triplet(a, b, c).third = c
  BY DEF Triplet
<1>9. s # w /\ p # w /\ o # w /\ w \in Int
  BY <1>4 DEF wildcard_symbol
<1>10. ASSUME NEW a, NEW b, NEW c, q = Triplet(a, b, c),
              a \in {s, w}, b \in {p, w}, c \in {o, w},
              ~ (a = w /\ b = w /\ c = w), ~ (a = s /\ b = p /\ c = o)
       PROVE  Shaped(q) /\ q \in [first : Int, second : Int, third : Int]
  <2>1. q.first = a /\ q.second = b /\ q.third = c
    BY <1>8, <1>10
  <2>2. Shaped(q)
    BY <1>3, <1>9, <1>10, <2>1 DEF Shaped, Given
  <2>3. a \in Int /\ b \in Int /\ c \in Int
    BY <1>4, <1>9, <1>10
  <2>4. q \in [first : Int, second : Int, third : Int]
    BY <1>10, <2>3 DEF Triplet
  <2> QED
    BY <2>2, <2>4
<1>11. Shaped(q) /\ q \in [first : Int, second : Int, third : Int]
  BY <1>7, <1>9, <1>10
<1> QED
  BY <1>5, <1>11

(* The file that a permutation's answers are in the order of, and a query  *)
(* in that order.                                                          *)
OrderOf(perm) == IF layout = "2to" /\ perm = "pos" THEN "pso" ELSE perm
Asked(q, order) == read_next(order, <<q.first, q.second, q.third>>)

(* What permute chooses: a trie of the layout, whose first ids are given,  *)
(* or one of the three other selections.                                   *)
Chosen(q, p) ==
  \/ /\ p.perm \in Tries(type) /\ p.triplet = Asked(q, p.perm)
     /\ Given(p.triplet.first) /\ ~ Given(p.triplet.third)
  \/ /\ layout # "3t" /\ p.perm = "osp" /\ p.triplet = q
     /\ Given(q.first) /\ ~ Given(q.second) /\ Given(q.third)
  \/ /\ layout = "2tp" /\ p.perm = "ops" /\ p.triplet.second = q.third
     /\ ~ Given(q.first) /\ ~ Given(q.second) /\ Given(q.third)
  \/ /\ layout = "2to" /\ p.perm = "pos" /\ p.triplet = q
     /\ ~ Given(q.first) /\ Given(q.second) /\ ~ Given(q.third)

(* permute chooses as Chosen says, of each layout.                         *)
LEMMA PermuteChooses ==
  ASSUME Built, NEW q \in Patterns
  PROVE  Chosen(q, permute(q))
<1>1. Shaped(q)
  BY PatternsShaped
<1>2. layout \in {"3t", "2tp", "2to"}
  BY TypeFacts DEF Built, layout
<1>3. PICK s, p, o : s = q.first /\ p = q.second /\ o = q.third
  OBVIOUS
<1>4. /\ q = Triplet(s, p, o) /\ (Given(s) \/ Given(p) \/ Given(o)) /\ ~ (Given(s) /\ Given(p) /\ Given(o))
  BY <1>1, <1>3 DEF Shaped
<1>5. /\ Asked(q, "spo") = Triplet(s, p, o) /\ Asked(q, "pos") = Triplet(p, o, s)
      /\ Asked(q, "osp") = Triplet(o, s, p) /\ Asked(q, "ops") = Triplet(o, p, s)
  <2>1. PICK l : l = <<s, p, o>>
    OBVIOUS
  <2>2. l[1] = s /\ l[2] = p /\ l[3] = o
    BY <2>1
  <2>3. \A order : Asked(q, order) = read_next(order, l)
    BY <1>3, <2>1 DEF Asked
  <2> QED
    BY <2>2, <2>3, Readings
<1>6. \A perm, a, b, c :
        /\ Permuted(perm, a, b, c).perm = perm /\ Permuted(perm, a, b, c).triplet = Triplet(a, b, c)
        /\ Triplet(a, b, c).first = a /\ Triplet(a, b, c).second = b /\ Triplet(a, b, c).third = c
  BY DEF Permuted, Triplet
<1>7. CASE layout = "3t"
  <2>1. Tries(type) = {"spo", "pos", "osp"}
    BY <1>7 DEF Tries, layout
  <2>2. permute(q) = permute_3t(q)
    BY <1>7 DEF permute
  <2>3. \/ permute(q) = Permuted("spo", s, p, o) /\ Given(s) /\ ~ Given(o)
        \/ permute(q) = Permuted("pos", p, o, s) /\ Given(p) /\ ~ Given(s)
        \/ permute(q) = Permuted("osp", o, s, p) /\ Given(o) /\ ~ Given(p)
    BY <1>3, <1>4, <2>2 DEF permute_3t
  <2> QED
    BY <1>5, <1>6, <2>1, <2>3 DEF Chosen
<1>8. CASE layout = "2tp"
  <2>1. Tries(type) = {"spo", "pos"}
    BY <1>8 DEF Tries, layout
  <2>2. permute(q) = permute_2tp(q)
    BY <1>8 DEF permute
  <2>3. \/ permute(q) = Permuted("osp", s, p, o) /\ Given(s) /\ ~ Given(p) /\ Given(o)
        \/ permute(q) = Permuted("spo", s, p, o) /\ Given(s) /\ ~ Given(o)
        \/ permute(q) = Permuted("pos", p, o, s) /\ Given(p) /\ ~ Given(s)
        \/ permute(q) = Permuted("ops", p, o, s) /\ ~ Given(s) /\ ~ Given(p) /\ Given(o)
    BY <1>3, <1>4, <2>2 DEF permute_2tp
  <2> QED
    BY <1>3, <1>4, <1>5, <1>6, <1>8, <2>1, <2>3 DEF Chosen
<1>9. CASE layout = "2to"
  <2>1. Tries(type) = {"spo", "ops"}
    BY <1>9 DEF Tries, layout
  <2>2. permute(q) = permute_2to(q)
    BY <1>9 DEF permute
  <2>3. \/ permute(q) = Permuted("osp", s, p, o) /\ Given(s) /\ ~ Given(p) /\ Given(o)
        \/ permute(q) = Permuted("spo", s, p, o) /\ Given(s) /\ ~ Given(o)
        \/ permute(q) = Permuted("pos", s, p, o) /\ ~ Given(s) /\ Given(p) /\ ~ Given(o)
        \/ permute(q) = Permuted("ops", o, p, s) /\ Given(o) /\ ~ Given(s)
    BY <1>3, <1>4, <2>2 DEF permute_2to
  <2> QED
    BY <1>3, <1>4, <1>5, <1>6, <1>9, <2>1, <2>3 DEF Chosen
<1> QED
  BY <1>2, <1>7, <1>8, <1>9


(* The ids of a query in the order of a permutation, and of a line of the  *)
(* data.                                                                   *)
LEMMA AskedFields ==
  ASSUME NEW q, NEW perm \in permutation_type
  PROVE  LET ids == <<q.first, q.second, q.third>>
         IN  /\ Asked(q, perm).first = ids[Columns[perm][1]]
             /\ Asked(q, perm).second = ids[Columns[perm][2]]
             /\ Asked(q, perm).third = ids[Columns[perm][3]]
BY DEF Asked, read_next, Triplet

(* Ids of the data, in its columns.                                        *)
LEMMA AskedInData ==
  ASSUME Built, NEW q \in Patterns, NEW perm \in permutation_type
  PROVE  LET t == Asked(q, perm)
         IN  /\ t.first \in Nat \cup {wildcard_symbol} /\ t.second \in Nat \cup {wildcard_symbol}
             /\ Given(t.first) => \E l \in data.lines : t.first = read_next(perm, l).first
             /\ Given(t.second) => \E l \in data.lines : t.second = read_next(perm, l).second
             /\ Occurs(q) => \E l \in data.lines :
                               /\ t.first \in {wildcard_symbol, read_next(perm, l).first}
                               /\ t.second \in {wildcard_symbol, read_next(perm, l).second}
<1> DEFINE ids == <<q.first, q.second, q.third>>
           a == Columns[perm][1]
           b == Columns[perm][2]
<1>1. Asked(q, perm).first = ids[a] /\ Asked(q, perm).second = ids[b]
  BY AskedFields
<1>2. a \in 1 .. 3 /\ b \in 1 .. 3
  BY ColumnsPermuted
<1>3. /\ Shaped(q)
      /\ \A column \in {Subject, Predicate, Object} : Ids(column) \subseteq Nat
  BY PatternsShaped
<1>4. ids[1] = q.first /\ ids[2] = q.second /\ ids[3] = q.third
  OBVIOUS
<1> HIDE DEF ids
<1>5. \A c \in 1 .. 3 : ids[c] \in Ids(c) \cup {wildcard_symbol} /\ Ids(c) \subseteq Nat
  <2>1. \A c \in 1 .. 3 : c = 1 \/ c = 2 \/ c = 3
    OBVIOUS
  <2>2. /\ ids[1] \in Ids(1) \cup {wildcard_symbol} /\ ids[2] \in Ids(2) \cup {wildcard_symbol}
        /\ ids[3] \in Ids(3) \cup {wildcard_symbol}
        /\ Ids(1) \subseteq Nat /\ Ids(2) \subseteq Nat /\ Ids(3) \subseteq Nat
    BY <1>3, <1>4 DEF Shaped, Subject, Predicate, Object
  <2> QED
    BY <2>1, <2>2
<1>6. \A l \in data.lines : read_next(perm, l).first = l[a] /\ read_next(perm, l).second = l[b]
  BY DEF read_next, Triplet
<1> HIDE DEF a, b
<1>7. \A c \in 1 .. 3 : Given(ids[c]) => \E l \in data.lines : ids[c] = l[c]
  BY <1>5 DEF Given, Ids
<1>8. Occurs(q) => \E l \in data.lines : \A c \in 1 .. 3 : ids[c] \in {wildcard_symbol, l[c]}
  <2> SUFFICES ASSUME Occurs(q) PROVE \E l \in data.lines : \A c \in 1 .. 3 : ids[c] \in {wildcard_symbol, l[c]}
    OBVIOUS
  <2>1. PICK l \in data.lines : /\ ids[1] \in {wildcard_symbol, l[1]}
                                /\ ids[2] \in {wildcard_symbol, l[2]}
                                /\ ids[3] \in {wildcard_symbol, l[3]}
    BY <1>4 DEF Occurs, Subject, Predicate, Object
  <2>2. \A c \in 1 .. 3 : c = 1 \/ c = 2 \/ c = 3
    OBVIOUS
  <2>3. \A c \in 1 .. 3 : ids[c] \in {wildcard_symbol, l[c]}
    BY <2>1, <2>2
  <2> QED
    BY <2>3
<1> QED
  BY <1>1, <1>2, <1>5, <1>6, <1>7, <1>8

(* A selection in a trie of the layout.                                    *)
LEMMA SelectWalk ==
  ASSUME Built, NEW q \in Patterns, NEW perm \in Tries(type), NEW t, t = Asked(q, perm),
         Given(t.first), SelectedNode(index[perm], t) # not_found,
         index[perm].second_nodes.encoding = "vb" /\ perm # "ops" => Occurs(q),
         Given(t.second) =>
           ~ past_bounds(index[perm].second_nodes, RangeAt(index[perm].first_pointers, t.first),
                         t.second)
  PROVE  /\ perm \in permutation_type
         /\ \E w : Started(w, index.p_index, index[perm], data, perm, t.first, t.second,
                           select(index[perm], t))
<1>1. PICK x : IndexTrie(x, data, type, perm) /\ perm \in permutation_type
  BY TriesDescribed DEF Built
<1>2. x.t = index[perm] /\ x.t.second_nodes.encoding = x.e2 /\ (perm = "ops" => x.e2 # "vb")
  BY <1>1 DEF IndexTrie, Built
<1>3. /\ t.first \in Nat \cup {wildcard_symbol} /\ t.second \in Nat \cup {wildcard_symbol}
      /\ \E l \in data.lines : t.first = read_next(perm, l).first
      /\ Occurs(q) => \E l \in data.lines :
                        /\ t.first \in {wildcard_symbol, read_next(perm, l).first}
                        /\ t.second \in {wildcard_symbol, read_next(perm, l).second}
  BY <1>1, AskedInData
<1>4. PICK l \in data.lines :
             /\ t.first = read_next(perm, l).first
             /\ x.e2 = "vb" /\ t.second # wildcard_symbol => t.second = read_next(perm, l).second
  <2>1. CASE x.e2 = "vb"
    <3>1. Occurs(q)
      BY <1>2, <2>1
    <3> QED
      BY <1>3, <3>1 DEF Given
  <2>2. CASE x.e2 # "vb"
    BY <1>3, <2>2
  <2> QED
    BY <2>1, <2>2
<1>5. SelectedNode(x.t, t) # not_found /\ WellFormed(data) /\ type \in DOMAIN index_types
  BY <1>2 DEF Built
<1>6. \E w : Started(w, index.p_index, x.t, data, perm, t.first, t.second, select(x.t, t))
  <2>1. t.second # wildcard_symbol =>
          ~ past_bounds(x.t.second_nodes, RangeAt(x.t.first_pointers, t.first), t.second)
    BY <1>2 DEF Given
  <2> QED
    BY <1>1, <1>3, <1>4, <1>5, <2>1, IteratorWalk
<1> QED
  BY <1>1, <1>2, <1>6

(* Each selection is a walk over the answers, in the order of its file.    *)
SelectionStarts(q, p) ==
  /\ p.perm \in permutation_type /\ OrderOf(p.perm) \in permutation_type
  /\ Asked(q, OrderOf(p.perm)).third = wildcard_symbol
  /\ \E w : Started(w, index.p_index, TrieFor(p.perm), data, OrderOf(p.perm),
                    Asked(q, OrderOf(p.perm)).first, Asked(q, OrderOf(p.perm)).second,
                    Selection(p.perm, p.triplet))

(* A selection's iterator starts at the first of its answers.              *)
LEMMA WalkStarts ==
  ASSUME Built, NEW q \in Patterns, NEW p, p = permute(q),
         ~ PairAbsent(p), ~ AbsenceUnseen(q, p)
  PROVE  SelectionStarts(q, p)
<1>1. Chosen(q, p)
  BY PermuteChooses
<1>2. layout \in {"3t", "2tp", "2to"}
  BY TypeFacts DEF Built, layout
<1>3. /\ Shaped(q)
      /\ \A column \in {Subject, Predicate, Object} : Ids(column) \subseteq Nat
  BY PatternsShaped
<1>4. WellFormed(data) /\ type \in DOMAIN index_types /\ index = build_index(data, type)
  BY DEF Built
<1>5. {"spo", "pos", "osp", "ops", "pso"} \subseteq permutation_type
  BY DEF permutation_type
<1>6. ASSUME p.perm \in Tries(type), p.triplet = Asked(q, p.perm),
             Given(p.triplet.first), ~ Given(p.triplet.third)
      PROVE  SelectionStarts(q, p)
  <2>1. /\ layout = "3t" => p.perm \in {"spo", "pos", "osp"}
        /\ layout = "2tp" => p.perm \in {"spo", "pos"}
        /\ layout = "2to" => p.perm \in {"spo", "ops"}
    BY <1>2, <1>6 DEF Tries, layout
  <2>2. TrieFor(p.perm) = index[p.perm] /\ OrderOf(p.perm) = p.perm
    BY <1>2, <2>1 DEF TrieFor, OrderOf
  <2>3. Selection(p.perm, p.triplet) = select(index[p.perm], p.triplet)
    BY <1>2, <2>1, <2>2 DEF Selection
  <2>4. SelectedNode(index[p.perm], p.triplet) # not_found
    BY <1>2, <2>1, <2>2 DEF PairAbsent
  <2>5. index[p.perm].second_nodes.encoding = "vb" /\ p.perm # "ops" => Occurs(q)
    BY <2>2 DEF AbsenceUnseen
  <2>7. Given(p.triplet.second) =>
          ~ past_bounds(index[p.perm].second_nodes,
                        RangeAt(index[p.perm].first_pointers, p.triplet.first), p.triplet.second)
    <3>1. LooksUnder(p) = {p.triplet.first}
      BY <1>2, <2>1, Zenon DEF LooksUnder
    <3> QED
      BY <2>2, <3>1 DEF AbsenceUnseen
  <2>6. /\ p.perm \in permutation_type
        /\ \E w : Started(w, index.p_index, index[p.perm], data, p.perm, p.triplet.first,
                          p.triplet.second, select(index[p.perm], p.triplet))
    BY <1>6, <2>4, <2>5, <2>7, SelectWalk
  <2> QED
    BY <1>6, <2>2, <2>3, <2>6 DEF SelectionStarts, Given
<1>8. ASSUME layout # "3t", p.perm = "osp", p.triplet = q,
             Given(q.first), ~ Given(q.second), Given(q.third)
      PROVE  SelectionStarts(q, p)
  <2>1. PICK x : IndexTrie(x, data, type, "spo") /\ x.t = index.spo
    BY SpoTrie
  <2>2. PICK l \in data.lines : q.first = l[Subject]
    BY <1>3, <1>8 DEF Shaped, Ids, Given
  <2>3. q.third \in Nat
    BY <1>3, <1>8 DEF Shaped, Given
  <2>4. \E w : Started(w, index.p_index, x.t, data, "osp", q.third, q.first, select_so(x.t, q))
    BY <1>4, <1>8, <2>1, <2>2, <2>3, SoWalk DEF layout
  <2>5. TrieFor(p.perm) = index.spo /\ OrderOf(p.perm) = "osp"
    BY <1>2, <1>8 DEF TrieFor, OrderOf
  <2>6. Selection(p.perm, p.triplet) = select_so(index.spo, q)
    BY <1>8, <2>5 DEF Selection
  <2>7. /\ Asked(q, "osp").first = q.third /\ Asked(q, "osp").second = q.first
        /\ Asked(q, "osp").third = q.second
    BY DEF Asked, read_next, Triplet, Columns, Subject, Predicate, Object
  <2> QED
    BY <1>5, <1>8, <2>1, <2>4, <2>5, <2>6, <2>7 DEF SelectionStarts, Given
<1>9. ASSUME layout = "2tp", p.perm = "ops", p.triplet.second = q.third,
             ~ Given(q.first), ~ Given(q.second), Given(q.third)
      PROVE  SelectionStarts(q, p)
  <2>1. PICK x : IndexTrie(x, data, type, "pos")
    <3>1. "pos" \in Tries(type)
      BY <1>9 DEF Tries, layout
    <3>2. Partitioned(build_index(data, type)["pos"])
      BY <3>1 DEF Built
    <3> QED
      BY <1>4, <3>1, <3>2, TriesDescribed
  <2>2. x.t = index.pos /\ x.t.second_nodes.encoding = x.e2
    BY <1>4, <2>1 DEF IndexTrie
  <2>3. TrieFor(p.perm) = index.pos /\ OrderOf(p.perm) = "ops"
    BY <1>9 DEF TrieFor, OrderOf
  <2>4. q.third \in Nat
    BY <1>3, <1>9 DEF Shaped, Given
  <2>5. x.e2 = "vb" => EveryPredicateHas(data, q.third)
    <3> SUFFICES ASSUME x.e2 = "vb", NEW id \in Ids(Predicate)
                 PROVE  \E l \in data.lines : l[Predicate] = id /\ l[Object] = q.third
      BY DEF EveryPredicateHas, Ids
    <3>1. Occurs([q EXCEPT !.second = id])
      BY <1>9, <2>2, <2>3 DEF AbsenceUnseen
    <3>2. [q EXCEPT !.second = id].second = id /\ [q EXCEPT !.second = id].third = q.third
      BY <1>3 DEF Shaped, Triplet
    <3>3. id # wildcard_symbol
      BY <1>3 DEF wildcard_symbol
    <3> QED
      BY <1>9, <3>1, <3>2, <3>3 DEF Occurs, Given
  <2>9. \A f \in 0 .. Len(x.t.first_pointers) - 2 :
          ~ past_bounds(x.t.second_nodes, RangeAt(x.t.first_pointers, f), q.third)
    <3>1. LooksUnder(p) = 0 .. Len(index.pos.first_pointers) - 2
      BY <1>9, <2>3, Zenon DEF LooksUnder
    <3> QED
      BY <1>9, <2>2, <2>3, <3>1 DEF AbsenceUnseen
  <2>6. \E w : Started(w, index.p_index, x.t, data, "ops", q.third, wildcard_symbol,
                       select_o(x.t, p.triplet))
    BY <1>4, <1>9, <2>1, <2>4, <2>5, <2>9, PoWalk DEF layout
  <2>7. Selection(p.perm, p.triplet) = select_o(index.pos, p.triplet)
    BY <1>9, <2>3 DEF Selection
  <2>8. /\ Asked(q, "ops").first = q.third /\ Asked(q, "ops").second = q.second
        /\ Asked(q, "ops").third = q.first
    BY DEF Asked, read_next, Triplet, Columns, Subject, Predicate, Object
  <2> QED
    BY <1>5, <1>9, <2>2, <2>3, <2>6, <2>7, <2>8 DEF SelectionStarts, Given
<1>10. ASSUME layout = "2to", p.perm = "pos", p.triplet = q,
              ~ Given(q.first), Given(q.second), ~ Given(q.third)
       PROVE  SelectionStarts(q, p)
  <2>1. PICK x : IndexTrie(x, data, type, "spo") /\ x.t = index.spo
    BY SpoTrie
  <2>2. PICK l \in data.lines : q.second = l[Predicate]
    BY <1>3, <1>10 DEF Shaped, Ids, Given
  <2>3. q.second \in Nat
    BY <1>3, <1>10 DEF Shaped, Given
  <2>4. index.p_index = IndexedPredicates(data)
    BY <1>4, <1>10, TriesBuilt DEF layout, IndexedPredicates
  <2>5. \E w : Started(w, index.p_index, x.t, data, "pso", q.second, wildcard_symbol,
                       select_p(index.p_index, q))
    <3>1. ~ OnePartition(index.p_index.nodes)
      BY <1>10 DEF Built
    <3> QED
      BY <1>4, <1>10, <2>1, <2>2, <2>3, <2>4, <3>1, PWalk DEF layout
  <2>6. TrieFor(p.perm) = index.spo /\ OrderOf(p.perm) = "pso"
    BY <1>10 DEF TrieFor, OrderOf
  <2>7. Selection(p.perm, p.triplet) = select_p(index.p_index, q)
    BY <1>10 DEF Selection
  <2>8. /\ Asked(q, "pso").first = q.second /\ Asked(q, "pso").second = q.first
        /\ Asked(q, "pso").third = q.third
    BY DEF Asked, read_next, Triplet, Columns, Subject, Predicate, Object
  <2> QED
    BY <1>5, <1>10, <2>1, <2>5, <2>6, <2>7, <2>8 DEF SelectionStarts, Given
<1> QED
  BY <1>1, <1>6, <1>8, <1>9, <1>10 DEF Chosen


-----------------------------------------------------------------------------
(* How far a selection got: a walk w, in the file of an order, of the      *)
(* answers to q; out is what it gave, v what * gave last, at where the     *)
(* client is.                                                              *)
Progress(w, d, t, p_index, order, q, walker, out, at, v) ==
  /\ Walk(w, p_index) /\ w.x.t = t
  /\ w.line = FileLines(d, order) /\ w.n = Len(d.file[order])
  /\ w.a = Asked(q, order).first /\ w.b = Asked(q, order).second
  /\ out \in Seq(IdTriplets) /\ Gave(w, walker, Len(out))
  /\ \A k \in 1 .. Len(out) : out[k] = w.line[w.base + k]
  /\ at \in {"ready", "read"} => HasAnswer(w, walker)
  /\ at = "read" => GivenOf(walker) = walker /\ v = walker.val
  /\ at = "end" => Len(out) = w.c

(* It starts.                                                              *)
LEMMA ProgressStarts ==
  ASSUME NEW w, NEW p_index, NEW t, NEW d, NEW order, NEW q, NEW walker, NEW v,
         Started(w, p_index, t, d, order, Asked(q, order).first, Asked(q, order).second, walker)
  PROVE  Progress(w, d, t, p_index, order, q, walker, <<>>, "has_next", v)
<1>1. <<>> \in Seq(IdTriplets) /\ Len(<<>>) = 0 /\ 1 .. 0 = {}
  OBVIOUS
<1> QED
  BY <1>1 DEF Started, Progress

(* has_next goes on or ends it, and changes nothing on an answer.          *)
LEMMA ProgressTurns ==
  ASSUME NEW w, NEW p_index, NEW t, NEW d, NEW order, NEW q, NEW walker, NEW out,
         NEW at \in {"has_next", "ready", "read"}, NEW v,
         Progress(w, d, t, p_index, order, q, walker, out, at, v),
         NEW turn, turn = HasNextOf(t, p_index, walker)
  PROVE  /\ at \in {"ready", "read"} => turn = Turn(walker, "yes")
         /\ \/ turn.answer = "again" /\ Progress(w, d, t, p_index, order, q, turn.it, out, "has_next", v)
            \/ turn.answer = "no" /\ Progress(w, d, t, p_index, order, q, turn.it, out, "end", v)
            \/ /\ turn.answer = "yes"
               /\ Progress(w, d, t, p_index, order, q, turn.it, out,
                           IF at = "has_next" THEN "ready" ELSE at, v)
<1>1. /\ Walk(w, p_index) /\ w.x.t = t
      /\ w.line = FileLines(d, order) /\ w.n = Len(d.file[order])
      /\ w.a = Asked(q, order).first /\ w.b = Asked(q, order).second
      /\ out \in Seq(IdTriplets) /\ Gave(w, walker, Len(out))
      /\ \A k \in 1 .. Len(out) : out[k] = w.line[w.base + k]
      /\ at \in {"ready", "read"} => HasAnswer(w, walker)
      /\ at = "read" => GivenOf(walker) = walker /\ v = walker.val
  BY DEF Progress
<1>2. PICK e : e = Len(out)
  OBVIOUS
<1>3. /\ HasAnswer(w, walker) => turn = Turn(walker, "yes")
      /\ \/ turn = Turn(walker, "no") /\ e = w.c
         \/ /\ turn.answer \in {"again", "yes"} /\ Gave(w, turn.it, e)
            /\ turn.answer = "yes" => HasAnswer(w, turn.it)
  <2>1. Gave(w, walker, e) /\ turn = HasNextOf(w.x.t, p_index, walker)
    BY <1>1, <1>2
  <2> QED
    BY <1>1, <2>1, WalkTurns
<1>4. \A h, answer : Turn(h, answer).it = h /\ Turn(h, answer).answer = answer
  BY DEF Turn
<1>5. ASSUME turn.answer \in {"again", "yes"}, Gave(w, turn.it, e), NEW b,
             b \in {"ready", "read"} => HasAnswer(w, turn.it),
             b = "read" => GivenOf(turn.it) = turn.it /\ v = turn.it.val, b # "end"
      PROVE  Progress(w, d, t, p_index, order, q, turn.it, out, b, v)
  BY <1>1, <1>2, <1>5 DEF Progress
<1>6. CASE turn = Turn(walker, "no") /\ e = w.c
  <2>1. turn.it = walker /\ turn.answer = "no"
    BY <1>4, <1>6
  <2>2. Progress(w, d, t, p_index, order, q, turn.it, out, "end", v)
    BY <1>1, <1>2, <1>6, <2>1 DEF Progress
  <2>3. ~ HasAnswer(w, walker)
    BY <1>3, <1>4, <2>1
  <2> QED
    BY <1>1, <2>1, <2>2, <2>3
<1>7. CASE turn.answer = "again" /\ Gave(w, turn.it, e)
  <2>1. Progress(w, d, t, p_index, order, q, turn.it, out, "has_next", v)
    BY <1>5, <1>7
  <2>2. ~ HasAnswer(w, walker)
    BY <1>3, <1>4, <1>7
  <2> QED
    BY <1>1, <1>7, <2>1, <2>2
<1>8. CASE turn.answer = "yes" /\ Gave(w, turn.it, e) /\ HasAnswer(w, turn.it)
  <2>1. CASE at = "has_next"
    <3>1. Progress(w, d, t, p_index, order, q, turn.it, out, "ready", v)
      BY <1>5, <1>8
    <3> QED
      BY <1>8, <2>1, <3>1
  <2>2. CASE at # "has_next"
    <3>1. turn = Turn(walker, "yes") /\ turn.it = walker
      BY <1>1, <1>3, <1>4, <2>2
    <3>2. Progress(w, d, t, p_index, order, q, turn.it, out, at, v)
      BY <1>1, <1>5, <1>8, <2>2, <3>1
    <3> QED
      BY <1>8, <2>2, <3>1, <3>2
  <2> QED
    BY <2>1, <2>2
<1> QED
  BY <1>3, <1>6, <1>7, <1>8

(* * gives an answer, and the same again.                                  *)
LEMMA ProgressGives ==
  ASSUME NEW w, NEW p_index, NEW t, NEW d, NEW order, NEW q, NEW walker, NEW out,
         NEW at \in {"ready", "read"}, NEW v,
         Progress(w, d, t, p_index, order, q, walker, out, at, v),
         NEW given, given = GivenOf(walker)
  PROVE  /\ Progress(w, d, t, p_index, order, q, given, out, "read", given.val)
         /\ at = "read" => given = walker /\ given.val = v
         /\ given.val \in IdTriplets
<1>1. /\ Walk(w, p_index) /\ w.x.t = t
      /\ w.line = FileLines(d, order) /\ w.n = Len(d.file[order])
      /\ w.a = Asked(q, order).first /\ w.b = Asked(q, order).second
      /\ out \in Seq(IdTriplets) /\ Gave(w, walker, Len(out))
      /\ \A k \in 1 .. Len(out) : out[k] = w.line[w.base + k]
      /\ HasAnswer(w, walker)
      /\ at = "read" => GivenOf(walker) = walker /\ v = walker.val
  BY DEF Progress
<1>2. PICK e : e = Len(out)
  OBVIOUS
<1>3. /\ w.base + e + 1 \in 1 .. w.n /\ given.val = w.line[w.base + e + 1]
      /\ Gave(w, given, e) /\ HasAnswer(w, given) /\ GivenOf(given) = given
  BY <1>1, <1>2, WalkAnswers
<1>4. Progress(w, d, t, p_index, order, q, given, out, "read", given.val)
  BY <1>1, <1>2, <1>3 DEF Progress
<1>5. given.val \in IdTriplets
  <2>1. w.line \in [1 .. w.n -> IdTriplets]
    BY <1>1 DEF Walk, SortedLines, IdTriplets
  <2> QED
    BY <1>3, <2>1
<1> QED
  BY <1>1, <1>4, <1>5

(* ++ goes past an answer that was given.                                  *)
LEMMA ProgressMoves ==
  ASSUME NEW w, NEW p_index, NEW t, NEW d, NEW order, NEW q, NEW walker, NEW out, NEW v,
         Progress(w, d, t, p_index, order, q, walker, out, "read", v)
  PROVE  /\ Progress(w, d, t, p_index, order, q, NextOf(t, walker), Append(out, v), "has_next", v)
         /\ v \in IdTriplets
<1>1. /\ Walk(w, p_index) /\ w.x.t = t
      /\ w.line = FileLines(d, order) /\ w.n = Len(d.file[order])
      /\ w.a = Asked(q, order).first /\ w.b = Asked(q, order).second
      /\ out \in Seq(IdTriplets) /\ Gave(w, walker, Len(out))
      /\ \A k \in 1 .. Len(out) : out[k] = w.line[w.base + k]
      /\ HasAnswer(w, walker)
      /\ GivenOf(walker) = walker /\ v = walker.val
  BY DEF Progress
<1>2. PICK e : e = Len(out)
  OBVIOUS
<1>3. /\ e \in Nat /\ w.base + e + 1 \in 1 .. w.n /\ GivenOf(walker).val = w.line[w.base + e + 1]
      /\ Gave(w, NextOf(w.x.t, walker), e + 1)
  BY <1>1, <1>2, WalkAnswers
<1>4. v = w.line[w.base + e + 1]
  BY <1>1, <1>3
<1>5. v \in IdTriplets
  <2>1. w.line \in [1 .. w.n -> IdTriplets]
    BY <1>1 DEF Walk, SortedLines, IdTriplets
  <2> QED
    BY <1>3, <1>4, <2>1
<1>6. PICK more : more = Append(out, v)
  OBVIOUS
<1>7. /\ more \in Seq(IdTriplets) /\ Len(more) = e + 1
      /\ \A k \in 1 .. e : more[k] = out[k]
      /\ more[e + 1] = v
  BY <1>1, <1>2, <1>5, <1>6
<1>8. \A k \in 1 .. e + 1 : more[k] = w.line[w.base + k]
  <2>1. w.base \in Nat
    BY <1>1 DEF Walk, Block
  <2>2. w.base + (e + 1) = w.base + e + 1
    BY <1>3, <2>1
  <2>3. \A k \in 1 .. e + 1 : k \in 1 .. e \/ k = e + 1
    BY <1>3
  <2> QED
    BY <1>1, <1>2, <1>4, <1>7, <2>2, <2>3
<1>9. Progress(w, d, t, p_index, order, q, NextOf(t, walker), more, "has_next", v)
  BY <1>1, <1>3, <1>7, <1>8 DEF Progress
<1> QED
  BY <1>5, <1>6, <1>9


-----------------------------------------------------------------------------
(* A selection that was begun walks over its answers.                      *)
Selecting ==
  /\ m_perm \in permutation_type /\ OrderOf(m_perm) \in permutation_type
  /\ Asked(pattern, OrderOf(m_perm)).third = wildcard_symbol
  /\ \E w : Progress(w, data, TrieFor(m_perm), index.p_index, OrderOf(m_perm),
                     pattern, it, emitted, pc, val)

SelectInv ==
  /\ pc \in {"idle", "has_next", "ready", "read", "end"}
  /\ m_perm \in permutation_type \cup {"none"}
  /\ pattern \in [first : Int, second : Int, third : Int]
  /\ val \in IdTriplets \cup {no_triplet}
  /\ pc = "idle" => m_perm = "none" /\ pattern = no_triplet
  /\ pc \in {"has_next", "ready", "read"} => m_perm # "none"
  /\ m_perm = "none" => emitted = <<>>
  /\ m_perm # "none" => Selecting /\ triplet_id = garbage

(* What the actions leave alone.                                           *)
LEMMA OrderKept ==
  ASSUME UNCHANGED <<type, data, index, m_perm>>
  PROVE  /\ UNCHANGED <<TrieFor(m_perm), OrderOf(m_perm)>>
BY DEF TrieFor, OrderOf, layout

(* has_next keeps the selection; asked again it changes nothing.           *)
LEMMA HasNextSelecting ==
  ASSUME Built, SelectInv, HasNext
  PROVE  /\ SelectInv'
         /\ pc \in {"ready", "read"} /\ pc' = pc => it' = it /\ val' = val
<1>1. PICK t, order, answered :
             t = TrieFor(m_perm) /\ order = OrderOf(m_perm) /\ answered = index.p_index
  OBVIOUS
<1>2. /\ pc \in {"has_next", "ready", "read"}
      /\ it' = has_next.it
      /\ pc' = CASE has_next.answer = "again" -> "has_next"
                 [] has_next.answer = "no"    -> "end"
                 [] has_next.answer = "yes"   -> IF pc = "has_next" THEN "ready" ELSE pc
      /\ UNCHANGED <<type, data, index, pattern, m_perm, val, emitted, triplet_id>>
  BY DEF HasNext
<1>3. PICK w : Progress(w, data, t, answered, order, pattern, it, emitted, pc, val)
  BY <1>1, <1>2 DEF SelectInv, Selecting
<1>4. PICK turn : turn = HasNextOf(t, answered, it)
  OBVIOUS
<1>5. has_next = turn
  BY <1>1, <1>4 DEF has_next, HasNextOf
<1>6. /\ pc \in {"ready", "read"} => turn = Turn(it, "yes")
      /\ \/ turn.answer = "again" /\ Progress(w, data, t, answered, order, pattern, turn.it, emitted, "has_next", val)
         \/ turn.answer = "no" /\ Progress(w, data, t, answered, order, pattern, turn.it, emitted, "end", val)
         \/ /\ turn.answer = "yes"
            /\ Progress(w, data, t, answered, order, pattern, turn.it, emitted,
                        IF pc = "has_next" THEN "ready" ELSE pc, val)
  BY <1>2, <1>3, <1>4, ProgressTurns
<1>7. /\ it' = turn.it
      /\ turn.answer = "again" => pc' = "has_next"
      /\ turn.answer = "no" => pc' = "end"
      /\ turn.answer = "yes" => pc' = IF pc = "has_next" THEN "ready" ELSE pc
  BY <1>2, <1>5
<1>8. pc' \in {"has_next", "ready", "read", "end"}
  BY <1>2, <1>6, <1>7
<1>9. Progress(w, data', t, answered, order, pattern', it', emitted', pc', val')
  BY <1>2, <1>6, <1>7
<1>10. TrieFor(m_perm)' = t /\ OrderOf(m_perm)' = order /\ (index.p_index)' = answered
  BY <1>1, <1>2, OrderKept
<1>11. Selecting'
  <2>1. /\ m_perm \in permutation_type /\ order \in permutation_type
        /\ Asked(pattern, order).third = wildcard_symbol
    BY <1>1, <1>2 DEF SelectInv, Selecting
  <2>2. Asked(pattern, order)' = Asked(pattern, order)
    BY <1>2, <1>10, <1>1 DEF Asked
  <2> QED
    BY <1>1, <1>2, <1>9, <1>10, <2>1, <2>2 DEF Selecting
<1>12. SelectInv'
  BY <1>2, <1>8, <1>11 DEF SelectInv
<1>13. pc \in {"ready", "read"} => it' = it
  BY <1>6, <1>7 DEF Turn
<1> QED
  BY <1>2, <1>12, <1>13

(* * keeps the selection; asked again it changes nothing.                  *)
LEMMA DereferenceSelecting ==
  ASSUME Built, SelectInv, Dereference
  PROVE  /\ SelectInv'
         /\ pc \in {"ready", "read"} /\ pc' = pc => it' = it /\ val' = val
<1>1. PICK t, order, answered :
             t = TrieFor(m_perm) /\ order = OrderOf(m_perm) /\ answered = index.p_index
  OBVIOUS
<1>2. /\ pc \in {"ready", "read"}
      /\ it' = Dereferenced /\ val' = Dereferenced.val /\ pc' = "read"
      /\ UNCHANGED <<type, data, index, pattern, m_perm, emitted, triplet_id>>
  BY DEF Dereference
<1>3. PICK w : Progress(w, data, t, answered, order, pattern, it, emitted, pc, val)
  BY <1>1, <1>2 DEF SelectInv, Selecting
<1>4. PICK given : given = GivenOf(it)
  OBVIOUS
<1>5. Dereferenced = given
  BY <1>4 DEF Dereferenced, GivenOf
<1>6. /\ Progress(w, data, t, answered, order, pattern, given, emitted, "read", given.val)
      /\ pc = "read" => given = it /\ given.val = val
      /\ given.val \in IdTriplets
  BY <1>2, <1>3, <1>4, ProgressGives
<1>7. Progress(w, data', t, answered, order, pattern', it', emitted', pc', val')
  BY <1>2, <1>5, <1>6
<1>8. TrieFor(m_perm)' = t /\ OrderOf(m_perm)' = order /\ (index.p_index)' = answered
  BY <1>1, <1>2, OrderKept
<1>9. Selecting'
  <2>1. /\ m_perm \in permutation_type /\ order \in permutation_type
        /\ Asked(pattern, order).third = wildcard_symbol
    BY <1>1, <1>2 DEF SelectInv, Selecting
  <2> QED
    BY <1>2, <1>7, <1>8, <2>1 DEF Selecting
<1>10. SelectInv'
  BY <1>2, <1>5, <1>6, <1>9 DEF SelectInv
<1>11. pc' = pc => it' = it /\ val' = val
  BY <1>2, <1>5, <1>6
<1> QED
  BY <1>10, <1>11

(* ++ keeps the selection.                                                 *)
LEMMA IncrementSelecting ==
  ASSUME Built, SelectInv, Increment
  PROVE  SelectInv'
<1>1. PICK t, order, answered :
             t = TrieFor(m_perm) /\ order = OrderOf(m_perm) /\ answered = index.p_index
  OBVIOUS
<1>2. /\ pc = "read"
      /\ it' = Advanced /\ emitted' = Append(emitted, val) /\ pc' = "has_next"
      /\ UNCHANGED <<type, data, index, pattern, m_perm, val, triplet_id>>
  BY DEF Increment
<1>3. PICK w : Progress(w, data, t, answered, order, pattern, it, emitted, "read", val)
  BY <1>1, <1>2 DEF SelectInv, Selecting
<1>4. Advanced = NextOf(t, it)
  BY <1>1 DEF Advanced, NextOf
<1>5. Progress(w, data, t, answered, order, pattern, NextOf(t, it), Append(emitted, val), "has_next", val)
  BY <1>3, ProgressMoves
<1>6. Progress(w, data', t, answered, order, pattern', it', emitted', pc', val')
  BY <1>2, <1>4, <1>5
<1>7. TrieFor(m_perm)' = t /\ OrderOf(m_perm)' = order /\ (index.p_index)' = answered
  BY <1>1, <1>2, OrderKept
<1>8. Selecting'
  <2>1. /\ m_perm \in permutation_type /\ order \in permutation_type
        /\ Asked(pattern, order).third = wildcard_symbol
    BY <1>1, <1>2 DEF SelectInv, Selecting
  <2> QED
    BY <1>2, <1>6, <1>7, <2>1 DEF Selecting
<1>9. m_perm # "none"
  BY <1>2 DEF SelectInv
<1> QED
  BY <1>2, <1>8, <1>9 DEF SelectInv

(* select_all starts a selection.                                          *)
LEMMA SelectAllSelecting ==
  ASSUME Built, SelectInv, MemberInv, SelectAll
  PROVE  SelectInv'
<1>1. /\ pc = "idle" /\ m_perm' = "spo" /\ it' = select_all(index.spo) /\ pc' = "has_next"
      /\ UNCHANGED <<type, data, index, pattern, val, emitted, triplet_id>>
      /\ m_perm = "none" /\ pattern = no_triplet /\ emitted = <<>>
  BY DEF SelectAll, SelectInv
<1>2. PICK x : IndexTrie(x, data, type, "spo") /\ x.t = index.spo
  BY SpoTrie
<1>3. /\ Describes(x) /\ x.line = FileLines(data, "spo") /\ x.n = Len(data.file["spo"])
  BY <1>2 DEF IndexTrie
<1>4. /\ Goes(x, select_all(x.t), 0, x.n, 0)
      /\ Block(x.line, x.n, wildcard_symbol, wildcard_symbol, 0, x.n)
  BY <1>3, SelectsAll
<1>5. PICK w : w = WalkOf("iterator", x, x, data, "spo", wildcard_symbol, wildcard_symbol, 0, x.n)
  OBVIOUS
<1>6. /\ w.kind = "iterator" /\ w.x = x /\ w.line = x.line /\ w.n = x.n
      /\ w.a = wildcard_symbol /\ w.b = wildcard_symbol /\ w.base = 0 /\ w.c = x.n
  BY <1>3, <1>5 DEF WalkOf
<1>7. SortedLines(x.line, x.n)
  <2>1. "spo" \in permutation_type /\ WellFormed(data)
    BY DEF permutation_type, Built
  <2> QED
    BY <1>3, <2>1, FileSorted
<1>8. Walk(w, index.p_index)
  BY <1>3, <1>4, <1>6, <1>7 DEF Walk
<1>9. select_all(x.t).kind = "iterator" /\ 0 \in 0 .. x.n
  BY <1>4 DEF Goes, Block
<1>10. Gave(w, select_all(x.t), 0)
  BY <1>4, <1>6, <1>9 DEF Gave
<1>11. /\ Asked(no_triplet, "spo").first = wildcard_symbol
       /\ Asked(no_triplet, "spo").second = wildcard_symbol
       /\ Asked(no_triplet, "spo").third = wildcard_symbol
  BY DEF Asked, read_next, Columns, no_triplet, Triplet, Subject, Predicate, Object
<1>12. Started(w, index.p_index, index.spo, data, "spo", Asked(pattern, "spo").first,
               Asked(pattern, "spo").second, it')
  BY <1>1, <1>2, <1>3, <1>6, <1>8, <1>10, <1>11 DEF Started
<1>13. Progress(w, data, index.spo, index.p_index, "spo", pattern, it', <<>>, "has_next", val)
  BY <1>12, ProgressStarts
<1>14. TrieFor(m_perm)' = index.spo /\ OrderOf(m_perm)' = "spo"
  <2>1. layout' = layout /\ index' = index /\ m_perm' = "spo"
    BY <1>1 DEF layout
  <2>2. layout \in {"3t", "2tp", "2to"}
    BY TypeFacts DEF Built, layout
  <2> QED
    BY <2>1, <2>2 DEF TrieFor, OrderOf
<1>15. Selecting'
  <2>1. "spo" \in permutation_type
    BY DEF permutation_type
  <2> QED
    BY <1>1, <1>11, <1>13, <1>14, <2>1 DEF Selecting
<1>16. triplet_id = garbage
  BY <1>1 DEF MemberInv
<1> QED
  BY <1>1, <1>15, <1>16 DEF SelectInv, permutation_type


(* select starts a selection.                                              *)
LEMMA SelectSelecting ==
  ASSUME Built, SelectInv, MemberInv, NEW q \in Patterns, Select(q), Unguarded = FALSE
  PROVE  SelectInv'
<1>1. PICK p : p = permute(q)
  OBVIOUS
<1>2. /\ pc = "idle" /\ ~ AbsenceUnseen(q, p) /\ ~ PairAbsent(p)
      /\ pattern' = q /\ m_perm' = p.perm /\ pc' = "has_next" /\ it' = Selection(p.perm, p.triplet)
      /\ UNCHANGED <<type, data, index, val, emitted, triplet_id>>
  BY <1>1 DEF Select
<1>3. m_perm = "none" /\ emitted = <<>> /\ triplet_id = garbage
  BY <1>2 DEF SelectInv, MemberInv
<1>4. SelectionStarts(q, p)
  BY <1>1, <1>2, WalkStarts
<1>5. PICK t, order, answered :
             t = TrieFor(p.perm) /\ order = OrderOf(p.perm) /\ answered = index.p_index
  OBVIOUS
<1>6. /\ p.perm \in permutation_type /\ order \in permutation_type
      /\ Asked(q, order).third = wildcard_symbol
      /\ \E w : Started(w, answered, t, data, order, Asked(q, order).first, Asked(q, order).second, it')
  BY <1>2, <1>4, <1>5 DEF SelectionStarts
<1>7. PICK w : Progress(w, data, t, answered, order, q, it', <<>>, "has_next", val)
  BY <1>6, ProgressStarts
<1>8. TrieFor(m_perm)' = t /\ OrderOf(m_perm)' = order /\ (index.p_index)' = answered
  <2>1. layout' = layout /\ index' = index /\ m_perm' = p.perm
    BY <1>2 DEF layout
  <2> QED
    BY <1>5, <2>1 DEF TrieFor, OrderOf
<1>9. Selecting'
  BY <1>2, <1>3, <1>6, <1>7, <1>8 DEF Selecting
<1>10. q \in [first : Int, second : Int, third : Int]
  BY PatternsShaped
<1>11. m_perm' # "none"
  BY <1>2, <1>6 DEF permutation_type
<1> QED
  BY <1>2, <1>3, <1>6, <1>9, <1>10, <1>11 DEF SelectInv

(* Of all that a client does.                                              *)
LEMMA SelectAlways ==
  ASSUME Unguarded = FALSE
  PROVE  Spec => [](Built /\ MemberInv /\ SelectInv)
<1>1. Init => SelectInv
  <2> SUFFICES ASSUME Init PROVE SelectInv
    OBVIOUS
  <2>1. no_triplet \in [first : Int, second : Int, third : Int]
    BY DEF no_triplet, Triplet, wildcard_symbol
  <2>2. "none" \notin permutation_type
    BY DEF permutation_type
  <2> QED
    BY <2>1, <2>2 DEF Init, SelectInv
<1>2. Built /\ MemberInv /\ SelectInv /\ [Next]_vars => SelectInv'
  <2> SUFFICES ASSUME Built, MemberInv, SelectInv, [Next]_vars PROVE SelectInv'
    OBVIOUS
  <2>1. CASE UNCHANGED vars
    <3>1. UNCHANGED <<type, data, index, pattern, pc, it, m_perm, val, emitted, triplet_id>>
      BY <2>1 DEF vars
    <3>2. TrieFor(m_perm)' = TrieFor(m_perm) /\ OrderOf(m_perm)' = OrderOf(m_perm)
      BY <3>1, OrderKept
    <3>3. Selecting => Selecting'
      BY <3>1, <3>2 DEF Selecting
    <3> QED
      BY <3>1, <3>3 DEF SelectInv
  <2>2. CASE SelectAll
    BY <2>2, SelectAllSelecting
  <2>3. ASSUME NEW q \in Patterns, Select(q) PROVE SelectInv'
    BY <2>3, SelectSelecting
  <2>4. ASSUME NEW q \in Triplets, IsMember(q) PROVE SelectInv'
    <3>1. /\ pc = "idle" /\ pc' = "end" /\ pattern' = q
          /\ UNCHANGED <<type, data, index, it, m_perm, val, emitted>>
          /\ m_perm = "none"
      BY <2>4 DEF IsMember, SelectInv
    <3>2. q \in [first : Int, second : Int, third : Int]
      BY AskedIds
    <3> QED
      BY <3>1, <3>2 DEF SelectInv
  <2>5. CASE HasNext
    BY <2>5, HasNextSelecting
  <2>6. CASE Dereference
    BY <2>6, DereferenceSelecting
  <2>7. CASE Increment
    BY <2>7, IncrementSelecting
  <2> QED
    BY <2>1, <2>2, <2>3, <2>4, <2>5, <2>6, <2>7 DEF Next
<1> QED
  BY <1>1, <1>2, BuiltAlways, MemberAlways, PTL DEF Spec

(* What the client sees has its type, and no state is undefined: on the    *)
(* data and for the queries that the guards leave (Unguarded is FALSE).    *)
THEOREM TypeCorrect ==
  ASSUME Unguarded = FALSE
  PROVE  Spec => []TypeOK
<1>1. Built /\ MemberInv /\ SelectInv => TypeOK
  <2> SUFFICES ASSUME Built, MemberInv, SelectInv PROVE TypeOK
    OBVIOUS
  <2>1. emitted \in Seq([first : Nat, second : Nat, third : Nat])
    <3>1. CASE m_perm = "none"
      BY <3>1 DEF SelectInv
    <3>2. CASE m_perm # "none"
      <4>1. PICK w, t, order, answered : Progress(w, data, t, answered, order, pattern, it, emitted, pc, val)
        BY <3>2 DEF SelectInv, Selecting
      <4>2. emitted \in Seq(IdTriplets)
        BY <4>1 DEF Progress
      <4> QED
        BY <4>2 DEF IdTriplets
    <3> QED
      BY <3>1, <3>2
  <2>2. val \in [first : Int, second : Int, third : Int]
    <3>1. no_triplet \in [first : Int, second : Int, third : Int]
      BY DEF no_triplet, Triplet, wildcard_symbol
    <3>2. \A t \in IdTriplets : t \in [first : Int, second : Int, third : Int]
      BY DEF IdTriplets
    <3> QED
      BY <3>1, <3>2 DEF SelectInv
  <2>3. triplet_id \in Int
    BY DEF MemberInv, RightMember, garbage, not_found
  <2> QED
    BY <2>1, <2>2, <2>3 DEF TypeOK, SelectInv
<1> QED
  BY <1>1, SelectAlways, PTL

(* has_next and *, asked again, change nothing, where the guards hold.     *)
THEOREM AskingAgainHolds ==
  ASSUME Unguarded = FALSE
  PROVE  Spec => AskingAgainIsHarmless
<1>1. Built /\ MemberInv /\ SelectInv /\ [Next]_vars
        => [(pc \in {"ready", "read"} /\ pc' = pc) => (it' = it /\ val' = val)]_vars
  <2> SUFFICES ASSUME Built, SelectInv, [Next]_vars, pc \in {"ready", "read"}, pc' = pc
               PROVE  (it' = it /\ val' = val) \/ UNCHANGED vars
    OBVIOUS
  <2>1. CASE HasNext
    BY <2>1, HasNextSelecting
  <2>2. CASE Dereference
    BY <2>2, DereferenceSelecting
  <2>3. CASE Increment \/ SelectAll \/ (\E q \in Patterns : Select(q)) \/ \E q \in Triplets : IsMember(q)
    BY <2>3 DEF Increment, SelectAll, Select, IsMember
  <2> QED
    BY <2>1, <2>2, <2>3 DEF Next
<1> QED
  BY <1>1, SelectAlways, PTL DEF Spec, AskingAgainIsHarmless


-----------------------------------------------------------------------------
(* A line is what AsLine makes of it, read in the order of the answers.    *)
LEMMA LineReadBack ==
  ASSUME NEW l \in Nat \X Nat \X Nat, AnswerOrder \in permutation_type
  PROVE  AsLine(read_next(AnswerOrder, l)) = l
<1>1. PICK order \in permutation_type : order = AnswerOrder
  OBVIOUS
<1>2. PICK a, b, c : /\ a = Columns[order][1] /\ b = Columns[order][2] /\ c = Columns[order][3]
                     /\ a \in 1 .. 3 /\ b \in 1 .. 3 /\ c \in 1 .. 3
                     /\ a # b /\ a # c /\ b # c
  <2>1. /\ Columns[order][1] \in 1 .. 3 /\ Columns[order][2] \in 1 .. 3 /\ Columns[order][3] \in 1 .. 3
        /\ Columns[order][1] # Columns[order][2] /\ Columns[order][1] # Columns[order][3]
        /\ Columns[order][2] # Columns[order][3]
    BY DEF permutation_type, Columns, Subject, Predicate, Object
  <2> QED
    BY <2>1
<1> DEFINE ids == <<l[a], l[b], l[c]>>
           at(column) == CHOOSE k \in 1 .. 3 : Columns[order][k] = column
<1>3. AsLine(read_next(order, l)) = [column \in 1 .. 3 |-> ids[at(column)]]
  <2>1. /\ read_next(order, l).first = l[a] /\ read_next(order, l).second = l[b]
        /\ read_next(order, l).third = l[c]
    BY <1>2, LineRead
  <2> QED
    BY <1>1, <2>1 DEF AsLine
<1>4. \A k \in 1 .. 3 : k = 1 \/ k = 2 \/ k = 3
  OBVIOUS
<1>5. ASSUME NEW column \in 1 .. 3
      PROVE  at(column) \in 1 .. 3 /\ Columns[order][at(column)] = column
  <2>1. \E k \in 1 .. 3 : Columns[order][k] = column
    <3>1. column = a \/ column = b \/ column = c
      BY <1>2, <1>4
    <3> QED
      BY <1>2, <3>1
  <2> QED
    BY <2>1
<1>6. ids[1] = l[a] /\ ids[2] = l[b] /\ ids[3] = l[c]
  OBVIOUS
<1> HIDE DEF ids, at
<1>7. \A column \in 1 .. 3 : ids[at(column)] = l[column]
  <2> TAKE column \in 1 .. 3
  <2>1. at(column) \in 1 .. 3 /\ Columns[order][at(column)] = column
    BY <1>5
  <2>2. at(column) = 1 \/ at(column) = 2 \/ at(column) = 3
    BY <1>4, <2>1
  <2> QED
    BY <1>2, <1>6, <2>1, <2>2
<1>8. [column \in 1 .. 3 |-> ids[at(column)]] = [column \in 1 .. 3 |-> l[column]]
  BY <1>7
<1>9. [column \in 1 .. 3 |-> l[column]] = l
  OBVIOUS
<1> QED
  BY <1>1, <1>3, <1>8, <1>9

(* A query matches a line when its answers are in the order of a file      *)
(* where the first and the second id say all.                              *)
LEMMA MatchesAnswers ==
  ASSUME NEW perm \in permutation_type, NEW q, Asked(q, perm).third = wildcard_symbol, NEW l
  PROVE  Store!Matches(l, q)
           <=> Answers(read_next(perm, l), Asked(q, perm).first, Asked(q, perm).second)
<1> DEFINE ids == <<q.first, q.second, q.third>>
<1>1. PICK a, b, c : /\ a = Columns[perm][1] /\ b = Columns[perm][2] /\ c = Columns[perm][3]
                     /\ a \in 1 .. 3 /\ b \in 1 .. 3 /\ c \in 1 .. 3
                     /\ a # b /\ a # c /\ b # c
  <2>1. /\ Columns[perm][1] \in 1 .. 3 /\ Columns[perm][2] \in 1 .. 3 /\ Columns[perm][3] \in 1 .. 3
        /\ Columns[perm][1] # Columns[perm][2] /\ Columns[perm][1] # Columns[perm][3]
        /\ Columns[perm][2] # Columns[perm][3]
    BY DEF permutation_type, Columns, Subject, Predicate, Object
  <2> QED
    BY <2>1
<1>2. /\ Asked(q, perm).first = ids[a] /\ Asked(q, perm).second = ids[b]
      /\ Asked(q, perm).third = ids[c]
  BY <1>1, AskedFields
<1>3. read_next(perm, l).first = l[a] /\ read_next(perm, l).second = l[b]
  BY <1>1 DEF read_next, Triplet
<1>4. ids[1] = q.first /\ ids[2] = q.second /\ ids[3] = q.third
  OBVIOUS
<1> HIDE DEF ids
<1>5. Store!Matches(l, q) <=> \A k \in 1 .. 3 : ids[k] \in {wildcard_symbol, l[k]}
  <2>1. \A k \in 1 .. 3 : k = 1 \/ k = 2 \/ k = 3
    OBVIOUS
  <2>2. Store!Matches(l, q) <=> /\ ids[1] \in {wildcard_symbol, l[1]}
                                /\ ids[2] \in {wildcard_symbol, l[2]}
                                /\ ids[3] \in {wildcard_symbol, l[3]}
    BY <1>4 DEF Store!Matches, Store!Subject, Store!Predicate, Store!Object, Store!wildcard_symbol,
                Subject, Predicate, Object, wildcard_symbol
  <2> QED
    BY <2>1, <2>2
<1>6. \A k \in 1 .. 3 : k = a \/ k = b \/ k = c
  BY <1>1
<1>7. (\A k \in 1 .. 3 : ids[k] \in {wildcard_symbol, l[k]})
        <=> ids[a] \in {wildcard_symbol, l[a]} /\ ids[b] \in {wildcard_symbol, l[b]}
  BY <1>1, <1>2, <1>6
<1> QED
  BY <1>2, <1>3, <1>5, <1>7 DEF Answers


(* The answers are c lines of a file, after the first base; the client     *)
(* went past the first of them, in the order of the file, past all at the  *)
(* end, and has * give the next.                                           *)
Listed(file, base, c) ==
  /\ Len(file) \in Nat /\ base \in Nat /\ c \in Nat /\ base + c <= Len(file)
  /\ \A i \in 1 .. Len(file) : file[i] \in data.lines
  /\ \A l \in data.lines : \E i \in 1 .. Len(file) : file[i] = l
  /\ \A i, k \in 1 .. Len(file) : i < k => file[i] # file[k]
  /\ \A i \in 1 .. Len(file) : Store!Matches(file[i], pattern) <=> base < i /\ i <= base + c
  /\ emitted \in Seq(IdTriplets) /\ Len(emitted) \in 0 .. c
  /\ \A k \in 1 .. Len(emitted) : AsLine(emitted[k]) = file[base + k]
  /\ pc = "end" => Len(emitted) = c
  /\ pc = "read" => /\ Len(emitted) < c /\ val \in IdTriplets
                    /\ AsLine(val) = file[base + Len(emitted) + 1]

(* What the client was given is the start of what the file lists.          *)
LEMMA AnswersListed ==
  ASSUME Built, SelectInv, m_perm # "none"
  PROVE  \E base, c : Listed(data.file[AnswerOrder], base, c)
<1>1. PICK order : order = AnswerOrder
  OBVIOUS
<1>2. /\ order \in permutation_type /\ Asked(pattern, order).third = wildcard_symbol
      /\ AnswerOrder \in permutation_type /\ order = OrderOf(m_perm)
  BY <1>1 DEF SelectInv, Selecting, AnswerOrder, OrderOf
<1>3. PICK file, n : file = data.file[order] /\ n = Len(file)
  OBVIOUS
<1>4. PICK w, t, p_index : Progress(w, data, t, p_index, order, pattern, it, emitted, pc, val)
  BY <1>2 DEF SelectInv, Selecting
<1>5. PICK base, c : base = w.base /\ c = w.c
  OBVIOUS
<1>6. /\ Walk(w, p_index) /\ w.x.t = t
      /\ w.line = FileLines(data, order) /\ w.n = n
      /\ w.a = Asked(pattern, order).first /\ w.b = Asked(pattern, order).second
      /\ emitted \in Seq(IdTriplets) /\ Gave(w, it, Len(emitted))
      /\ \A k \in 1 .. Len(emitted) : emitted[k] = w.line[w.base + k]
      /\ pc = "read" => HasAnswer(w, it) /\ GivenOf(it) = it /\ val = it.val
      /\ pc = "end" => Len(emitted) = c
  BY <1>3, <1>4, <1>5 DEF Progress
<1>7. /\ Block(w.line, n, w.a, w.b, base, c) /\ SortedLines(w.line, n)
      /\ Len(emitted) \in 0 .. c
  BY <1>5, <1>6 DEF Walk, Gave
<1>8. base \in Nat /\ c \in Nat /\ base + c <= n /\ n \in Nat
  BY <1>7 DEF Block, SortedLines
<1>9. /\ \A i \in 1 .. n : file[i] \in data.lines /\ w.line[i] = read_next(order, file[i])
      /\ \A l \in data.lines : \E i \in 1 .. n : file[i] = l
  <2>1. WellFormed(data) /\ order \in permutation_type
    BY <1>2 DEF Built
  <2>2. /\ \A i \in 1 .. Len(data.file[order]) :
             /\ data.file[order][i] \in data.lines
             /\ FileLines(data, order)[i] = read_next(order, data.file[order][i])
        /\ \A l \in data.lines : \E i \in 1 .. Len(data.file[order]) : data.file[order][i] = l
    BY <2>1, FileHasLines
  <2> QED
    BY <1>3, <1>6, <2>2
<1>10. \A i \in 1 .. n : AsLine(w.line[i]) = file[i]
  <2>1. data.lines \subseteq Nat \X Nat \X Nat
    BY DEF Built, WellFormed
  <2>2. \A i \in 1 .. n : file[i] \in Nat \X Nat \X Nat
    BY <1>9, <2>1
  <2> QED
    BY <1>1, <1>2, <1>9, <2>2, LineReadBack
<1>11. ASSUME NEW i \in 1 .. n, NEW k \in 1 .. n, i < k PROVE file[i] # file[k]
  <2>1. Precedes(w.line[i], w.line[k])
    BY <1>7, <1>11, LinesInOrder
  <2>2. w.line[i] \in IdTriplets
    BY <1>7 DEF SortedLines, IdTriplets
  <2>3. ~ Precedes(w.line[i], w.line[i])
    BY <2>2, TotalOrder
  <2> QED
    BY <1>9, <2>1, <2>3
<1>12. ASSUME NEW i \in 1 .. n
       PROVE  Store!Matches(file[i], pattern) <=> base < i /\ i <= base + c
  <2>1. Store!Matches(file[i], pattern) <=> Answers(w.line[i], w.a, w.b)
    BY <1>2, <1>6, <1>9, MatchesAnswers
  <2>2. PICK k \in 0 .. n - 1 : k + 1 = i
    <3>1. i - 1 \in 0 .. n - 1 /\ (i - 1) + 1 = i
      BY <1>8
    <3> QED
      BY <3>1
  <2>3. Answers(w.line[i], w.a, w.b) <=> base <= k /\ k < base + c
    BY <1>7, <2>2 DEF Block
  <2> QED
    BY <1>8, <2>1, <2>2, <2>3
<1>13. ASSUME NEW k \in 1 .. Len(emitted)
       PROVE  AsLine(emitted[k]) = file[base + k]
  <2>1. base + k \in 1 .. n
    BY <1>7, <1>8
  <2> QED
    BY <1>5, <1>6, <1>10, <2>1
<1>14. ASSUME pc = "read"
       PROVE  /\ Len(emitted) < c /\ val \in IdTriplets
              /\ AsLine(val) = file[base + Len(emitted) + 1]
  <2>1. PICK e : e = Len(emitted)
    OBVIOUS
  <2>2. Gave(w, it, e) /\ HasAnswer(w, it) /\ GivenOf(it) = it /\ val = it.val
    BY <1>6, <1>14, <2>1
  <2>3. /\ e < w.c /\ w.base + e + 1 \in 1 .. w.n
        /\ GivenOf(it).val = w.line[w.base + e + 1]
    BY <1>6, <2>2, WalkAnswers
  <2>4. \A i \in 1 .. n : w.line[i] \in IdTriplets
    BY <1>7 DEF SortedLines, IdTriplets
  <2> QED
    BY <1>5, <1>6, <1>10, <2>1, <2>2, <2>3, <2>4
<1>15. Listed(file, base, c)
  <2>1. Len(file) = n /\ n \in Nat /\ base \in Nat /\ c \in Nat /\ base + c <= n
    BY <1>3, <1>8
  <2>2. /\ \A i \in 1 .. n : file[i] \in data.lines
        /\ \A l \in data.lines : \E i \in 1 .. n : file[i] = l
    BY <1>9
  <2>3. \A i, k \in 1 .. n : i < k => file[i] # file[k]
    BY <1>11
  <2>4. \A i \in 1 .. n : Store!Matches(file[i], pattern) <=> base < i /\ i <= base + c
    BY <1>12
  <2>5. emitted \in Seq(IdTriplets) /\ Len(emitted) \in 0 .. c
    BY <1>6, <1>7
  <2>6. \A k \in 1 .. Len(emitted) : AsLine(emitted[k]) = file[base + k]
    BY <1>13
  <2>7. pc = "end" => Len(emitted) = c
    BY <1>6
  <2> QED
    BY <1>14, <2>1, <2>2, <2>3, <2>4, <2>5, <2>6, <2>7 DEF Listed
<1> QED
  BY <1>1, <1>3, <1>15

(* The answers come in the order of the file, from its first match: of     *)
(* every selection that SeveralPartitions, AbsenceUnseen and PairAbsent    *)
(* leave (Unguarded is FALSE), and of no index with a pef_sequence of a    *)
(* single partition, whose iterators read elsewhere.                       *)
THEOREM InFileOrderHolds ==
  ASSUME Unguarded = FALSE
  PROVE  Spec => []InFileOrder
<1>1. Built /\ MemberInv /\ SelectInv => InFileOrder
  <2> SUFFICES ASSUME Built, SelectInv, m_perm # "none"
               PROVE  LET file == data.file[AnswerOrder]
                          matches == {i \in DOMAIN file : Store!Matches(file[i], pattern)}
                      IN  \A k \in DOMAIN emitted :
                            \E i \in matches : /\ EmittedLines[k] = file[i]
                                               /\ Cardinality({j \in matches : j < i}) = k - 1
    BY DEF InFileOrder
  <2> DEFINE file == data.file[AnswerOrder]
             matches == {i \in DOMAIN file : Store!Matches(file[i], pattern)}
  <2>1. PICK base, c : Listed(file, base, c)
    BY AnswersListed
  <2>2. /\ Len(file) \in Nat /\ base \in Nat /\ c \in Nat /\ base + c <= Len(file)
        /\ \A i \in 1 .. Len(file) : Store!Matches(file[i], pattern) <=> base < i /\ i <= base + c
        /\ emitted \in Seq(IdTriplets) /\ Len(emitted) \in 0 .. c
        /\ \A k \in 1 .. Len(emitted) : AsLine(emitted[k]) = file[base + k]
    BY <2>1 DEF Listed
  <2>3. DOMAIN file = 1 .. Len(file) /\ DOMAIN emitted = 1 .. Len(emitted)
    <3>1. AnswerOrder \in permutation_type
      BY DEF SelectInv, Selecting, AnswerOrder, OrderOf
    <3>2. file \in Seq(data.lines)
      BY <3>1 DEF Built, WellFormed
    <3> QED
      BY <2>2, <3>2
  <2> HIDE DEF file
  <2>4. matches = base + 1 .. base + c
    BY <2>2, <2>3
  <2> HIDE DEF matches
  <2>5. ASSUME NEW k \in DOMAIN emitted
        PROVE  \E i \in matches : /\ EmittedLines[k] = file[i]
                                  /\ Cardinality({j \in matches : j < i}) = k - 1
    <3>1. k \in 1 .. Len(emitted) /\ k \in 1 .. c /\ base + k \in matches
      BY <2>2, <2>3, <2>4
    <3>2. EmittedLines[k] = file[base + k]
      BY <2>2, <3>1 DEF EmittedLines
    <3>3. {j \in matches : j < base + k} = base + 1 .. base + k - 1
      BY <2>2, <2>4, <3>1
    <3>4. Cardinality(base + 1 .. base + k - 1) = k - 1
      <4>1. PICK a, b : a = base + 1 /\ b = base + k - 1
        OBVIOUS
      <4>2. k \in Nat /\ k >= 1
        BY <2>2, <3>1
      <4>3. a \in Int /\ b \in Int
        BY <2>2, <4>1, <4>2
      <4>4. Cardinality(a .. b) = IF a > b THEN 0 ELSE b - a + 1
        BY <4>3, FS_Interval
      <4>5. (a > b => k - 1 = 0) /\ b - a + 1 = k - 1
        BY <2>2, <4>1, <4>2
      <4> QED
        BY <4>1, <4>4, <4>5
    <3> QED
      BY <3>1, <3>2, <3>3, <3>4
  <2> QED
    BY <2>5 DEF file, matches
<1> QED
  BY <1>1, SelectAlways, PTL


(* At each state the client has gone past the lines it should have.        *)
ListedInv == m_perm # "none" => \E base, c : Listed(data.file[AnswerOrder], base, c)

(* ListedInv follows from the inductive invariant.                         *)
LEMMA ListedAlways ==
  ASSUME Unguarded = FALSE
  PROVE  Spec => [](Built /\ MemberInv /\ SelectInv /\ ListedInv)
<1>1. Built /\ MemberInv /\ SelectInv => ListedInv
  BY AnswersListed DEF ListedInv
<1> QED
  BY <1>1, SelectAlways, PTL

(* The lines of the triplets an iterator gave in an order: EmittedLines.   *)
LineIn(order, t) ==
  LET ids == <<t.first, t.second, t.third>>
  IN  [column \in 1 .. 3 |-> ids[CHOOSE k \in 1 .. 3 : Columns[order][k] = column]]
LinesIn(order, given) == [k \in DOMAIN given |-> LineIn(order, given[k])]

(* One more triplet, one more line.                                        *)
LEMMA LinesAppended ==
  ASSUME NEW order, NEW given \in Seq(IdTriplets), NEW t \in IdTriplets
  PROVE  LinesIn(order, Append(given, t)) = Append(LinesIn(order, given), LineIn(order, t))
<1> DEFINE n == Len(given)
           longer == Append(given, t)
           lines == LinesIn(order, given)
           line == LineIn(order, t)
<1>1. /\ n \in Nat /\ DOMAIN given = 1 .. n
      /\ longer \in Seq(IdTriplets) /\ Len(longer) = n + 1 /\ DOMAIN longer = 1 .. n + 1
      /\ longer[n + 1] = t /\ \A k \in 1 .. n : longer[k] = given[k]
  OBVIOUS
<1>2. lines = [k \in 1 .. n |-> LineIn(order, given[k])]
  BY <1>1 DEF LinesIn
<1>3. LinesIn(order, longer) = [k \in 1 .. n + 1 |-> LineIn(order, longer[k])]
  BY <1>1 DEF LinesIn
<1> HIDE DEF n, longer, line
<1>4. lines \in Seq({LineIn(order, given[k]) : k \in 1 .. n}) /\ Len(lines) = n
  BY <1>1, <1>2
<1> HIDE DEF lines
<1>5. ASSUME NEW k \in 1 .. n + 1
      PROVE  LineIn(order, longer[k]) = IF k <= n THEN lines[k] ELSE line
  <2>1. CASE k \in 1 .. n
    BY <1>1, <1>2, <2>1
  <2>2. CASE k = n + 1
    BY <1>1, <2>2 DEF line
  <2> QED
    BY <1>1, <2>1, <2>2
<1>6. PICK S : lines \in Seq(S) /\ line \in S
  <2>1. lines \in Seq({LineIn(order, given[k]) : k \in 1 .. n} \cup {line})
    BY <1>1, <1>2
  <2> QED
    BY <2>1
<1>7. /\ Append(lines, line) \in Seq(S) /\ Len(Append(lines, line)) = n + 1
      /\ \A k \in 1 .. n : Append(lines, line)[k] = lines[k]
      /\ Append(lines, line)[n + 1] = line
  BY <1>1, <1>4, <1>6, AppendProperties
<1>8. \A k \in 1 .. n : lines[k] \in S
  BY <1>4, <1>6
<1>9. PICK longest : longest = LinesIn(order, longer)
  OBVIOUS
<1>10. DOMAIN longest = 1 .. n + 1 /\ longest = [k \in 1 .. n + 1 |-> longest[k]]
  BY <1>3, <1>9
<1>11. \A k \in 1 .. n + 1 : longest[k] = IF k <= n THEN lines[k] ELSE line
  BY <1>3, <1>5, <1>9
<1>12. longest \in Seq(S) /\ Len(longest) = n + 1
  <2>1. \A k \in 1 .. n + 1 : longest[k] \in S
    BY <1>1, <1>6, <1>8, <1>11
  <2> QED
    BY <1>1, <1>10, <2>1
<1>13. \A k \in 1 .. n + 1 : longest[k] = Append(lines, line)[k]
  BY <1>1, <1>7, <1>11
<1>14. longest = Append(lines, line)
  BY <1>7, <1>12, <1>13, SeqEqual
<1> QED
  BY <1>9, <1>14 DEF longer, lines, line

(* What a store has emitted, and what it has yet to emit, at a selection.  *)
LEMMA StoreEmits ==
  ASSUME m_perm # "none"
  PROVE  StoreEmitted = LinesIn(AnswerOrder, emitted)
BY DEF StoreEmitted, EmittedLines, AsLine, LinesIn, LineIn


(* A query begins: permute's selection is the store's Select.              *)
LEMMA StoreSelects ==
  ASSUME SelectInv, SelectInv', pc = "idle", pc' = "has_next", m_perm' # "none",
         data' = data, emitted' = emitted
  PROVE  Store!Select
<1>1. m_perm = "none" /\ emitted = <<>>
  BY DEF SelectInv
<1>2. StoreStatus = "idle" /\ StoreStatus' = "selecting"
  BY DEF StoreStatus
<1>3. pattern' \in [first : Int, second : Int, third : Int]
  BY DEF SelectInv
<1>4. StoreMember = "none" /\ StoreMember' = "none"
  BY DEF StoreMember
<1>5. StoreEmitted = <<>>
  BY <1>1 DEF StoreEmitted
<1>6. StoreEmitted' = <<>>
  <2>1. StoreEmitted' = [k \in DOMAIN emitted' |-> AsLine(emitted[k])']
    BY DEF StoreEmitted, EmittedLines
  <2>2. DOMAIN emitted' = {}
    BY <1>1
  <2> QED
    BY <2>1, <2>2
<1> QED
  BY <1>2, <1>3, <1>4, <1>5, <1>6 DEF Store!Select

(* is_member's answer is the store's.                                      *)
LEMMA StoreAnswers ==
  ASSUME Built, SelectInv, Unguarded = FALSE, NEW q \in Triplets, IsMember(q)
  PROVE  Store!IsMember
<1>1. /\ pc = "idle" /\ pc' = "end" /\ pattern' = q /\ m_perm' = m_perm
      /\ data' = data /\ emitted' = emitted /\ index' = index /\ type' = type
      /\ triplet_id' = is_member(index.spo, q)
  BY DEF IsMember
<1>2. m_perm = "none" /\ StoreEmitted = <<>> /\ StoreEmitted' = <<>>
  BY <1>1 DEF SelectInv, StoreEmitted
<1>3. StoreStatus = "idle" /\ StoreStatus' = "end"
  BY <1>1 DEF StoreStatus
<1>4. q \in [first : Nat, second : Nat, third : Nat]
  BY AskedIds
<1> DEFINE Found == \E t \in data.lines : Store!Matches(t, q)
<1>5. Found <=> \E l \in data.lines : read_next("spo", l) = q
  <2>1. \A l : read_next("spo", l) = Triplet(l[1], l[2], l[3])
    BY Readings
  <2>2. ASSUME NEW l PROVE Store!Matches(l, q) <=> q = Triplet(l[1], l[2], l[3])
    <3>1. q.first # wildcard_symbol /\ q.second # wildcard_symbol /\ q.third # wildcard_symbol
      BY <1>4 DEF wildcard_symbol
    <3>2. Store!Matches(l, q) <=> q.first = l[1] /\ q.second = l[2] /\ q.third = l[3]
      BY <3>1 DEF Store!Matches, Store!Subject, Store!Predicate, Store!Object,
                  Store!wildcard_symbol, wildcard_symbol
    <3>3. q = Triplet(q.first, q.second, q.third)
      BY <1>4 DEF Triplet
    <3> QED
      BY <3>2, <3>3 DEF Triplet
  <2> QED
    BY <2>1, <2>2
<1>6. PICK answer : answer = triplet_id'
  OBVIOUS
<1>7. RightMember(answer, q)
  <2>1. ~ AbsenceUnseen(q, Permuted("spo", q.first, q.second, q.third))
    BY DEF IsMember
  <2> QED
    BY <1>1, <1>6, <2>1, MemberRight
<1>8. answer # garbage /\ (answer # not_found <=> Found)
  <2>1. CASE answer \in 0 .. Len(data.file["spo"]) - 1 /\ FileLines(data, "spo")[answer + 1] = q
    <3>1. answer # garbage /\ answer # not_found
      BY <2>1 DEF garbage, not_found
    <3>2. WellFormed(data) /\ "spo" \in permutation_type
      BY DEF Built, permutation_type
    <3>3. \E i \in 1 .. Len(data.file["spo"]) : i = answer + 1
      BY <2>1, <3>2, FileHasLines
    <3>4. \E l \in data.lines : read_next("spo", l) = q
      BY <2>1, <3>2, <3>3, FileHasLines
    <3> QED
      BY <1>5, <3>1, <3>4
  <2>2. CASE answer = not_found /\ \A l \in data.lines : read_next("spo", l) # q
    BY <1>5, <2>2 DEF garbage, not_found
  <2> QED
    BY <1>7, <2>1, <2>2 DEF RightMember
<1>9. StoreMember = "none" /\ StoreMember' = IF Found THEN "yes" ELSE "no"
  BY <1>1, <1>6, <1>8 DEF StoreMember
<1>10. Found <=> \E t \in data.lines : Store!Matches(t, pattern')
  BY <1>1
<1> HIDE DEF Found
<1> QED
  BY <1>1, <1>2, <1>3, <1>4, <1>9, <1>10 DEF Store!IsMember

(* What a store has yet to emit: the lines after those given, and, at the  *)
(* end, none.                                                              *)
LEMMA StoreMisses ==
  ASSUME SelectInv, ListedInv, m_perm # "none"
  PROVE  /\ pc = "read" => AsLine(val) \in Store!Missing
         /\ pc = "end" => Store!Missing = {}
<1>1. PICK base, c : Listed(data.file[AnswerOrder], base, c)
  BY DEF ListedInv
<1>2. PICK file, e : file = data.file[AnswerOrder] /\ e = Len(emitted)
  OBVIOUS
<1>3. /\ Len(file) \in Nat /\ base \in Nat /\ c \in Nat /\ base + c <= Len(file)
      /\ \A i \in 1 .. Len(file) : file[i] \in data.lines
      /\ \A l \in data.lines : \E i \in 1 .. Len(file) : file[i] = l
      /\ \A i, k \in 1 .. Len(file) : i < k => file[i] # file[k]
      /\ \A i \in 1 .. Len(file) : Store!Matches(file[i], pattern) <=> base < i /\ i <= base + c
      /\ emitted \in Seq(IdTriplets) /\ e \in 0 .. c
      /\ \A k \in 1 .. e : AsLine(emitted[k]) = file[base + k]
      /\ pc = "end" => e = c
      /\ pc = "read" => e < c /\ AsLine(val) = file[base + e + 1]
  BY <1>1, <1>2 DEF Listed
<1>4. DOMAIN StoreEmitted = 1 .. e /\ \A k \in 1 .. e : StoreEmitted[k] = file[base + k]
  <2>1. DOMAIN emitted = 1 .. e
    BY <1>2, <1>3
  <2> QED
    BY <1>3, <2>1 DEF StoreEmitted, EmittedLines
<1>5. ASSUME pc = "read" PROVE AsLine(val) \in Store!Missing
  <2>1. PICK t, at : t = AsLine(val) /\ at = base + e + 1
    OBVIOUS
  <2>2. at \in 1 .. Len(file) /\ file[at] = t /\ base < at /\ at <= base + c
    BY <1>3, <1>5, <2>1
  <2>3. t \in data.lines /\ Store!Matches(t, pattern)
    BY <1>3, <2>2
  <2>4. ASSUME NEW k \in 1 .. e PROVE StoreEmitted[k] # t
    <3>1. base + k \in 1 .. Len(file) /\ base + k < at
      BY <1>3, <2>1, <2>2
    <3> QED
      BY <1>3, <1>4, <2>2, <3>1
  <2> QED
    BY <1>4, <2>1, <2>3, <2>4 DEF Store!Missing
<1>6. ASSUME pc = "end", NEW t \in Store!Missing PROVE FALSE
  <2>1. /\ t \in data.lines /\ Store!Matches(t, pattern)
        /\ \A i \in DOMAIN StoreEmitted : StoreEmitted[i] # t
    BY <1>6 DEF Store!Missing
  <2>2. PICK i \in 1 .. Len(file) : file[i] = t
    BY <1>3, <2>1
  <2>3. base < i /\ i <= base + c
    BY <1>3, <2>1, <2>2
  <2>4. PICK k \in 1 .. e : base + k = i
    <3>1. i - base \in 1 .. e /\ base + (i - base) = i
      BY <1>3, <1>6, <2>3
    <3> QED
      BY <3>1
  <2> QED
    BY <1>4, <2>1, <2>2, <2>4
<1> QED
  BY <1>5, <1>6

(* The states a store has passed through: no step disturbs the order of    *)
(* the answers, or what was given.                                         *)
LEMMA StoreKept ==
  ASSUME SelectInv, SelectInv', pc \in {"has_next", "ready", "read"},
         UNCHANGED <<type, data, pattern, m_perm, emitted, triplet_id>>
  PROVE  /\ StoreStatus = "selecting" /\ StoreMember = "none" /\ StoreMember' = "none"
         /\ m_perm # "none" /\ AnswerOrder' = AnswerOrder
         /\ UNCHANGED <<data.lines, pattern, StoreEmitted>>
<1>1. m_perm # "none" /\ triplet_id = garbage
  BY DEF SelectInv
<1>2. AnswerOrder' = AnswerOrder
  BY DEF AnswerOrder, layout
<1>3. StoreEmitted = LinesIn(AnswerOrder, emitted) /\ StoreEmitted' = LinesIn(AnswerOrder', emitted')
  BY <1>1 DEF StoreEmitted, EmittedLines, AsLine, LinesIn, LineIn
<1> QED
  BY <1>1, <1>2, <1>3 DEF StoreStatus, StoreMember


(* ++ is the store's Emit: the client goes past a line still missing.      *)
LEMMA StoreEmitting ==
  ASSUME SelectInv, SelectInv', ListedInv, Increment
  PROVE  Store!Emit
<1>1. /\ pc = "read" /\ pc' = "has_next" /\ emitted' = Append(emitted, val)
      /\ UNCHANGED <<type, data, index, pattern, m_perm, val, triplet_id>>
  BY DEF Increment
<1>2. m_perm # "none" /\ triplet_id = garbage
  BY <1>1 DEF SelectInv
<1>3. AnswerOrder' = AnswerOrder
  BY <1>1 DEF AnswerOrder, layout
<1>4. emitted \in Seq(IdTriplets) /\ val \in IdTriplets
  BY <1>1, <1>2 DEF ListedInv, Listed
<1>5. /\ StoreEmitted = LinesIn(AnswerOrder, emitted)
      /\ StoreEmitted' = LinesIn(AnswerOrder', emitted')
      /\ AsLine(val) = LineIn(AnswerOrder, val)
  BY <1>1, <1>2 DEF StoreEmitted, EmittedLines, AsLine, LinesIn, LineIn
<1>6. StoreEmitted' = Append(StoreEmitted, AsLine(val))
  BY <1>1, <1>3, <1>4, <1>5, LinesAppended
<1>7. AsLine(val) \in Store!Missing
  BY <1>1, <1>2, StoreMisses
<1>8. /\ StoreStatus = "selecting" /\ StoreStatus' = "selecting"
      /\ StoreMember = "none" /\ StoreMember' = "none"
  BY <1>1, <1>2 DEF StoreStatus, StoreMember
<1>9. \E t \in Store!Missing : StoreEmitted' = Append(StoreEmitted, t)
  BY <1>6, <1>7
<1> QED
  BY <1>1, <1>8, <1>9 DEF Store!Emit

(* At the end of a selection nothing is missing.                           *)
EndInv == pc = "end" /\ m_perm # "none" => Store!Missing = {}

(* has_next is the store's Finish when it says no, and else a stutter; so  *)
(* is *.                                                                   *)
LEMMA StoreTurns ==
  ASSUME SelectInv, SelectInv', EndInv', HasNext \/ Dereference
  PROVE  [Store!Next]_(Store!vars)
<1>1. /\ pc \in {"has_next", "ready", "read"}
      /\ UNCHANGED <<type, data, index, pattern, m_perm, emitted, triplet_id>>
  BY DEF HasNext, Dereference
<1>2. /\ StoreStatus = "selecting" /\ StoreMember = "none" /\ StoreMember' = "none"
      /\ m_perm # "none" /\ UNCHANGED <<data.lines, pattern, StoreEmitted>>
  BY <1>1, StoreKept
<1>3. pc' \in {"has_next", "ready", "read", "end"}
  BY <1>1, <1>2 DEF SelectInv
<1>4. CASE pc' = "end"
  <2>1. StoreStatus' = "end"
    BY <1>4 DEF StoreStatus
  <2>2. Store!Missing' = {}
    BY <1>1, <1>2, <1>4 DEF EndInv
  <2>3. Store!Missing = {}
    <3>1. \A t : Store!Matches(t, pattern)' <=> Store!Matches(t, pattern)
      BY <1>1 DEF Store!Matches
    <3> QED
      BY <1>2, <2>2, <3>1 DEF Store!Missing
  <2>4. Store!Finish
    BY <1>2, <2>1, <2>3 DEF Store!Finish
  <2> QED
    BY <2>4 DEF Store!Next
<1>5. CASE pc' # "end"
  <2>1. StoreStatus' = "selecting"
    BY <1>3, <1>5 DEF StoreStatus
  <2> QED
    BY <1>2, <2>1 DEF Store!vars
<1> QED
  BY <1>4, <1>5

(* The index implements a triple store: its initial states are the store's *)
(* and each of its steps is one of the store's, or leaves it as it was, so *)
(* that a selection emits only matching lines, none twice, ends only when  *)
(* none is missing, and is_member is right. Of an index whose              *)
(* pef_sequences have several partitions each, and of the queries that     *)
(* AbsenceUnseen and PairAbsent leave (Unguarded is FALSE).                *)
THEOREM StoreSafety ==
  ASSUME Unguarded = FALSE
  PROVE  Spec => Store!Init /\ [][Store!Next]_(Store!vars)
<1>1. Init => Store!Init
  <2> SUFFICES ASSUME Init PROVE Store!Init
    OBVIOUS
  <2>1. /\ data \in Datasets /\ pattern = no_triplet /\ pc = "idle" /\ m_perm = "none"
    BY DEF Init
  <2>2. data.lines \in {d.lines : d \in Datasets}
    BY <2>1
  <2>3. StoreStatus = "idle" /\ StoreEmitted = <<>> /\ StoreMember = "none"
    BY <2>1 DEF StoreStatus, StoreEmitted, StoreMember
  <2>4. Store!no_triplet = no_triplet
    BY DEF Store!no_triplet, no_triplet, Store!Triplet, Triplet,
           Store!wildcard_symbol, wildcard_symbol
  <2> QED
    BY <2>1, <2>2, <2>3, <2>4 DEF Store!Init
<1>2. Built /\ MemberInv /\ SelectInv /\ ListedInv => EndInv
  BY StoreMisses DEF EndInv
<1>3. Built /\ SelectInv /\ ListedInv /\ SelectInv' /\ EndInv' /\ [Next]_vars
        => [Store!Next]_(Store!vars)
  <2> SUFFICES ASSUME Built, SelectInv, ListedInv, SelectInv', EndInv', [Next]_vars
               PROVE  [Store!Next]_(Store!vars)
    OBVIOUS
  <2>1. CASE UNCHANGED vars
    BY <2>1 DEF vars, Store!vars, StoreStatus, StoreEmitted, StoreMember,
                EmittedLines, AsLine, AnswerOrder, layout
  <2>2. CASE SelectAll
    <3>1. pc = "idle" /\ pc' = "has_next" /\ m_perm' # "none" /\ data' = data /\ emitted' = emitted
      BY <2>2 DEF SelectAll
    <3> QED
      BY <3>1, StoreSelects DEF Store!Next
  <2>3. ASSUME NEW q \in Patterns, Select(q) PROVE [Store!Next]_(Store!vars)
    <3>1. pc = "idle" /\ data' = data /\ emitted' = emitted /\ pc' \in {"undefined", "has_next"}
      BY <2>3 DEF Select
    <3>2. pc' = "has_next" /\ m_perm' # "none"
      BY <3>1 DEF SelectInv
    <3> QED
      BY <3>1, <3>2, StoreSelects DEF Store!Next
  <2>4. ASSUME NEW q \in Triplets, IsMember(q) PROVE [Store!Next]_(Store!vars)
    BY <2>4, StoreAnswers DEF Store!Next
  <2>5. CASE HasNext \/ Dereference
    BY <2>5, StoreTurns
  <2>6. CASE Increment
    BY <2>6, StoreEmitting DEF Store!Next
  <2> QED
    BY <2>1, <2>2, <2>3, <2>4, <2>5, <2>6 DEF Next
<1> QED
  BY <1>1, <1>2, <1>3, ListedAlways, PTL DEF Spec
=============================================================================
