------------------------- MODULE TrieBuilder_proofs -------------------------
(***************************************************************************)
(* The builder is correct for every set of inputs: it keeps its types,     *)
(* never pushes past a vector, and the trie it builds holds exactly the    *)
(* lines of the file. The inductive invariant says what the vectors would  *)
(* be if the pass were closed after the lines read so far.                 *)
(***************************************************************************)
EXTENDS TrieBuilder, Basics_proofs

Increasing(s) == \A a, b \in 1 .. Len(s) : a < b => s[a] < s[b]

(* The first pass: the counters count, the vectors, closed, are increasing *)
(* and describe the lines read, and no pair of ids read so far comes after *)
(* the last one.                                                           *)
ScanInv ==
  /\ third_nodes = <<>>
  /\ pointer_second = it
  /\ Len(second_nodes) = pointer_first
  /\ Len(second_pointers) = pointer_first
  /\ IsFiniteSet(PairsUpTo(input, it))
  /\ pointer_first = Cardinality(PairsUpTo(input, it))
  /\ it = 0 => prev = no_triplet
  /\ it > 0 => /\ prev = Read(input, it)
               /\ pointer_first > 0
               /\ second_nodes[pointer_first] = prev.second
  /\ Len(first_pointers) = IF it = 0 THEN 0 ELSE prev.first + 1
  /\ \A i \in 1 .. it :
       \/ Read(input, i).first < prev.first
       \/ Read(input, i).first = prev.first /\ Read(input, i).second <= prev.second
  /\ \A j \in 1 .. pointer_first : second_nodes[j] <= num_types(input.params, input.perm, 2)
  /\ Increasing(Append(first_pointers, pointer_first))
  /\ Increasing(Append(second_pointers, pointer_second))
  /\ Append(first_pointers, pointer_first)[1] = 0
  /\ Append(second_pointers, pointer_second)[1] = 0
  /\ Describes(Append(first_pointers, pointer_first), second_nodes,
               Append(second_pointers, pointer_second), input, it)

(* Two levels that describe a whole file, with a node for each of its      *)
(* pairs.                                                                  *)
Levels(fp, sn, sp, in) ==
  /\ Increasing(fp) /\ Increasing(sp)
  /\ fp[1] = 0 /\ fp[Len(fp)] = Len(sn)
  /\ sp[1] = 0 /\ sp[Len(sp)] = Len(in.lines)
  /\ Len(sn) = Cardinality(PairsUpTo(in, Len(in.lines)))
  /\ Describes(fp, sn, sp, in, Len(in.lines))

(* After the first pass.                                                   *)
LevelsInv == Levels(trie.first_pointers, trie.second_nodes, trie.second_pointers, input)

(* The second pass: the builders still hold the closed vectors, and the    *)
(* third level is mapped up to the lines read.                             *)
ThirdInv ==
  /\ WithinStats
  /\ Len(third_nodes) = it
  /\ \A i \in 1 .. it : third_nodes[i] = map(input.mapper, Read(input, i))

DoneInv ==
  /\ first_pointers = <<>> /\ second_nodes = <<>>
  /\ second_pointers = <<>> /\ third_nodes = <<>>
  /\ trie.perm = input.perm
  /\ Len(trie.third_nodes) = Len(input.lines)
  /\ \A i \in 1 .. Len(input.lines) :
       trie.third_nodes[i] = map(input.mapper, Read(input, i))

IInv ==
  /\ TypeOK
  /\ input \in Inputs
  /\ pc = "first_and_second" => ScanInv
  /\ pc # "first_and_second" => LevelsInv
  /\ pc = "third" => ThirdInv
  /\ pc = "done" => DoneInv
-----------------------------------------------------------------------------
(* What an input gives: a line read is a triplet of naturals, after the    *)
(* previous one in the order of the file.                                  *)
LEMMA InputFacts ==
  ASSUME NEW in \in Inputs
  PROVE  /\ Len(in.lines) \in Nat /\ Len(in.lines) > 0
         /\ in.perm \in permutation_type
         /\ \A i \in 1 .. Len(in.lines) :
              Read(in, i) \in [first : Nat, second : Nat, third : Nat]
         /\ \A i \in 1 .. Len(in.lines) - 1 :
              /\ Precedes(Read(in, i), Read(in, i + 1))
              /\ Read(in, i + 1).first <= Read(in, i).first + 1
         /\ Read(in, 1).first = 0
<1> DEFINE n == Len(in.lines)
<1>1. WellFormed(in)
  BY InputsAssumption
<1>2. in.lines \in Seq(Nat \X Nat \X Nat)
  BY <1>1 DEF WellFormed
<1>3. n \in Nat
  BY <1>2
<1>4. ASSUME NEW i \in 1 .. n
      PROVE  Read(in, i) \in [first : Nat, second : Nat, third : Nat]
  <2>1. in.lines[i] \in Nat \X Nat \X Nat
    BY <1>2, <1>4
  <2>2. \A c \in {1, 2, 3} : in.lines[i][c] \in Nat
    BY <2>1
  <2>3. in.perm \in {"spo", "pos", "osp", "ops", "pso"}
    BY <1>1 DEF WellFormed, permutation_type
  <2>4. \A c \in {1, 2, 3} : Columns[in.perm][c] \in {1, 2, 3}
    BY <2>3 DEF Columns, Subject, Predicate, Object
  <2> QED
    BY <2>2, <2>4 DEF Read, read_next, Triplet
<1> QED
  BY <1>1, <1>3, <1>4 DEF WellFormed

(* The counts of a .stats file are those of its data.                      *)
LEMMA WellFormedFacts ==
  ASSUME NEW in \in Inputs
  PROVE  LET n == Len(in.lines) IN
         /\ num_nodes(in.params, in.perm, 1) = Read(in, n).first + 1
         /\ num_nodes(in.params, in.perm, 2) = Cardinality(PairsUpTo(in, n))
         /\ num_nodes(in.params, in.perm, 3) = n
         /\ \A i \in 1 .. n :
              /\ Read(in, i).first < num_nodes(in.params, in.perm, 1)
              /\ Read(in, i).second <= num_types(in.params, in.perm, 2)
              /\ map(in.mapper, Read(in, i)) \in Nat
              /\ map(in.mapper, Read(in, i)) <= num_types(in.params, in.perm, 3)
              /\ unmap(in.mapper, Triplet(Read(in, i).first, Read(in, i).second,
                                          map(in.mapper, Read(in, i)))) = Read(in, i).third
<1>1. WellFormed(in)
  BY InputsAssumption
<1>2. \A i \in 1 .. Len(in.lines) :
        LET t == Read(in, i) IN
        /\ t.first < num_nodes(in.params, in.perm, 1)
        /\ t.second < num_types(in.params, in.perm, 2)
        /\ map(in.mapper, t) \in 0 .. num_types(in.params, in.perm, 3)
        /\ unmap(in.mapper, Triplet(t.first, t.second, map(in.mapper, t))) = t.third
  BY <1>1 DEF WellFormed
<1>3. /\ num_types(in.params, in.perm, 2) \in Nat
      /\ num_types(in.params, in.perm, 3) \in Nat
  BY <1>1 DEF WellFormed
<1>4. ASSUME NEW i \in 1 .. Len(in.lines)
      PROVE  /\ Read(in, i).second <= num_types(in.params, in.perm, 2)
             /\ map(in.mapper, Read(in, i)) \in Nat
             /\ map(in.mapper, Read(in, i)) <= num_types(in.params, in.perm, 3)
  BY <1>2, <1>3, <1>4, InputFacts
<1>5. /\ num_nodes(in.params, in.perm, 1) = Read(in, Len(in.lines)).first + 1
      /\ num_nodes(in.params, in.perm, 2) = Cardinality(PairsUpTo(in, Len(in.lines)))
      /\ num_nodes(in.params, in.perm, 3) = Len(in.lines)
  BY <1>1 DEF WellFormed
<1> QED
  BY <1>2, <1>4, <1>5

(* A file has finitely many distinct pairs.                                *)
LEMMA PairsFinite ==
  ASSUME NEW in, NEW n \in Nat
  PROVE  IsFiniteSet(PairsUpTo(in, n))
<1>1. IsFiniteSet(1 .. n)
  BY FS_Interval
<1>2. \E f : f \in Surjection(1 .. n, PairsUpTo(in, n))
  <2> WITNESS [i \in 1 .. n |-> <<Read(in, i).first, Read(in, i).second>>]
  <2> QED
    BY DEF Surjection, PairsUpTo
<1> QED
  BY <1>1, <1>2, FS_Surjection

(* The counts that size the vectors are naturals.                          *)
LEMMA SizesAreNatural ==
  ASSUME NEW in \in Inputs
  PROVE  \A level \in 1 .. 3 : num_nodes(in.params, in.perm, level) \in Nat
<1> DEFINE n == Len(in.lines)
<1>1. n \in Nat /\ n \in 1 .. n /\ Read(in, n).first \in Nat
  BY InputFacts
<1>2. IsFiniteSet(PairsUpTo(in, n))
  BY <1>1, PairsFinite
<1>3. Cardinality(PairsUpTo(in, n)) \in Nat
  BY <1>2, FS_CardinalityType
<1>4. /\ num_nodes(in.params, in.perm, 1) = Read(in, n).first + 1
      /\ num_nodes(in.params, in.perm, 2) = Cardinality(PairsUpTo(in, n))
      /\ num_nodes(in.params, in.perm, 3) = n
  BY WellFormedFacts
<1>5. \A level \in 1 .. 3 : level = 1 \/ level = 2 \/ level = 3
  OBVIOUS
<1> QED
  BY <1>1, <1>3, <1>4, <1>5
-----------------------------------------------------------------------------
(* A vector of pointers, closed by c, is pushed c and closed by d: what    *)
(* lay below c keeps its node, and c lies under the new one.               *)
LEMMA PushAndClose ==
  ASSUME NEW s \in Seq(Nat), NEW c \in Nat, NEW d \in Nat, c < d,
         Increasing(Append(s, c))
  PROVE  LET before == Append(s, c)
             after == Append(Append(s, c), d)
         IN  /\ Increasing(after)
             /\ \A k \in Nat : \A j \in 0 .. Len(s) - 1 :
                  LiesUnder(k, j, before) => LiesUnder(k, j, after)
             /\ LiesUnder(c, Len(s), after)
  BY SMTT(30) DEF Increasing, LiesUnder

(* A vector of pointers closed by c is closed by c + 1 instead: every      *)
(* position keeps its node, and c lies under the last one.                 *)
LEMMA MoveClose ==
  ASSUME NEW s \in Seq(Nat), NEW c \in Nat, Increasing(Append(s, c))
  PROVE  LET before == Append(s, c)
             after == Append(s, c + 1)
         IN  /\ Increasing(after)
             /\ \A k \in Nat : \A j \in 0 .. Len(s) - 1 :
                  LiesUnder(k, j, before) => LiesUnder(k, j, after)
             /\ Len(s) > 0 => LiesUnder(c, Len(s) - 1, after)
  BY DEF Increasing, LiesUnder

(* A position lies under one node at most.                                 *)
LEMMA OneNode ==
  ASSUME NEW p \in Seq(Nat), Increasing(p), NEW k \in Int,
         NEW j \in 0 .. Len(p) - 2, NEW h \in 0 .. Len(p) - 2,
         LiesUnder(k, j, p), LiesUnder(k, h, p)
  PROVE  j = h
<1> PICK n \in Nat : n = Len(p)
  OBVIOUS
<1>0. \A x \in 1 .. n : p[x] \in Nat
  OBVIOUS
<1>1. ASSUME NEW a \in 0 .. n - 2, NEW b \in 0 .. n - 2, a < b,
             LiesUnder(k, a, p), LiesUnder(k, b, p)
      PROVE  FALSE
  <2> PICK x, y : x = a + 2 /\ y = b + 1
    OBVIOUS
  <2>0. x \in 1 .. n /\ y \in 1 .. n /\ x <= y
    BY <1>1
  <2>1. p[x] \in Nat /\ p[y] \in Nat
    BY <1>0, <2>0
  <2>2. p[x] <= p[y]
    <3>1. CASE x = y
      BY <2>1, <3>1
    <3>2. CASE x < y
      BY <2>0, <2>1, <3>2 DEF Increasing
    <3> QED
      BY <2>0, <3>1, <3>2
  <2>3. p[y] <= k /\ k < p[x]
    BY <1>1 DEF LiesUnder
  <2> QED
    BY <2>1, <2>2, <2>3
<1> QED
  BY <1>1
-----------------------------------------------------------------------------
(* The invariant holds when a build begins.                                *)
LEMMA InitIInv == Init => IInv
<1> SUFFICES ASSUME Init PROVE IInv
  OBVIOUS
<1>1. Len(input.lines) \in Nat
  BY InputFacts DEF Init
<1>2. TypeOK
  BY <1>1 DEF Init, TypeOK, empty_trie, no_triplet, Triplet, wildcard_symbol
<1>3. PairsUpTo(input, 0) = {}
  BY DEF PairsUpTo
<1>4. ScanInv
  BY <1>3, FS_EmptySet DEF Init, ScanInv, Increasing, Describes
<1> QED
  BY <1>2, <1>4 DEF Init, IInv

(* What holds of the line read next: it is the triplet after prev.         *)
LEMMA NextLine ==
  ASSUME IInv, pc = "first_and_second", it < Len(input.lines)
  PROVE  LET curr == Read(input, it + 1) IN
         /\ it + 1 \in 1 .. Len(input.lines)
         /\ curr \in [first : Nat, second : Nat, third : Nat]
         /\ it = 0 => curr.first = 0 /\ NewFirst(prev, curr) /\ NewPair(prev, curr)
         /\ it > 0 => /\ prev \in [first : Nat, second : Nat, third : Nat]
                      /\ Precedes(prev, curr)
                      /\ curr.first <= prev.first + 1
<1> DEFINE n == Len(input.lines)
<1> DEFINE curr == Read(input, it + 1)
<1>1. /\ input \in Inputs /\ ScanInv /\ it \in 0 .. n
  BY DEF IInv, TypeOK
<1>2. /\ n \in Nat
      /\ \A i \in 1 .. n : Read(input, i) \in [first : Nat, second : Nat, third : Nat]
      /\ \A i \in 1 .. n - 1 : /\ Precedes(Read(input, i), Read(input, i + 1))
                              /\ Read(input, i + 1).first <= Read(input, i).first + 1
      /\ Read(input, 1).first = 0
  BY <1>1, InputFacts
<1>3. it + 1 \in 1 .. n
  BY <1>1, <1>2
<1>4. curr \in [first : Nat, second : Nat, third : Nat]
  BY <1>2, <1>3
<1>5. ASSUME it = 0
      PROVE  curr.first = 0 /\ NewFirst(prev, curr) /\ NewPair(prev, curr)
  <2>1. prev.first = -1
    BY <1>1, <1>5 DEF ScanInv, no_triplet, Triplet, wildcard_symbol
  <2>2. curr.first = 0
    BY <1>2, <1>5
  <2> QED
    BY <2>1, <2>2 DEF NewFirst, NewPair
<1>6. ASSUME it > 0
      PROVE  /\ prev \in [first : Nat, second : Nat, third : Nat]
             /\ Precedes(prev, curr)
             /\ curr.first <= prev.first + 1
  <2>1. prev = Read(input, it)
    BY <1>1, <1>6 DEF ScanInv
  <2>2. it \in 1 .. n - 1
    BY <1>1, <1>2, <1>3, <1>6
  <2> QED
    BY <1>2, <2>1, <2>2
<1> QED
  BY <1>3, <1>4, <1>5, <1>6

(* The next line opens a node of the second level just when its pair of    *)
(* ids is a new one.                                                       *)
LEMMA PairStep ==
  ASSUME IInv, pc = "first_and_second", it < Len(input.lines)
  PROVE  LET curr == Read(input, it + 1)
             known == PairsUpTo(input, it)
             pair == <<curr.first, curr.second>>
         IN  /\ PairsUpTo(input, it + 1) = known \cup {pair}
             /\ NewPair(prev, curr) <=> pair \notin known
             /\ \A i \in 1 .. it + 1 :
                  \/ Read(input, i).first < curr.first
                  \/ Read(input, i).first = curr.first /\ Read(input, i).second <= curr.second
<1> DEFINE n == Len(input.lines)
<1> DEFINE curr == Read(input, it + 1)
<1> DEFINE known == PairsUpTo(input, it)
<1> DEFINE pair == <<curr.first, curr.second>>
<1>1. /\ input \in Inputs /\ ScanInv /\ it \in Nat
      /\ it + 1 \in 1 .. n
      /\ curr \in [first : Nat, second : Nat, third : Nat]
      /\ it = 0 => NewPair(prev, curr)
      /\ it > 0 => /\ prev \in [first : Nat, second : Nat, third : Nat]
                   /\ Precedes(prev, curr)
  BY NextLine DEF IInv, TypeOK
<1>2. \A i \in 1 .. it + 1 : Read(input, i) \in [first : Nat, second : Nat, third : Nat]
  BY <1>1, InputFacts
<1>3. PairsUpTo(input, it + 1) = known \cup {pair}
  <2>1. 1 .. it + 1 = (1 .. it) \cup {it + 1}
    BY <1>1
  <2> QED
    BY <2>1 DEF PairsUpTo
<1>4. \A i \in 1 .. it :
        \/ Read(input, i).first < prev.first
        \/ Read(input, i).first = prev.first /\ Read(input, i).second <= prev.second
  BY <1>1 DEF ScanInv
<1>5. ASSUME NEW i \in 1 .. it
      PROVE  /\ \/ Read(input, i).first < curr.first
                \/ Read(input, i).first = curr.first /\ Read(input, i).second <= curr.second
             /\ NewPair(prev, curr) => <<Read(input, i).first, Read(input, i).second>> # pair
  <2>1. it > 0 /\ i \in 1 .. it + 1
    BY <1>1
  <2>2. Read(input, i) \in [first : Nat, second : Nat, third : Nat]
    BY <1>2, <2>1
  <2> QED
    BY <1>1, <1>4, <2>1, <2>2 DEF Precedes, NewPair
<1>6. NewPair(prev, curr) => pair \notin known
  BY <1>5 DEF PairsUpTo
<1>7. ~ NewPair(prev, curr) => pair \in known
  <2> SUFFICES ASSUME ~ NewPair(prev, curr) PROVE pair \in known
    OBVIOUS
  <2>1. it \in 1 .. it /\ prev = Read(input, it)
    BY <1>1 DEF ScanInv
  <2>2. pair = <<Read(input, it).first, Read(input, it).second>>
    BY <1>1, <2>1 DEF NewPair
  <2> QED
    BY <2>1, <2>2 DEF PairsUpTo
<1>8. \A i \in 1 .. it + 1 :
        \/ Read(input, i).first < curr.first
        \/ Read(input, i).first = curr.first /\ Read(input, i).second <= curr.second
  <2> TAKE i \in 1 .. it + 1
  <2>1. CASE i = it + 1
    BY <1>1, <2>1
  <2>2. CASE i \in 1 .. it
    BY <1>5, <2>2
  <2> QED
    BY <1>1, <2>1, <2>2
<1> QED
  BY <1>3, <1>6, <1>7, <1>8

(* While the first pass runs, every vector has room for what it holds.     *)
LEMMA ScanWithinStats ==
  ASSUME IInv, pc = "first_and_second"
  PROVE  WithinStats
<1> DEFINE n == Len(input.lines)
<1> DEFINE nodes == num_nodes(input.params, input.perm, 2)
<1>1. /\ input \in Inputs /\ ScanInv /\ it \in 0 .. n /\ n \in Nat
      /\ pointer_first \in Nat
      /\ first_pointers \in Seq(Nat) /\ second_nodes \in Seq(Nat)
      /\ second_pointers \in Seq(Nat)
  BY InputFacts DEF IInv, TypeOK
<1>2. /\ num_nodes(input.params, input.perm, 3) = n
      /\ nodes = Cardinality(PairsUpTo(input, n))
  BY <1>1, WellFormedFacts
<1>3. nodes \in Nat /\ pointer_first <= nodes
  <2>1. PairsUpTo(input, it) \subseteq PairsUpTo(input, n)
    BY <1>1 DEF PairsUpTo
  <2>2. IsFiniteSet(PairsUpTo(input, n))
    BY <1>1, PairsFinite
  <2>3. Cardinality(PairsUpTo(input, n)) \in Nat
    BY <2>2, FS_CardinalityType
  <2>4. Cardinality(PairsUpTo(input, it)) <= Cardinality(PairsUpTo(input, n))
    BY <2>1, <2>2, FS_Subset, Zenon
  <2> QED
    BY <1>1, <1>2, <2>3, <2>4 DEF ScanInv
<1>4. /\ num_nodes(input.params, input.perm, 1) \in Nat
      /\ Len(first_pointers) <= num_nodes(input.params, input.perm, 1) + 1
  <2>1. num_nodes(input.params, input.perm, 1) \in Nat
    <3>1. n \in 1 .. n
      BY <1>1, InputFacts
    <3>2. Read(input, n).first \in Nat
      BY <1>1, <3>1, InputFacts
    <3>3. num_nodes(input.params, input.perm, 1) = Read(input, n).first + 1
      BY <1>1, WellFormedFacts
    <3> QED
      BY <3>2, <3>3
  <2>2. CASE it = 0
    BY <1>1, <2>1, <2>2 DEF ScanInv
  <2>3. CASE it > 0
    <3>1. it \in 1 .. n /\ prev = Read(input, it)
      BY <1>1, <2>3 DEF ScanInv
    <3>2. /\ Read(input, it).first \in Nat
          /\ Read(input, it).first < num_nodes(input.params, input.perm, 1)
      BY <1>1, <3>1, WellFormedFacts, InputFacts
    <3> QED
      BY <1>1, <2>1, <2>3, <3>1, <3>2 DEF ScanInv
  <2> QED
    BY <1>1, <2>1, <2>2, <2>3
<1>5. \A i \in 1 .. Len(first_pointers) : first_pointers[i] <= nodes
  <2> TAKE i \in 1 .. Len(first_pointers)
  <2> DEFINE closed == Append(first_pointers, pointer_first)
  <2>1. /\ i \in 1 .. Len(closed) /\ Len(closed) \in 1 .. Len(closed)
        /\ i < Len(closed)
        /\ closed[i] = first_pointers[i] /\ closed[Len(closed)] = pointer_first
    BY <1>1
  <2>2. first_pointers[i] < pointer_first
    BY <1>1, <2>1 DEF ScanInv, Increasing
  <2> QED
    BY <1>1, <1>3, <2>2
<1>6. \A i \in 1 .. Len(second_pointers) : second_pointers[i] <= n
  <2> TAKE i \in 1 .. Len(second_pointers)
  <2> DEFINE closed == Append(second_pointers, pointer_second)
  <2>1. /\ i \in 1 .. Len(closed) /\ Len(closed) \in 1 .. Len(closed)
        /\ i < Len(closed)
        /\ closed[i] = second_pointers[i] /\ closed[Len(closed)] = pointer_second
    BY <1>1
  <2>2. second_pointers[i] < pointer_second
    BY <1>1, <2>1 DEF ScanInv, Increasing
  <2> QED
    BY <1>1, <2>2 DEF ScanInv
<1>7. Fits(first_pointers, "first_pointers")
  <2>1. /\ Size(input, "first_pointers") = num_nodes(input.params, input.perm, 1) + 1
        /\ MaxValue(input, "first_pointers") = nodes
    BY DEF Size, MaxValue
  <2>2. DOMAIN first_pointers = 1 .. Len(first_pointers)
    BY <1>1
  <2> QED
    BY <1>4, <1>5, <2>1, <2>2 DEF Fits
<1>8. Fits(second_pointers, "second_pointers")
  BY SMTT(30), <1>1, <1>2, <1>3, <1>6 DEF Fits, Size, MaxValue, ScanInv
<1>9. Fits(second_nodes, "second_nodes")
  BY <1>1, <1>3 DEF Fits, Size, MaxValue, ScanInv
<1>10. Fits(third_nodes, "third_nodes")
  BY <1>1, <1>2 DEF Fits, Size, MaxValue, ScanInv
<1> QED
  BY <1>7, <1>8, <1>9, <1>10 DEF WithinStats

(* A line of the first pass keeps the invariant.                           *)
LEMMA ScanStep ==
  ASSUME IInv, ReadTriplet
  PROVE  IInv'
<1> DEFINE n == Len(input.lines)
<1> DEFINE curr == Read(input, it + 1)
<1> DEFINE FP == Append(first_pointers, pointer_first)
<1> DEFINE FQ == Append(first_pointers', pointer_first')
<1> DEFINE SP == Append(second_pointers, pointer_second)
<1> DEFINE SQ == Append(second_pointers', pointer_second')
<1>1. /\ input \in Inputs /\ input' = input
      /\ pc = "first_and_second" /\ pc' = pc
      /\ it \in Nat /\ it < n /\ n \in Nat /\ it' = it + 1 /\ it + 1 \in 1 .. n
      /\ ScanInv /\ TypeOK
      /\ pointer_first \in Nat /\ pointer_second \in Nat
      /\ first_pointers \in Seq(Nat) /\ second_nodes \in Seq(Nat)
      /\ second_pointers \in Seq(Nat)
      /\ trie' = trie /\ third_nodes' = third_nodes
      /\ pointer_second' = pointer_second + 1 /\ prev' = curr
  BY InputFacts DEF IInv, TypeOK, ReadTriplet
<1>2. /\ curr \in [first : Nat, second : Nat, third : Nat]
      /\ it = 0 => curr.first = 0 /\ NewFirst(prev, curr) /\ NewPair(prev, curr)
      /\ it > 0 => /\ prev \in [first : Nat, second : Nat, third : Nat]
                   /\ Precedes(prev, curr)
                   /\ curr.first <= prev.first + 1
  BY <1>1, NextLine
<1>3. /\ PairsUpTo(input, it + 1) = PairsUpTo(input, it) \cup {<<curr.first, curr.second>>}
      /\ NewPair(prev, curr) <=> <<curr.first, curr.second>> \notin PairsUpTo(input, it)
      /\ \A i \in 1 .. it + 1 :
           \/ Read(input, i).first < curr.first
           \/ Read(input, i).first = curr.first /\ Read(input, i).second <= curr.second
  BY <1>1, PairStep
<1>4. /\ Len(first_pointers) = IF it = 0 THEN 0 ELSE prev.first + 1
      /\ Len(second_nodes) = pointer_first
      /\ Len(second_pointers) = pointer_first
      /\ pointer_second = it
      /\ it > 0 => pointer_first > 0 /\ second_nodes[pointer_first] = prev.second
      /\ Increasing(FP) /\ Increasing(SP)
  BY <1>1 DEF ScanInv
<1>5. /\ first_pointers' = IF NewFirst(prev, curr) THEN Append(first_pointers, pointer_first)
                           ELSE first_pointers
      /\ second_pointers' = IF NewPair(prev, curr) THEN Append(second_pointers, pointer_second)
                            ELSE second_pointers
      /\ second_nodes' = IF NewPair(prev, curr) THEN Append(second_nodes, curr.second)
                         ELSE second_nodes
      /\ pointer_first' = IF NewPair(prev, curr) THEN pointer_first + 1 ELSE pointer_first
  BY DEF ReadTriplet, PushIf
<1>6. /\ pointer_first' \in Nat /\ pointer_second' \in Nat
      /\ first_pointers' \in Seq(Nat)
      /\ second_pointers' \in Seq(Nat) /\ Len(second_pointers') = pointer_first'
      /\ second_nodes' \in Seq(Nat) /\ Len(second_nodes') = pointer_first'
      /\ \A j \in 1 .. pointer_first : second_nodes'[j] = second_nodes[j]
  BY <1>1, <1>2, <1>4, <1>5
<1>7. /\ pointer_first' > 0
      /\ pointer_first' >= pointer_first
      /\ second_nodes'[pointer_first'] = curr.second
  <2>1. CASE NewPair(prev, curr)
    BY <1>1, <1>2, <1>4, <1>5, <2>1
  <2>2. CASE ~ NewPair(prev, curr)
    BY <1>1, <1>2, <1>4, <1>5, <2>2 DEF NewPair
  <2> QED
    BY <2>1, <2>2
\* The first level: old nodes keep their parent, a new one lies under curr.first.
<1>8. /\ Increasing(FQ)
      /\ Len(first_pointers') = curr.first + 1
      /\ \A j \in Nat : \A f \in 0 .. Len(first_pointers) - 1 :
           LiesUnder(j, f, FP) => LiesUnder(j, f, FQ)
      /\ NewPair(prev, curr) => LiesUnder(pointer_first, curr.first, FQ)
  <2>1. CASE NewFirst(prev, curr)
    <3>1. NewPair(prev, curr)
      BY <2>1 DEF NewFirst, NewPair
    <3>2. FQ = Append(Append(first_pointers, pointer_first), pointer_first + 1)
      BY <1>5, <2>1, <3>1
    <3>3. Len(first_pointers) = curr.first
      BY <1>1, <1>2, <1>4, <2>1 DEF NewFirst, Precedes
    <3>4. Len(first_pointers') = curr.first + 1
      BY <1>1, <1>5, <2>1, <3>3
    <3>5. /\ pointer_first \in Nat /\ pointer_first + 1 \in Nat
          /\ pointer_first < pointer_first + 1
          /\ first_pointers \in Seq(Nat) /\ Increasing(Append(first_pointers, pointer_first))
      BY <1>1, <1>4
    <3>6. FP = Append(first_pointers, pointer_first)
      OBVIOUS
    <3> QED
      BY <3>2, <3>3, <3>4, <3>5, <3>6, PushAndClose
  <2>2. CASE ~ NewFirst(prev, curr) /\ NewPair(prev, curr)
    <3>1. FQ = Append(first_pointers, pointer_first + 1)
      BY <1>5, <2>2
    <3>2. /\ Len(first_pointers) = curr.first + 1 /\ Len(first_pointers) > 0
          /\ first_pointers' = first_pointers
      BY <1>1, <1>2, <1>4, <1>5, <2>2 DEF NewFirst
    <3>3. Len(first_pointers) - 1 = curr.first
      BY <1>2, <3>2
    <3> QED
      BY <1>1, <1>4, <3>1, <3>2, <3>3, MoveClose
  <2>3. CASE ~ NewPair(prev, curr)
    <3>1. ~ NewFirst(prev, curr)
      BY <2>3 DEF NewFirst, NewPair
    <3>2. FQ = FP /\ first_pointers' = first_pointers
      BY <1>5, <2>3, <3>1
    <3>3. Len(first_pointers) = curr.first + 1
      BY <1>1, <1>2, <1>4, <3>1 DEF NewFirst
    <3> QED
      BY <1>4, <2>3, <3>2, <3>3
  <2> QED
    BY <2>1, <2>2, <2>3
\* The second level: old lines keep their node, the new one lies under the last.
<1>9. /\ Increasing(SQ)
      /\ \A k \in Nat : \A j \in 0 .. pointer_first - 1 :
           LiesUnder(k, j, SP) => LiesUnder(k, j, SQ)
      /\ LiesUnder(it, pointer_first' - 1, SQ)
  <2>1. CASE NewPair(prev, curr)
    <3>1. SQ = Append(Append(second_pointers, it), it + 1)
      BY <1>1, <1>4, <1>5, <2>1
    <3>2. pointer_first' - 1 = Len(second_pointers)
      BY <1>1, <1>4, <1>5, <2>1
    <3> QED
      <4>1. /\ it \in Nat /\ it + 1 \in Nat /\ it < it + 1
            /\ second_pointers \in Seq(Nat) /\ Increasing(Append(second_pointers, it))
        BY <1>1, <1>4
      <4>2. SP = Append(second_pointers, it) /\ Len(second_pointers) = pointer_first
        BY <1>4
      <4> QED
        BY <3>1, <3>2, <4>1, <4>2, PushAndClose
  <2>2. CASE ~ NewPair(prev, curr)
    <3>1. SQ = Append(second_pointers, it + 1)
      BY <1>1, <1>4, <1>5, <2>2
    <3>2. pointer_first' - 1 = Len(second_pointers) - 1 /\ Len(second_pointers) > 0
      BY <1>1, <1>2, <1>4, <1>5, <2>2
    <3> QED
      BY <1>1, <1>4, <3>1, <3>2, MoveClose
  <2> QED
    BY <2>1, <2>2
<1>10. /\ FQ \in Seq(Nat) /\ Len(FQ) = curr.first + 2
       /\ SQ \in Seq(Nat) /\ Len(SQ) = pointer_first' + 1
  <2>1. FQ \in Seq(Nat) /\ Len(FQ) = Len(first_pointers') + 1
    BY <1>6
  <2>2. SQ \in Seq(Nat) /\ Len(SQ) = Len(second_pointers') + 1
    <3>1. pointer_second' \in Nat /\ second_pointers' \in Seq(Nat)
      BY <1>6
    <3> QED
      BY <3>1
  <2>3. curr.first \in Nat
    BY <1>2
  <2> QED
    BY <1>6, <1>8, <2>1, <2>2, <2>3
\* The lengths alone, for the steps that are only about positions.
<1>P. PICK pf, pq : pf = pointer_first /\ pq = pointer_first'
  OBVIOUS
<1>L. /\ pf \in Nat /\ pq \in Nat /\ pq > 0 /\ pq >= pf /\ it \in Nat
      /\ Len(second_nodes) = pf /\ Len(second_nodes') = pq
      /\ Len(SP) = pf + 1 /\ Len(SQ) = pq + 1
  BY <1>1, <1>4, <1>6, <1>7, <1>10, <1>P
<1>S. SP \in Seq(Nat) /\ SQ \in Seq(Nat)
  BY <1>1, <1>6
<1> HIDE DEF SP, SQ, FP, FQ
\* The node of every line, the old ones and the new one.
<1>11. ASSUME NEW i \in 1 .. it + 1
       PROVE  \E j \in 0 .. pq - 1 :
                /\ LiesUnder(i - 1, j, SQ)
                /\ second_nodes'[j + 1] = Read(input, i).second
                /\ LiesUnder(j, Read(input, i).first, FQ)
  <2>1. CASE i \in 1 .. it
    <3>1. PICK j \in 0 .. Len(second_nodes) - 1 :
                /\ LiesUnder(i - 1, j, SP)
                /\ second_nodes[j + 1] = Read(input, i).second
                /\ LiesUnder(j, Read(input, i).first, FP)
      BY <1>P, <1>1, <2>1 DEF ScanInv, Describes, SP, FP
    <3>2. /\ j \in 0 .. pf - 1 /\ j \in 0 .. pq - 1
          /\ j \in Nat /\ i - 1 \in Nat /\ j + 1 \in 1 .. pf
      BY <1>L, <2>1
    <3>3. LiesUnder(i - 1, j, SQ)
      BY <1>P, <1>9, <3>1, <3>2
    <3>4. second_nodes'[j + 1] = Read(input, i).second
      BY <1>P, <1>6, <3>1, <3>2
    <3>5. Read(input, i).first \in 0 .. Len(first_pointers) - 1
      <4>1. i \in 1 .. n /\ it > 0
        BY <1>P, <1>1, <2>1
      <4>2. Read(input, i).first \in Nat
        BY <1>P, <1>1, <4>1, InputFacts
      <4>3. Read(input, i).first <= prev.first
        <5>1. \/ Read(input, i).first < prev.first
              \/ Read(input, i).first = prev.first
          BY <1>P, <1>1, <2>1 DEF ScanInv
        <5> QED
          BY <1>P, <1>2, <4>1, <4>2, <5>1
      <4> QED
        BY <1>P, <1>2, <1>4, <4>1, <4>2, <4>3
    <3>6. LiesUnder(j, Read(input, i).first, FQ)
      BY <1>P, <1>8, <3>1, <3>2, <3>5
    <3> QED
      BY <1>P, <3>2, <3>3, <3>4, <3>6
  <2>2. CASE i = it + 1
    <3> DEFINE j == pq - 1
    <3>1. j \in 0 .. pq - 1 /\ i - 1 = it /\ j + 1 = pq
      BY <1>L, <2>2
    <3>2. LiesUnder(i - 1, j, SQ)
      BY <1>P, <1>9, <3>1
    <3>3. second_nodes'[j + 1] = Read(input, i).second
      BY <1>P, <1>7, <2>2, <3>1
    <3>4. LiesUnder(j, curr.first, FQ)
      <4>1. CASE NewPair(prev, curr)
        <5>1. j = pf
          BY <1>P, <1>1, <1>5, <4>1
        <5> QED
          BY <1>P, <1>8, <4>1, <5>1
      <4>2. CASE ~ NewPair(prev, curr)
        <5>1. /\ it > 0 /\ curr.first = prev.first /\ curr.second = prev.second
              /\ prev = Read(input, it) /\ it \in 1 .. it
              /\ j = pf - 1 /\ FQ = FP
          BY <1>P, <1>1, <1>2, <1>4, <1>5, <4>2 DEF FP, FQ, NewPair, NewFirst, ScanInv
        <5>2. PICK h \in 0 .. Len(second_nodes) - 1 :
                /\ LiesUnder(it - 1, h, SP)
                /\ LiesUnder(h, Read(input, it).first, FP)
          BY <1>P, <1>1, <5>1 DEF ScanInv, Describes, SP, FP
        <5>3. h = j
          <6>1. /\ h \in 0 .. Len(SP) - 2 /\ j \in 0 .. Len(SP) - 2
                /\ j + 1 \in 1 .. Len(SP) /\ j + 2 \in 1 .. Len(SP) /\ it - 1 \in Int
            <7>1. j = pf - 1
              BY <1>P, <5>1
            <7> QED
              BY <1>L, <7>1
          <6>2. SP[j + 2] = it
            BY <1>P, <1>1, <1>4, <5>1 DEF SP
          <6>3. SP[j + 1] < it /\ SP[j + 1] \in Nat
            <7>1. SP[j + 1] < SP[j + 2]
              <8>1. Increasing(SP) /\ j + 1 < j + 2
                BY <1>4, <6>1
              <8> QED
                BY <6>1, <8>1 DEF Increasing
            <7>2. SP[j + 1] \in Nat
              <8> HIDE DEF j
              <8> QED
                BY <1>S, <6>1
            <7> QED
              BY <6>2, <7>1, <7>2
          <6>4. LiesUnder(it - 1, j, SP)
            BY <1>L, <6>2, <6>3 DEF LiesUnder
          <6>5. LiesUnder(it - 1, h, SP) /\ Increasing(SP)
            BY <1>P, <1>4, <5>2
          <6> QED
            BY <1>P, <1>S, <6>1, <6>4, <6>5, OneNode
        <5> QED
          BY <1>P, <5>1, <5>2, <5>3
      <4> QED
        BY <1>P, <4>1, <4>2
    <3> QED
      BY <1>P, <2>2, <3>1, <3>2, <3>3, <3>4
  <2> QED
    BY <1>P, <1>1, <2>1, <2>2
<1>12. Describes(FQ, second_nodes', SQ, input, it + 1)
  <2>1. ASSUME NEW i \in 1 .. it + 1
        PROVE  \E j \in 0 .. Len(second_nodes') - 1 :
                 /\ LiesUnder(i - 1, j, SQ)
                 /\ second_nodes'[j + 1] = Read(input, i).second
                 /\ LiesUnder(j, Read(input, i).first, FQ)
                 /\ \A h \in 0 .. Len(second_nodes') - 1 : LiesUnder(i - 1, h, SQ) => h = j
    <3>1. PICK j \in 0 .. pq - 1 :
                 /\ LiesUnder(i - 1, j, SQ)
                 /\ second_nodes'[j + 1] = Read(input, i).second
                 /\ LiesUnder(j, Read(input, i).first, FQ)
      BY <1>P, <1>11
    <3>2. ASSUME NEW h \in 0 .. pq - 1, LiesUnder(i - 1, h, SQ)
          PROVE  h = j
      <4>1. /\ h \in 0 .. Len(SQ) - 2 /\ j \in 0 .. Len(SQ) - 2 /\ i - 1 \in Int
        BY <1>L
      <4> QED
        BY <1>P, <1>S, <1>9, <3>1, <3>2, <4>1, OneNode
    <3> QED
      BY <1>P, <1>6, <3>1, <3>2
  <2>2. Len(SQ) = Len(second_nodes') + 1
    BY <1>P, <1>6, <1>10
  <2>3. Len(FQ) = (IF it + 1 = 0 THEN 0 ELSE Read(input, it + 1).first + 1) + 1
    BY <1>P, <1>1, <1>2, <1>10
  <2> QED
    BY <1>P, <2>1, <2>2, <2>3 DEF Describes
<1>13. ScanInv'
  <2>1. /\ IsFiniteSet(PairsUpTo(input, it + 1))
        /\ pointer_first' = Cardinality(PairsUpTo(input, it + 1))
    <3>1. /\ IsFiniteSet(PairsUpTo(input, it))
          /\ pointer_first = Cardinality(PairsUpTo(input, it))
      BY <1>1 DEF ScanInv
    <3>2. CASE NewPair(prev, curr)
      BY <1>3, <1>5, <3>1, <3>2, FS_AddElement
    <3>3. CASE ~ NewPair(prev, curr)
      <4>1. PairsUpTo(input, it + 1) = PairsUpTo(input, it)
        BY <1>3, <3>3
      <4> QED
        BY <1>5, <3>1, <3>3, <4>1
    <3> QED
      BY <3>2, <3>3
  <2>2. \A j \in 1 .. pointer_first' : second_nodes'[j] <= num_types(input.params, input.perm, 2)
    <3>1. curr.second <= num_types(input.params, input.perm, 2)
      BY <1>1, WellFormedFacts
    <3>2. \A j \in 1 .. pointer_first : second_nodes[j] <= num_types(input.params, input.perm, 2)
      BY <1>1 DEF ScanInv
    <3>3. \A j \in 1 .. pointer_first' : j \in 1 .. pointer_first \/ j = pointer_first'
      BY <1>1, <1>5
    <3> QED
      BY <1>6, <1>7, <3>1, <3>2, <3>3
  <2>3. third_nodes' = <<>> /\ it + 1 # 0 /\ it + 1 > 0
    BY <1>1 DEF ScanInv
  <2>4. Len(first_pointers') = IF it + 1 = 0 THEN 0 ELSE curr.first + 1
    BY <1>8, <2>3
  <2>5. FQ[1] = 0
    <3>1. FP[1] = 0
      BY <1>1 DEF ScanInv, FP
    <3>2. CASE NewFirst(prev, curr)
      BY <1>1, <1>5, <1>6, <3>1, <3>2 DEF FP, FQ
    <3>3. CASE ~ NewFirst(prev, curr)
      <4>1. Len(first_pointers) > 0 /\ first_pointers' = first_pointers
        BY <1>2, <1>5, <1>8, <3>3
      <4> QED
        BY <1>1, <1>6, <3>1, <4>1 DEF FP, FQ
    <3> QED
      BY <3>2, <3>3
  <2>6. SQ[1] = 0
    <3>1. SP[1] = 0
      BY <1>1 DEF ScanInv, SP
    <3>2. CASE NewPair(prev, curr)
      BY <1>1, <1>5, <1>6, <3>1, <3>2 DEF SP, SQ
    <3>3. CASE ~ NewPair(prev, curr)
      <4>1. Len(second_pointers) > 0 /\ second_pointers' = second_pointers
        BY <1>5, <1>6, <1>7, <3>3
      <4> QED
        BY <1>1, <1>6, <3>1, <4>1 DEF SP, SQ
    <3> QED
      BY <3>2, <3>3
  <2> QED
    BY <1>1, <1>3, <1>4, <1>6, <1>7, <1>8, <1>9, <1>12, <2>1, <2>2, <2>3, <2>4, <2>5, <2>6 DEF ScanInv, FQ, SQ
<1>14. TypeOK'
  BY <1>1, <1>2, <1>6 DEF TypeOK
<1> QED
  BY <1>1, <1>13, <1>14 DEF IInv

(* A vector filled to its size is built as it is.                          *)
LEMMA FullBuilt ==
  ASSUME NEW s \in Seq(Nat)
  PROVE  Built(s, Len(s)) = s
  BY DEF Built

(* The first pass filled the three vectors it compresses, and no more.     *)
LEMMA CloseStep ==
  ASSUME IInv, CompressFirstAndSecond
  PROVE  IInv'
<1> DEFINE n == Len(input.lines)
<1> DEFINE FP == Append(first_pointers, pointer_first)
<1> DEFINE SP == Append(second_pointers, pointer_second)
<1>1. /\ input \in Inputs /\ input' = input /\ pc' = "third"
      /\ pc = "first_and_second" /\ it = n /\ n \in Nat /\ n > 0 /\ it' = 0
      /\ ScanInv /\ TypeOK
      /\ pointer_first \in Nat /\ pointer_second \in Nat
      /\ first_pointers \in Seq(Nat) /\ second_nodes \in Seq(Nat)
      /\ second_pointers \in Seq(Nat)
      /\ first_pointers' = FP /\ second_pointers' = SP
      /\ second_nodes' = second_nodes /\ third_nodes' = third_nodes /\ third_nodes = <<>>
      /\ pointer_first' = pointer_first /\ pointer_second' = pointer_second /\ prev' = prev
  BY InputFacts DEF IInv, TypeOK, ScanInv, CompressFirstAndSecond, counters
<1>S. /\ prev = Read(input, n)
      /\ Len(second_nodes) = pointer_first /\ Len(second_pointers) = pointer_first
      /\ Len(first_pointers) = prev.first + 1
  BY <1>1 DEF ScanInv
<1>2. n \in 1 .. n /\ prev.first \in Nat
  <2>1. n \in 1 .. n
    BY <1>1
  <2> QED
    BY <1>1, <1>S, <2>1, InputFacts
<1>3. /\ num_nodes(input.params, input.perm, 1) = prev.first + 1
      /\ num_nodes(input.params, input.perm, 2) = pointer_first
      /\ num_nodes(input.params, input.perm, 3) = n
  BY <1>1, <1>S, WellFormedFacts DEF ScanInv
<1>4. /\ FP \in Seq(Nat) /\ Len(FP) = Size(input, "first_pointers")
      /\ SP \in Seq(Nat) /\ Len(SP) = Size(input, "second_pointers")
      /\ Len(second_nodes) = Size(input, "second_nodes")
  <2>1. /\ Size(input, "first_pointers") = prev.first + 2
        /\ Size(input, "second_pointers") = pointer_first + 1
        /\ Size(input, "second_nodes") = pointer_first
    BY <1>2, <1>3 DEF Size
  <2>2. FP \in Seq(Nat) /\ Len(FP) = prev.first + 2
    BY <1>1, <1>2, <1>S
  <2>3. SP \in Seq(Nat) /\ Len(SP) = pointer_first + 1
    BY <1>1, <1>S
  <2> QED
    BY <1>S, <2>1, <2>2, <2>3
<1>5. /\ trie'.first_pointers = FP /\ trie'.second_nodes = second_nodes
      /\ trie'.second_pointers = SP
      /\ trie' \in [perm : permutation_type \cup {"none"}, first_pointers : Seq(Nat),
                    second_nodes : Seq(Nat), second_pointers : Seq(Nat), third_nodes : Seq(Nat)]
  <2>1. /\ Built(FP, Size(input, "first_pointers")) = FP
        /\ Built(second_nodes, Size(input, "second_nodes")) = second_nodes
        /\ Built(SP, Size(input, "second_pointers")) = SP
    BY <1>1, <1>4, FullBuilt
  <2>2. trie' = [trie EXCEPT !.first_pointers = FP, !.second_nodes = second_nodes,
                             !.second_pointers = SP]
    BY <1>1, <2>1 DEF CompressFirstAndSecond
  <2>3. trie \in [perm : permutation_type \cup {"none"}, first_pointers : Seq(Nat),
                  second_nodes : Seq(Nat), second_pointers : Seq(Nat), third_nodes : Seq(Nat)]
    BY <1>1 DEF TypeOK
  <2> QED
    BY <1>1, <1>4, <2>2, <2>3
<1>6. TypeOK'
  BY <1>1, <1>4, <1>5 DEF TypeOK
<1>7. LevelsInv'
  <2>1. /\ Increasing(FP) /\ Increasing(SP) /\ FP[1] = 0 /\ SP[1] = 0
        /\ Describes(FP, second_nodes, SP, input, n)
        /\ Len(second_nodes) = Cardinality(PairsUpTo(input, n))
    BY <1>1 DEF ScanInv
  <2>2. FP[Len(FP)] = Len(second_nodes) /\ SP[Len(SP)] = n
    BY <1>1, <1>S DEF ScanInv
  <2> QED
    BY <1>1, <1>5, <2>1, <2>2 DEF LevelsInv, Levels
<1>8. ThirdInv'
  <2>1. WithinStats
    BY <1>1, ScanWithinStats
  <2>2. Fits(first_pointers, "first_pointers")'
    <3>1. /\ \A i \in 1 .. Len(first_pointers) : first_pointers[i] <= MaxValue(input, "first_pointers")
          /\ pointer_first <= MaxValue(input, "first_pointers")
      BY <1>1, <1>3, <2>1 DEF WithinStats, Fits, MaxValue
    <3>2. DOMAIN FP = 1 .. Len(first_pointers) + 1
      BY <1>1
    <3>3. ASSUME NEW i \in DOMAIN FP PROVE FP[i] <= MaxValue(input, "first_pointers")
      BY <1>1, <3>1, <3>2
    <3>4. Len(FP) <= Size(input, "first_pointers")
      BY <1>4
    <3> HIDE DEF FP
    <3> QED
      BY <1>1, <3>3, <3>4 DEF Fits
  <2>3. Fits(second_pointers, "second_pointers")'
    <3>1. /\ \A i \in 1 .. Len(second_pointers) : second_pointers[i] <= MaxValue(input, "second_pointers")
          /\ pointer_second <= MaxValue(input, "second_pointers")
      BY <1>1, <1>3, <2>1 DEF WithinStats, Fits, MaxValue, ScanInv
    <3>2. DOMAIN SP = 1 .. Len(second_pointers) + 1
      BY <1>1
    <3>3. ASSUME NEW i \in DOMAIN SP PROVE SP[i] <= MaxValue(input, "second_pointers")
      BY <1>1, <3>1, <3>2
    <3>4. Len(SP) <= Size(input, "second_pointers")
      BY <1>4
    <3> HIDE DEF SP
    <3> QED
      BY <1>1, <3>3, <3>4 DEF Fits
  <2>4. Fits(second_nodes, "second_nodes")' /\ Fits(third_nodes, "third_nodes")'
    BY <1>1, <2>1 DEF WithinStats, Fits
  <2> QED
    BY <1>1, <2>2, <2>3, <2>4 DEF ThirdInv, WithinStats
<1> QED
  BY <1>1, <1>6, <1>7, <1>8 DEF IInv

(* A line of the second pass keeps the invariant.                          *)
LEMMA MapStep ==
  ASSUME IInv, MapTriplet
  PROVE  IInv'
<1> DEFINE n == Len(input.lines)
<1> DEFINE m == map(input.mapper, Read(input, it + 1))
<1>1. /\ input \in Inputs /\ input' = input /\ pc' = pc /\ pc = "third"
      /\ n \in Nat /\ it \in Nat /\ it < n /\ it' = it + 1 /\ it + 1 \in 1 .. n
      /\ third_nodes \in Seq(Nat) /\ third_nodes' = Append(third_nodes, m)
      /\ TypeOK /\ LevelsInv /\ ThirdInv
      /\ first_pointers' = first_pointers /\ second_nodes' = second_nodes
      /\ second_pointers' = second_pointers /\ trie' = trie
      /\ prev' = prev /\ pointer_first' = pointer_first /\ pointer_second' = pointer_second
  BY InputFacts DEF IInv, TypeOK, MapTriplet, counters
<1>2. /\ m \in Nat /\ m <= num_types(input.params, input.perm, 3)
      /\ num_nodes(input.params, input.perm, 3) = n
  BY <1>1, WellFormedFacts
<1>3. third_nodes' \in Seq(Nat) /\ Len(third_nodes) = it /\ Len(third_nodes') = it + 1
  BY <1>1, <1>2 DEF ThirdInv
<1>4. TypeOK'
  BY <1>1, <1>3 DEF TypeOK
<1>5. LevelsInv'
  BY <1>1 DEF LevelsInv
<1>6. \A i \in 1 .. it + 1 : third_nodes'[i] = map(input.mapper, Read(input, i))
  <2> TAKE i \in 1 .. it + 1
  <2>1. CASE i = it + 1
    BY <1>1, <1>2, <1>3, <2>1
  <2>2. CASE i \in 1 .. it
    <3>1. third_nodes[i] = map(input.mapper, Read(input, i))
      BY <1>1, <2>2 DEF ThirdInv
    <3>2. third_nodes'[i] = third_nodes[i]
      BY <1>1, <1>2, <1>3, <2>2
    <3> QED
      BY <3>1, <3>2
  <2>3. it \in Nat
    BY <1>1
  <2>4. i = it + 1 \/ i \in 1 .. it
    BY <2>3
  <2> QED
    BY <2>1, <2>2, <2>4
<1>7. WithinStats'
  <2>1. Fits(third_nodes, "third_nodes")'
    <3>1. \A i \in 1 .. it + 1 : third_nodes'[i] <= num_types(input.params, input.perm, 3)
      <4>1. \A i \in 1 .. it + 1 : i \in 1 .. n
        BY <1>1
      <4> QED
        BY <1>1, <1>6, <4>1, WellFormedFacts
    <3>2. DOMAIN third_nodes' = 1 .. it + 1
      BY <1>3
    <3> QED
      BY <1>1, <1>2, <1>3, <3>1, <3>2 DEF Fits, Size, MaxValue
  <2> QED
    BY <1>1, <2>1 DEF ThirdInv, WithinStats, Fits
<1> QED
  BY <1>1, <1>3, <1>4, <1>5, <1>6, <1>7 DEF IInv, ThirdInv

(* The end of the second pass keeps the invariant.                         *)
LEMMA DoneStep ==
  ASSUME IInv, CompressThird
  PROVE  IInv'
<1> DEFINE n == Len(input.lines)
<1>1. /\ input \in Inputs /\ input' = input /\ pc' = "done" /\ pc = "third"
      /\ n \in Nat /\ it = n /\ it' = it
      /\ third_nodes \in Seq(Nat)
      /\ TypeOK /\ LevelsInv /\ ThirdInv
      /\ first_pointers' = <<>> /\ second_nodes' = <<>>
      /\ second_pointers' = <<>> /\ third_nodes' = <<>>
      /\ prev' = prev /\ pointer_first' = pointer_first /\ pointer_second' = pointer_second
  BY InputFacts DEF IInv, TypeOK, CompressThird, counters
<1>2. Len(third_nodes) = Size(input, "third_nodes")
  BY <1>1, WellFormedFacts DEF ThirdInv, Size
<1>3. Built(third_nodes, Size(input, "third_nodes")) = third_nodes
  BY <1>1, <1>2, FullBuilt
<1>4. trie' = [trie EXCEPT !.third_nodes = third_nodes, !.perm = input.perm]
  BY <1>3 DEF CompressThird
<1>5. /\ trie \in [perm : permutation_type \cup {"none"}, first_pointers : Seq(Nat),
                   second_nodes : Seq(Nat), second_pointers : Seq(Nat), third_nodes : Seq(Nat)]
      /\ input.perm \in permutation_type
  BY <1>1, InputFacts DEF TypeOK
<1>6. /\ trie' \in [perm : permutation_type \cup {"none"}, first_pointers : Seq(Nat),
                    second_nodes : Seq(Nat), second_pointers : Seq(Nat), third_nodes : Seq(Nat)]
      /\ trie'.first_pointers = trie.first_pointers /\ trie'.second_nodes = trie.second_nodes
      /\ trie'.second_pointers = trie.second_pointers
      /\ trie'.third_nodes = third_nodes /\ trie'.perm = input.perm
  BY <1>1, <1>4, <1>5
<1>7. TypeOK'
  BY <1>1, <1>6 DEF TypeOK
<1>8. LevelsInv'
  BY <1>1, <1>6 DEF LevelsInv
<1>9. DoneInv'
  BY <1>1, <1>6 DEF DoneInv, ThirdInv
<1> QED
  BY <1>1, <1>7, <1>8, <1>9 DEF IInv

(* Each step keeps the invariant.                                          *)
LEMMA NextIInv == IInv /\ [Next]_vars => IInv'
<1> SUFFICES ASSUME IInv, [Next]_vars PROVE IInv'
  OBVIOUS
<1>1. CASE ReadTriplet
  BY <1>1, ScanStep
<1>2. CASE CompressFirstAndSecond
  BY <1>2, CloseStep
<1>3. CASE MapTriplet
  BY <1>3, MapStep
<1>4. CASE CompressThird
  BY <1>4, DoneStep
<1>5. CASE UNCHANGED vars
  <2>1. /\ input' = input /\ pc' = pc /\ it' = it /\ prev' = prev
        /\ pointer_first' = pointer_first /\ pointer_second' = pointer_second
        /\ first_pointers' = first_pointers /\ second_nodes' = second_nodes
        /\ second_pointers' = second_pointers /\ third_nodes' = third_nodes /\ trie' = trie
    BY <1>5 DEF vars, counters, builders
  <2> QED
    BY <2>1 DEF IInv, TypeOK, ScanInv, LevelsInv, ThirdInv, DoneInv, WithinStats, Fits
<1> QED
  BY <1>1, <1>2, <1>3, <1>4, <1>5 DEF Next

(* So it holds throughout a build.                                         *)
LEMMA AlwaysIInv == Spec => []IInv
  BY InitIInv, NextIInv, PTL DEF Spec
-----------------------------------------------------------------------------
(* The vectors and cursors of trie::builder keep their types whatever the  *)
(* file.                                                                   *)
THEOREM TypeCorrect == Spec => []TypeOK
<1>1. IInv => TypeOK
  BY DEF IInv
<1> QED
  BY <1>1, AlwaysIInv, PTL

(* No push_back of either pass overruns the vector resized from the .stats *)
(* file, nor the width of its values.                                      *)
THEOREM StatsSuffice == Spec => []WithinStats
<1>1. IInv => WithinStats
  <2> SUFFICES ASSUME IInv PROVE WithinStats
    OBVIOUS
  <2>1. CASE pc = "first_and_second"
    BY <2>1, ScanWithinStats
  <2>2. CASE pc = "third"
    BY <2>2 DEF IInv, ThirdInv
  <2>3. CASE pc = "done"
    <3>1. /\ input \in Inputs /\ DoneInv
      BY <2>3 DEF IInv
    <3>2. \A vector \in {"first_pointers", "second_nodes", "second_pointers", "third_nodes"} :
            0 <= Size(input, vector)
      <4>1. /\ num_nodes(input.params, input.perm, 1) \in Nat
            /\ num_nodes(input.params, input.perm, 2) \in Nat
            /\ num_nodes(input.params, input.perm, 3) \in Nat
        BY <3>1, SizesAreNatural
      <4> QED
        BY <4>1 DEF Size
    <3> QED
      BY <3>1, <3>2 DEF DoneInv, WithinStats, Fits
  <2> QED
    BY <2>1, <2>2, <2>3 DEF IInv, TypeOK
<1> QED
  BY <1>1, AlwaysIInv, PTL

(* After any number of lines the first pass's vectors, once closed, place  *)
(* each line read under the right nodes, and under no other.               *)
THEOREM PrefixDescribed == Spec => []DescribesPrefix
<1>1. IInv => DescribesPrefix
  BY DEF IInv, ScanInv, DescribesPrefix
<1> QED
  BY <1>1, AlwaysIInv, PTL

(* The finished trie holds the lines of the file: following its pointers   *)
(* and undoing the mapper gives back the i-th line at position i.          *)
THEOREM BuiltTrieCorrect == Spec => []BuiltTrieIsFile
<1>1. IInv => BuiltTrieIsFile
  <2> SUFFICES ASSUME IInv, pc = "done" PROVE
        /\ trie.perm = input.perm
        /\ Len(trie.third_nodes) = Len(input.lines)
        /\ \A i \in 1 .. Len(input.lines) :
             TripletAt(trie, input.mapper, i - 1) = Read(input, i)
    BY DEF BuiltTrieIsFile
  <2> DEFINE n == Len(input.lines)
  <2> DEFINE fp == trie.first_pointers
  <2> DEFINE sn == trie.second_nodes
  <2> DEFINE sp == trie.second_pointers
  <2>1. /\ input \in Inputs /\ DoneInv /\ LevelsInv /\ n \in Nat /\ n > 0
        /\ fp \in Seq(Nat) /\ sn \in Seq(Nat) /\ sp \in Seq(Nat)
    BY InputFacts DEF IInv, TypeOK
  <2>2. ASSUME NEW i \in 1 .. n
        PROVE  TripletAt(trie, input.mapper, i - 1) = Read(input, i)
    <3> DEFINE t == Read(input, i)
    <3>1. PICK j \in 0 .. Len(sn) - 1 :
            /\ LiesUnder(i - 1, j, sp)
            /\ sn[j + 1] = t.second
            /\ LiesUnder(j, t.first, fp)
            /\ \A h \in 0 .. Len(sn) - 1 : LiesUnder(i - 1, h, sp) => h = j
      BY <2>1 DEF LevelsInv, Levels, Describes
    <3>2. j = CHOOSE h \in 0 .. Len(sn) - 1 : LiesUnder(i - 1, h, sp)
      BY <3>1
    <3>3. /\ t \in [first : Nat, second : Nat, third : Nat]
          /\ t.first \in 0 .. Len(fp) - 2
      <4>1. t \in [first : Nat, second : Nat, third : Nat]
        BY <2>1, InputFacts
      <4>2. n \in 1 .. n /\ Read(input, n).first \in Nat
        BY <2>1, InputFacts
      <4>3. t.first < Read(input, n).first + 1
        BY <2>1, WellFormedFacts
      <4>4. Len(fp) = Read(input, n).first + 2
        BY <2>1, <4>2 DEF LevelsInv, Levels, Describes
      <4> QED
        BY <4>1, <4>2, <4>3, <4>4
    <3>4. t.first = CHOOSE f \in 0 .. Len(fp) - 2 : LiesUnder(j, f, fp)
      <4>1. \A f \in 0 .. Len(fp) - 2 : LiesUnder(j, f, fp) => f = t.first
        <5>1. Increasing(fp)
          BY <2>1 DEF LevelsInv, Levels
        <5>2. j \in Int /\ LiesUnder(j, t.first, fp)
          BY <2>1, <3>1
        <5> HIDE DEF fp, t
        <5> QED
          BY <2>1, <3>3, <5>1, <5>2, OneNode
      <4> QED
        BY <3>1, <3>3, <4>1
    <3>5. trie.third_nodes[i] = map(input.mapper, t)
      BY <2>1 DEF DoneInv
    <3>6. unmap(input.mapper, Triplet(t.first, t.second, map(input.mapper, t))) = t.third
      BY <2>1, WellFormedFacts
    <3>7. i - 1 + 1 = i
      OBVIOUS
    <3>8. TripletAt(trie, input.mapper, i - 1)
            = [Triplet(t.first, t.second, map(input.mapper, t)) EXCEPT !.third = t.third]
      BY <3>1, <3>2, <3>4, <3>5, <3>6, <3>7 DEF TripletAt
    <3> QED
      BY <3>3, <3>8 DEF Triplet
  <2> QED
    BY <2>1, <2>2 DEF DoneInv
<1> QED
  BY <1>1, AlwaysIInv, PTL
-----------------------------------------------------------------------------
(* The pair of ids of a line, and that of the first line under a node of   *)
(* the second level.                                                       *)
Pair(in, i) == <<Read(in, i).first, Read(in, i).second>>

NodePair(sp, in, j) == Pair(in, sp[j + 1] + 1)

(* The lines are sorted not only from one to the next.                     *)
LEMMA FileSorted ==
  ASSUME NEW in \in Inputs,
         NEW a \in 1 .. Len(in.lines), NEW b \in 1 .. Len(in.lines), a < b
  PROVE  Precedes(Read(in, a), Read(in, b))
<1> DEFINE f == [k \in 1 .. Len(in.lines) |-> Read(in, k)]
<1>1. f \in [1 .. Len(in.lines) -> [first : Nat, second : Nat, third : Nat]]
  BY InputFacts
<1>2. \A k \in 1 .. Len(in.lines) - 1 : Precedes(f[k], f[k + 1])
  <2> TAKE k \in 1 .. Len(in.lines) - 1
  <2>1. k \in 1 .. Len(in.lines) /\ k + 1 \in 1 .. Len(in.lines)
    BY InputFacts
  <2> QED
    BY <2>1, InputFacts
<1>3. Len(in.lines) \in Nat
  BY InputFacts
<1> HIDE DEF f
<1>4. Precedes(f[a], f[b])
  BY <1>1, <1>2, <1>3, SortedPairwise
<1> QED
  BY <1>4 DEF f

(* The pointers of a level, strictly increasing from 0.                    *)
LEMMA PointersIncrease ==
  ASSUME NEW p \in Seq(Nat), NEW k \in Nat, Len(p) = k + 1, Increasing(p)
  PROVE  /\ \A j \in 1 .. k + 1 : p[j] \in Nat
         /\ \A a, b \in 1 .. k + 1 : a <= b => p[a] <= p[b]
         /\ \A a, b \in 1 .. k + 1 : a < b => p[a] < p[b]
<1>1. \A j \in 1 .. k + 1 : p[j] \in Nat
  OBVIOUS
<1>2. \A a, b \in 1 .. k + 1 : a < b => p[a] < p[b]
  BY DEF Increasing
<1>3. \A a, b \in 1 .. k + 1 : a <= b => a = b \/ a < b
  OBVIOUS
<1> QED
  BY <1>1, <1>2, <1>3

(* The two levels of a file of n lines, m pairs and first ids up to l.     *)
Leveled(in, fp, sn, sp, n, m, l) ==
  /\ in \in Inputs /\ fp \in Seq(Nat) /\ sn \in Seq(Nat) /\ sp \in Seq(Nat)
  /\ Levels(fp, sn, sp, in)
  /\ n = Len(in.lines) /\ m = Len(sn) /\ l = Read(in, n).first

(* The sizes of the levels, and the order of their pointers.               *)
LEMMA LevelFacts ==
  ASSUME NEW in, NEW fp, NEW sn, NEW sp, NEW n, NEW m, NEW l,
         Leveled(in, fp, sn, sp, n, m, l)
  PROVE  /\ n \in Nat /\ n > 0 /\ m \in Nat /\ l \in Nat
         /\ Len(sp) = m + 1 /\ Len(fp) = l + 2
         /\ \A j \in 1 .. m + 1 : sp[j] \in Nat
         /\ \A a, b \in 1 .. m + 1 : a <= b => sp[a] <= sp[b]
         /\ \A a, b \in 1 .. m + 1 : a < b => sp[a] < sp[b]
         /\ sp[1] = 0 /\ sp[m + 1] = n
         /\ \A f \in 1 .. l + 2 : fp[f] \in Nat
         /\ \A a, b \in 1 .. l + 2 : a <= b => fp[a] <= fp[b]
         /\ \A a, b \in 1 .. l + 2 : a < b => fp[a] < fp[b]
         /\ fp[1] = 0 /\ fp[l + 2] = m
<1>1. /\ in \in Inputs /\ fp \in Seq(Nat) /\ sn \in Seq(Nat) /\ sp \in Seq(Nat)
      /\ n = Len(in.lines) /\ m = Len(sn) /\ l = Read(in, n).first
      /\ Increasing(fp) /\ Increasing(sp) /\ Describes(fp, sn, sp, in, n)
      /\ fp[1] = 0 /\ fp[Len(fp)] = m /\ sp[1] = 0 /\ sp[Len(sp)] = n
  BY DEF Leveled, Levels
<1>2. n \in Nat /\ n > 0 /\ m \in Nat
  BY <1>1, InputFacts
<1>3. l \in Nat
  <2>1. n \in 1 .. n
    BY <1>2
  <2> QED
    BY <1>1, <2>1, InputFacts
<1>4. Len(sp) = m + 1 /\ Len(fp) = l + 2
  BY <1>1, <1>2, <1>3 DEF Describes
<1>5. l + 1 \in Nat /\ l + 2 = l + 1 + 1
  BY <1>3
<1>6. /\ \A j \in 1 .. m + 1 : sp[j] \in Nat
      /\ \A a, b \in 1 .. m + 1 : a <= b => sp[a] <= sp[b]
      /\ \A a, b \in 1 .. m + 1 : a < b => sp[a] < sp[b]
  BY <1>1, <1>2, <1>4, PointersIncrease
<1>7. /\ \A f \in 1 .. l + 1 + 1 : fp[f] \in Nat
      /\ \A a, b \in 1 .. l + 1 + 1 : a <= b => fp[a] <= fp[b]
      /\ \A a, b \in 1 .. l + 1 + 1 : a < b => fp[a] < fp[b]
  BY <1>1, <1>4, <1>5, PointersIncrease
<1> QED
  BY <1>1, <1>2, <1>3, <1>4, <1>5, <1>6, <1>7

(* Every node has lines, which all have the pair of the first of them: the *)
(* node's second id and the place of the node under the first id.          *)
LEMMA NodesHaveOnePair ==
  ASSUME NEW in, NEW fp, NEW sn, NEW sp, NEW n, NEW m, NEW l,
         Leveled(in, fp, sn, sp, n, m, l)
  PROVE  /\ \A j \in 0 .. m - 1 :
              /\ sp[j + 1] \in Nat /\ sp[j + 1] + 1 \in 1 .. n
              /\ LiesUnder(sp[j + 1], j, sp)
              /\ sn[j + 1] = NodePair(sp, in, j)[2]
              /\ NodePair(sp, in, j)[1] \in 0 .. l
              /\ LiesUnder(j, NodePair(sp, in, j)[1], fp)
         /\ \A i \in 1 .. n : \E j \in 0 .. m - 1 : LiesUnder(i - 1, j, sp)
         /\ \A i \in 1 .. n : \A j \in 0 .. m - 1 :
              LiesUnder(i - 1, j, sp) => Pair(in, i) = NodePair(sp, in, j)
<1>1. /\ in \in Inputs /\ fp \in Seq(Nat) /\ sn \in Seq(Nat) /\ sp \in Seq(Nat)
      /\ n = Len(in.lines) /\ m = Len(sn) /\ l = Read(in, n).first
      /\ Increasing(fp) /\ Describes(fp, sn, sp, in, n)
  BY DEF Leveled, Levels
<1>2. n \in Nat /\ m \in Nat /\ l \in Nat /\ Len(fp) = l + 2 /\ sp[m + 1] = n
  BY LevelFacts
<1>3. \A i \in 1 .. n : Read(in, i).first \in 0 .. l
  <2>1. \A i \in 1 .. n : Read(in, i).first \in Nat /\ Read(in, i).first < l + 1
    BY <1>1, InputFacts, WellFormedFacts
  <2> QED
    BY <1>2, <2>1
<1>4. ASSUME NEW i \in 1 .. n
      PROVE  \E j \in 0 .. m - 1 :
               /\ LiesUnder(i - 1, j, sp)
               /\ sn[j + 1] = Read(in, i).second
               /\ LiesUnder(j, Read(in, i).first, fp)
               /\ \A h \in 0 .. m - 1 : LiesUnder(i - 1, h, sp) => h = j
  BY <1>1 DEF Describes
<1>5. ASSUME NEW i \in 1 .. n, NEW j \in 0 .. m - 1, LiesUnder(i - 1, j, sp)
      PROVE  sn[j + 1] = Read(in, i).second /\ LiesUnder(j, Read(in, i).first, fp)
  BY <1>4, <1>5
<1>6. ASSUME NEW j \in 0 .. m - 1
      PROVE  sp[j + 1] \in Nat /\ sp[j + 1] + 1 \in 1 .. n /\ LiesUnder(sp[j + 1], j, sp)
  <2>1. /\ j + 1 \in 1 .. m + 1 /\ j + 2 \in 1 .. m + 1 /\ m + 1 \in 1 .. m + 1
        /\ j + 1 < j + 2 /\ j + 2 <= m + 1
    BY <1>2
  <2>2. sp[j + 1] \in Nat /\ sp[j + 2] \in Nat /\ sp[j + 1] < sp[j + 2] /\ sp[j + 2] <= sp[m + 1]
    BY <2>1, LevelFacts
  <2>3. sp[j + 1] + 1 \in 1 .. n
    BY <1>2, <2>2
  <2>4. LiesUnder(sp[j + 1], j, sp)
    BY <2>2 DEF LiesUnder
  <2> QED
    BY <2>2, <2>3, <2>4
<1>7. ASSUME NEW j \in 0 .. m - 1
      PROVE  /\ sn[j + 1] = NodePair(sp, in, j)[2]
             /\ NodePair(sp, in, j)[1] \in 0 .. l
             /\ LiesUnder(j, NodePair(sp, in, j)[1], fp)
  <2>1. PICK i \in 1 .. n : i = sp[j + 1] + 1
    BY <1>6
  <2>2. i - 1 = sp[j + 1]
    BY <1>6, <2>1
  <2>3. LiesUnder(i - 1, j, sp)
    BY <1>6, <2>2
  <2>4. sn[j + 1] = Read(in, i).second /\ LiesUnder(j, Read(in, i).first, fp)
    BY <1>5, <2>3
  <2> QED
    BY <1>3, <2>1, <2>4 DEF NodePair, Pair
<1>8. ASSUME NEW i \in 1 .. n, NEW j \in 0 .. m - 1, LiesUnder(i - 1, j, sp)
      PROVE  Pair(in, i) = NodePair(sp, in, j)
  <2>1. sn[j + 1] = Read(in, i).second /\ LiesUnder(j, Read(in, i).first, fp)
    BY <1>5, <1>8
  <2>2. \A f \in 0 .. l : f \in 0 .. Len(fp) - 2
    BY <1>2
  <2>3. /\ Read(in, i).first \in 0 .. Len(fp) - 2 /\ NodePair(sp, in, j)[1] \in 0 .. Len(fp) - 2
        /\ j \in Int
    BY <1>3, <1>7, <2>2
  <2>4. Read(in, i).first = NodePair(sp, in, j)[1]
    BY <1>1, <1>7, <2>1, <2>3, OneNode
  <2> QED
    BY <1>7, <2>1, <2>4 DEF Pair, NodePair
<1> QED
  BY <1>4, <1>6, <1>7, <1>8

(* As there are as many nodes as pairs, no two have the same; and a later  *)
(* node has later lines. So the nodes list the pairs of the file in order. *)
LEMMA NodesListPairs ==
  ASSUME NEW in, NEW fp, NEW sn, NEW sp, NEW n, NEW m, NEW l,
         Leveled(in, fp, sn, sp, n, m, l)
  PROVE  /\ PairsUpTo(in, n) \subseteq Nat \X Nat
         /\ Cardinality(PairsUpTo(in, n)) = m
         /\ RankOrder([j \in 0 .. m - 1 |-> NodePair(sp, in, j)], PairsUpTo(in, n), m)
<1> DEFINE S == PairsUpTo(in, n)
           f == [j \in 0 .. m - 1 |-> NodePair(sp, in, j)]
<1>0. in \in Inputs /\ n = Len(in.lines) /\ n \in Nat /\ m \in Nat /\ Cardinality(S) = m
  BY LevelFacts DEF Leveled, Levels
<1>1. S \subseteq Nat \X Nat /\ IsFiniteSet(S)
  <2>1. \A i \in 1 .. n : Read(in, i).first \in Nat /\ Read(in, i).second \in Nat
    BY <1>0, InputFacts
  <2>2. S \subseteq Nat \X Nat
    BY <2>1 DEF PairsUpTo
  <2> QED
    BY <1>0, <2>2, PairsFinite
<1>2. \A j \in 0 .. m - 1 : NodePair(sp, in, j) \in S /\ sp[j + 1] + 1 \in 1 .. n
  BY NodesHaveOnePair DEF NodePair, Pair, PairsUpTo
<1>3. \A q \in S : \E j \in 0 .. m - 1 : f[j] = q
  <2> TAKE q \in S
  <2>1. PICK i \in 1 .. n : q = Pair(in, i)
    BY DEF PairsUpTo, Pair
  <2>2. PICK j \in 0 .. m - 1 : LiesUnder(i - 1, j, sp)
    BY NodesHaveOnePair
  <2>3. Pair(in, i) = NodePair(sp, in, j)
    BY <2>2, NodesHaveOnePair
  <2> QED
    BY <2>1, <2>3
<1>4. f \in Surjection(0 .. m - 1, S)
  BY <1>2, <1>3 DEF Surjection
<1>5. IsFiniteSet(0 .. m - 1) /\ Cardinality(0 .. m - 1) = m
  <2>1. 0 \in Int /\ m - 1 \in Int
    BY <1>0
  <2>2. IsFiniteSet(0 .. m - 1) /\ Cardinality(0 .. m - 1) = IF 0 > m - 1 THEN 0 ELSE m - 1 - 0 + 1
    BY <2>1, FS_Interval
  <2> QED
    BY <1>0, <2>2
<1>6. \A a, b \in 0 .. m - 1 : f[a] = f[b] => a = b
  <2>1. f \in Injection(0 .. m - 1, S)
    BY <1>0, <1>1, <1>4, <1>5, FS_SurjSameCardinalityImpliesInj
  <2>2. DOMAIN f = 0 .. m - 1
    OBVIOUS
  <2> HIDE DEF f
  <2> QED
    BY <2>1, <2>2 DEF Injection, IsInjective
<1>7. ASSUME NEW a \in 0 .. m - 1, NEW b \in 0 .. m - 1, a < b
      PROVE  Before(f[a], f[b])
  <2>1. f[a] # f[b]
    <3>1. a # b
      BY <1>7
    <3> HIDE DEF f
    <3> QED
      BY <1>6, <3>1
  <2>2. PICK x \in 1 .. n, y \in 1 .. n : x = sp[a + 1] + 1 /\ y = sp[b + 1] + 1
    BY <1>2
  <2>3. x < y
    <3>1. /\ a + 1 \in 1 .. m + 1 /\ b + 1 \in 1 .. m + 1 /\ a + 1 < b + 1
      BY <1>0, <1>7
    <3>2. sp[a + 1] < sp[b + 1] /\ sp[a + 1] \in Nat /\ sp[b + 1] \in Nat
      BY <3>1, LevelFacts
    <3> QED
      BY <2>2, <3>2
  <2>4. Precedes(Read(in, x), Read(in, y))
    BY <1>0, <2>3, FileSorted
  <2>5. f[a] = Pair(in, x) /\ f[b] = Pair(in, y)
    BY <2>2 DEF NodePair
  <2>6. Pair(in, x) # Pair(in, y)
    BY <2>1, <2>5
  <2>7. Before(Pair(in, x), Pair(in, y))
    BY <2>4, <2>6 DEF Precedes, Pair, Before
  <2> QED
    BY <2>5, <2>7
<1> QED
  BY <1>0, <1>1, <1>2, <1>3, <1>7 DEF RankOrder

(* So the j-th node holds the second id of the j-th pair, and the pairs    *)
(* below a first id are the nodes before its pointer.                      *)
LEMMA NodesAreRanked ==
  ASSUME NEW in, NEW fp, NEW sn, NEW sp, NEW n, NEW m, NEW l,
         Leveled(in, fp, sn, sp, n, m, l)
  PROVE  LET S == PairsUpTo(in, n) IN
         /\ \A j \in 0 .. m - 1 : Nth(S, j) = NodePair(sp, in, j) /\ sn[j + 1] = Nth(S, j)[2]
         /\ \A a, b \in 0 .. m - 1 : a < b => Before(NodePair(sp, in, a), NodePair(sp, in, b))
         /\ \A f \in 0 .. l + 1 : fp[f + 1] = Cardinality({q \in S : q[1] < f})
<1> DEFINE S == PairsUpTo(in, n)
           g == [j \in 0 .. m - 1 |-> NodePair(sp, in, j)]
<1>1. S \subseteq Nat \X Nat /\ RankOrder(g, S, m) /\ n \in Nat /\ m \in Nat /\ l \in Nat
  BY NodesListPairs, LevelFacts
<1>2. \A j \in 0 .. m - 1 : g[j] = NodePair(sp, in, j)
  OBVIOUS
<1>3. \A j \in 0 .. m - 1 : Nth(S, j) = g[j]
  <2> HIDE DEF g, S
  <2> QED
    BY <1>1, IncreasingEnumeration
<1>4. \A j \in 0 .. m - 1 : sn[j + 1] = NodePair(sp, in, j)[2]
  BY NodesHaveOnePair
<1>5. \A a, b \in 0 .. m - 1 : a < b => Before(g[a], g[b])
  BY <1>1 DEF RankOrder
<1>6. ASSUME NEW f \in 0 .. l + 1
      PROVE  fp[f + 1] = Cardinality({q \in S : q[1] < f})
  <2> DEFINE T == {q \in S : q[1] < f}
  <2>1. PICK c \in Nat : c = fp[f + 1] /\ c <= m
    <3>1. f + 1 \in 1 .. l + 2 /\ l + 2 \in 1 .. l + 2 /\ f + 1 <= l + 2
      BY <1>1
    <3>2. fp[f + 1] \in Nat /\ fp[f + 1] <= fp[l + 2] /\ fp[l + 2] = m
      BY <3>1, LevelFacts
    <3> QED
      BY <3>2
  <2>2. ASSUME NEW j \in 0 .. m - 1
        PROVE  g[j] \in T <=> j < c
    <3>1. g[j] \in S
      BY <1>1 DEF RankOrder
    <3>2. PICK x \in 0 .. l : x = g[j][1] /\ LiesUnder(j, x, fp)
      BY <1>2, NodesHaveOnePair
    <3>3. x + 1 \in 1 .. l + 2 /\ x + 2 \in 1 .. l + 2 /\ f + 1 \in 1 .. l + 2
      BY <1>1
    <3>4. /\ fp[x + 1] \in Nat /\ fp[x + 2] \in Nat
          /\ x + 2 <= f + 1 => fp[x + 2] <= fp[f + 1]
          /\ f + 1 <= x + 1 => fp[f + 1] <= fp[x + 1]
      BY <3>3, LevelFacts
    <3>5. fp[x + 1] <= j /\ j < fp[x + 2]
      BY <3>2 DEF LiesUnder
    <3>6. x < f <=> j < c
      <4>1. CASE x < f
        <5>1. x + 2 <= f + 1
          BY <1>1, <4>1
        <5> QED
          BY <2>1, <3>4, <3>5, <4>1, <5>1
      <4>2. CASE ~ (x < f)
        <5>1. f + 1 <= x + 1
          BY <1>1, <4>2
        <5> QED
          BY <2>1, <3>4, <3>5, <4>2, <5>1
      <4> QED
        BY <4>1, <4>2
    <3> HIDE DEF g, S
    <3> QED
      BY <3>1, <3>2, <3>6
  <2>3. HasFirst(T, c, g, m) /\ c \in 0 .. m /\ T \subseteq S
    BY <1>1, <2>1, <2>2 DEF HasFirst
  <2> HIDE DEF g, S, T
  <2>4. Cardinality(T) = c
    BY <1>1, <2>3, CountsInitialPart
  <2> QED
    BY <2>1, <2>4 DEF T
<1> QED
  BY <1>2, <1>3, <1>4, <1>5, <1>6

(* And the lines before those of a node are the ones whose pairs come      *)
(* before the node's.                                                      *)
LEMMA LinesBeforeNode ==
  ASSUME NEW in, NEW fp, NEW sn, NEW sp, NEW n, NEW m, NEW l,
         Leveled(in, fp, sn, sp, n, m, l), NEW j \in 0 .. m
  PROVE  sp[j + 1] = Cardinality({i \in 1 .. n : j < m => Before(Pair(in, i), NodePair(sp, in, j))})
<1> DEFINE T == {i \in 1 .. n : j < m => Before(Pair(in, i), NodePair(sp, in, j))}
<1>1. n \in Nat /\ m \in Nat /\ PairsUpTo(in, n) \subseteq Nat \X Nat
  BY LevelFacts, NodesListPairs
<1>2. PICK c \in Nat : c = sp[j + 1] /\ c <= n
  <2>1. j + 1 \in 1 .. m + 1 /\ m + 1 \in 1 .. m + 1 /\ j + 1 <= m + 1
    BY <1>1
  <2>2. sp[j + 1] \in Nat /\ sp[j + 1] <= sp[m + 1] /\ sp[m + 1] = n
    BY <2>1, LevelFacts
  <2> QED
    BY <2>2
<1>3. ASSUME NEW i \in 1 .. n
      PROVE  i \in T <=> i <= c
  <2>1. CASE j = m
    <3>1. c = n
      BY <1>2, <2>1, LevelFacts
    <3> QED
      BY <1>1, <2>1, <3>1
  <2>2. CASE j < m
    <3>1. PICK h \in 0 .. m - 1 : LiesUnder(i - 1, h, sp)
      BY NodesHaveOnePair
    <3>2. Pair(in, i) = NodePair(sp, in, h)
      BY <3>1, NodesHaveOnePair
    <3>3. /\ h + 1 \in 1 .. m + 1 /\ h + 2 \in 1 .. m + 1 /\ j + 1 \in 1 .. m + 1
          /\ j \in 0 .. m - 1
      BY <1>1, <2>2
    <3>4. /\ sp[h + 1] \in Nat /\ sp[h + 2] \in Nat
          /\ h + 2 <= j + 1 => sp[h + 2] <= sp[j + 1]
          /\ j + 1 <= h + 1 => sp[j + 1] <= sp[h + 1]
      BY <3>3, LevelFacts
    <3>5. sp[h + 1] <= i - 1 /\ i - 1 < sp[h + 2]
      BY <3>1 DEF LiesUnder
    <3>6. h < j <=> i <= c
      <4>1. CASE h < j
        <5>1. h + 2 <= j + 1
          BY <1>1, <4>1
        <5> QED
          BY <1>2, <3>4, <3>5, <4>1, <5>1
      <4>2. CASE ~ (h < j)
        <5>1. j + 1 <= h + 1
          BY <1>1, <4>2
        <5> QED
          BY <1>2, <3>4, <3>5, <4>2, <5>1
      <4> QED
        BY <4>1, <4>2
    <3>7. h < j <=> Before(NodePair(sp, in, h), NodePair(sp, in, j))
      <4>1. \A a, b \in 0 .. m - 1 : a < b => Before(NodePair(sp, in, a), NodePair(sp, in, b))
        BY NodesAreRanked
      <4>2. \A a \in 0 .. m - 1 : NodePair(sp, in, a) \in Nat \X Nat
        <5>1. \A a \in 0 .. m - 1 : NodePair(sp, in, a) \in PairsUpTo(in, n)
          BY NodesHaveOnePair DEF NodePair, Pair, PairsUpTo
        <5> QED
          BY <1>1, <5>1
      <4>3. \A q, r \in Nat \X Nat : ~ (Before(q, r) /\ Before(r, q)) /\ ~ Before(q, q)
        BY DEF Before
      <4>4. h < j \/ h = j \/ j < h
        BY <1>1
      <4> QED
        BY <3>3, <4>1, <4>2, <4>3, <4>4
    <3> QED
      BY <2>2, <3>2, <3>6, <3>7
  <2> QED
    BY <1>1, <2>1, <2>2
<1>4. T = 1 .. c
  <2>1. \A i \in 1 .. c : i \in 1 .. n
    BY <1>1, <1>2
  <2>2. T \subseteq 1 .. n /\ \A i \in 1 .. n : i <= c => i \in 1 .. c
    BY <1>2
  <2>3. \A i \in 1 .. c : i <= c
    BY <1>2
  <2> HIDE DEF T
  <2> QED
    BY <1>3, <2>1, <2>2, <2>3
<1>5. Cardinality(1 .. c) = c
  <2>1. Cardinality(1 .. c) = IF 1 > c THEN 0 ELSE c - 1 + 1
    BY FS_Interval
  <2> QED
    BY <2>1
<1> QED
  BY <1>2, <1>4, <1>5

(* The invariant of a finished builder, on the names of the lemmas.        *)
LEMMA DoneFacts ==
  ASSUME IInv, pc = "done", NEW n, n = Len(input.lines),
         NEW m, m = Len(trie.second_nodes), NEW l, l = Read(input, n).first
  PROVE  /\ Leveled(input, trie.first_pointers, trie.second_nodes, trie.second_pointers, n, m, l)
         /\ input \in Inputs /\ trie.third_nodes \in Seq(Nat) /\ Len(trie.third_nodes) = n
         /\ \A i \in 1 .. n : trie.third_nodes[i] = map(input.mapper, Read(input, i))
         /\ trie = [perm |-> input.perm, first_pointers |-> trie.first_pointers,
                    second_nodes |-> trie.second_nodes, second_pointers |-> trie.second_pointers,
                    third_nodes |-> trie.third_nodes]
  BY DEF IInv, TypeOK, LevelsInv, DoneInv, Leveled

(* The finished trie is, vector by vector, the trie of the file: the nodes *)
(* are its pairs, the pointers count the pairs and the lines before.       *)
THEOREM BuiltTrieReference == Spec => []BuiltTrieIsTrieOf
<1>1. IInv => BuiltTrieIsTrieOf
  <2> SUFFICES ASSUME IInv, pc = "done"
               PROVE  trie = TrieOf(input.perm, input.lines, input.mapper)
    BY DEF BuiltTrieIsTrieOf
  <2> DEFINE fp == trie.first_pointers
             sn == trie.second_nodes
             sp == trie.second_pointers
             tn == trie.third_nodes
  <2>1. PICK n, m, l : n = Len(input.lines) /\ m = Len(sn) /\ l = Read(input, n).first
    OBVIOUS
  <2> DEFINE S == PairsUpTo(input, n)
             line == [i \in 1 .. n |-> read_next(input.perm, input.lines[i])]
             pair == [i \in 1 .. n |-> <<line[i].first, line[i].second>>]
  <2>2. /\ Leveled(input, fp, sn, sp, n, m, l) /\ tn \in Seq(Nat) /\ Len(tn) = n
        /\ \A i \in 1 .. n : tn[i] = map(input.mapper, Read(input, i))
        /\ trie = [perm |-> input.perm, first_pointers |-> fp, second_nodes |-> sn,
                   second_pointers |-> sp, third_nodes |-> tn]
    BY <2>1, DoneFacts
  <2>3. /\ n \in Nat /\ n > 0 /\ m \in Nat /\ l \in Nat /\ Len(fp) = l + 2 /\ Len(sp) = m + 1
        /\ Len(sn) = m /\ Cardinality(S) = m
        /\ fp \in Seq(Nat) /\ sn \in Seq(Nat) /\ sp \in Seq(Nat)
    <3>1. fp \in Seq(Nat) /\ sn \in Seq(Nat) /\ sp \in Seq(Nat)
      BY <2>2 DEF Leveled
    <3>2. Cardinality(S) = m
      BY <2>2, NodesListPairs
    <3>3. n \in Nat /\ n > 0 /\ m \in Nat /\ l \in Nat /\ Len(fp) = l + 2 /\ Len(sp) = m + 1
      BY <2>2, LevelFacts
    <3> QED
      BY <2>1, <3>1, <3>2, <3>3
  <2>4. /\ \A i \in 1 .. n : line[i] = Read(input, i) /\ pair[i] = Pair(input, i)
        /\ {pair[i] : i \in 1 .. n} = S /\ line[n].first = l
    <3>1. \A i \in 1 .. n : line[i] = Read(input, i)
      BY DEF Read
    <3>2. \A i \in 1 .. n : pair[i] = Pair(input, i)
      BY <3>1 DEF Pair
    <3>3. n \in 1 .. n
      BY <2>3
    <3> HIDE DEF line, pair
    <3> QED
      BY <2>1, <3>1, <3>2, <3>3 DEF PairsUpTo, Pair
  <2> HIDE DEF fp, sn, sp, tn, S, line, pair
  <2>5. fp = [f \in 1 .. l + 2 |-> Cardinality({q \in S : q[1] < f - 1})]
    <3>1. ASSUME NEW f \in 1 .. l + 2 PROVE fp[f] = Cardinality({q \in S : q[1] < f - 1})
      <4>1. PICK e \in 0 .. l + 1 : e = f - 1 /\ f = e + 1
        BY <2>3
      <4>2. fp[e + 1] = Cardinality({q \in S : q[1] < e})
        BY <2>2, NodesAreRanked DEF S
      <4> QED
        BY <4>1, <4>2
    <3>2. fp \in [1 .. l + 2 -> Nat]
      BY <2>3
    <3> QED
      BY <3>1, <3>2
  <2>6. sn = [j \in 1 .. m |-> Nth(S, j - 1)[2]]
    <3>1. ASSUME NEW j \in 1 .. m PROVE sn[j] = Nth(S, j - 1)[2]
      <4>1. PICK e \in 0 .. m - 1 : e = j - 1 /\ j = e + 1
        BY <2>3
      <4>2. sn[e + 1] = Nth(S, e)[2]
        BY <2>2, NodesAreRanked DEF S
      <4> QED
        BY <4>1, <4>2
    <3>2. sn \in [1 .. m -> Nat]
      BY <2>3
    <3> QED
      BY <3>1, <3>2
  <2>7. sp = [j \in 1 .. m + 1 |-> Cardinality({i \in 1 .. n : j <= m => Before(pair[i], Nth(S, j - 1))})]
    <3>1. ASSUME NEW j \in 1 .. m + 1
          PROVE  sp[j] = Cardinality({i \in 1 .. n : j <= m => Before(pair[i], Nth(S, j - 1))})
      <4>1. PICK e \in 0 .. m : e = j - 1 /\ j = e + 1 /\ (e < m <=> j <= m)
        BY <2>3
      <4>2. sp[e + 1] = Cardinality({i \in 1 .. n : e < m => Before(Pair(input, i), NodePair(sp, input, e))})
        BY <2>2, LinesBeforeNode
      <4>3. e < m => Nth(S, e) = NodePair(sp, input, e)
        <5>1. e < m => e \in 0 .. m - 1
          BY <2>3
        <5> QED
          BY <2>2, <5>1, NodesAreRanked DEF S
      <4>4. {i \in 1 .. n : e < m => Before(Pair(input, i), NodePair(sp, input, e))}
              = {i \in 1 .. n : j <= m => Before(pair[i], Nth(S, j - 1))}
        BY <2>4, <4>1, <4>3
      <4> QED
        BY <4>1, <4>2, <4>4
    <3>2. sp \in [1 .. m + 1 -> Nat]
      BY <2>3
    <3> QED
      BY <3>1, <3>2
  <2>8. tn = [i \in 1 .. n |-> map(input.mapper, line[i])]
    <3>1. tn \in [1 .. n -> Nat]
      <4>1. tn \in Seq(Nat) /\ Len(tn) = n
        BY <2>2
      <4> QED
        BY <4>1
    <3> QED
      BY <2>2, <2>4, <3>1
  <2>9. TrieOf(input.perm, input.lines, input.mapper)
          = [perm |-> input.perm, first_pointers |-> fp, second_nodes |-> sn,
             second_pointers |-> sp, third_nodes |-> tn]
    <3>1. TrieOf(input.perm, input.lines, input.mapper)
            = [perm |-> input.perm,
               first_pointers |-> [f \in 1 .. line[n].first + 2 |->
                                     Cardinality({q \in {pair[i] : i \in 1 .. n} : q[1] < f - 1})],
               second_nodes |-> [j \in 1 .. Cardinality({pair[i] : i \in 1 .. n}) |->
                                   Nth({pair[i] : i \in 1 .. n}, j - 1)[2]],
               second_pointers |-> [j \in 1 .. Cardinality({pair[i] : i \in 1 .. n}) + 1 |->
                 Cardinality({i \in 1 .. n : j <= Cardinality({pair[k] : k \in 1 .. n}) =>
                                Before(pair[i], Nth({pair[k] : k \in 1 .. n}, j - 1))})],
               third_nodes |-> [i \in 1 .. n |-> map(input.mapper, line[i])]]
      BY <2>1, Zenon DEF TrieOf, line, pair
    <3> QED
      BY <2>3, <2>4, <2>5, <2>6, <2>7, <2>8, <3>1, Zenon
  <2> QED
    BY <2>2, <2>9
<1> QED
  BY <1>1, AlwaysIInv, PTL
-----------------------------------------------------------------------------
(* The mapper keeps the order of the third ids under one parent: a rank    *)
(* among ids that increase.                                                *)
LEMMA MapIncreases ==
  ASSUME NEW in \in Inputs, NEW i \in 1 .. Len(in.lines), NEW j \in 1 .. Len(in.lines),
         Read(in, i).second = Read(in, j).second, Read(in, i).third < Read(in, j).third
  PROVE  map(in.mapper, Read(in, i)) < map(in.mapper, Read(in, j))
<1>1. CASE in.mapper.kind = "identity"
  BY <1>1 DEF map
<1>2. CASE in.mapper.kind # "identity"
  <2> DEFINE nodes == in.mapper.nodes
             pointers == in.mapper.pointers
             s == Read(in, i).second
             Third(k) == Read(in, k).third
  <2>1. /\ WellFormedRanges(nodes, pointers)
        /\ num_types(in.params, in.perm, 2) < Len(pointers)
        /\ num_types(in.params, in.perm, 2) \in Nat
        /\ s < num_types(in.params, in.perm, 2)
    <3>1. WellFormed(in)
      BY InputsAssumption
    <3>2. WellFormedRanges(nodes, pointers) /\ num_types(in.params, in.perm, 2) < Len(pointers)
      BY <1>2, <3>1 DEF WellFormed
    <3>3. 2 \in 2 .. 3
      OBVIOUS
    <3>4. num_types(in.params, in.perm, 2) \in Nat
      BY <3>1, <3>3 DEF WellFormed
    <3>5. s < num_types(in.params, in.perm, 2)
      BY <3>1 DEF WellFormed
    <3> QED
      BY <3>2, <3>4, <3>5
  <2>2. PICK p \in 1 .. Len(pointers) - 1 : p = s + 1
    <3>1. Len(pointers) \in Nat
      BY <2>1 DEF WellFormedRanges
    <3>2. s \in Nat
      BY InputFacts
    <3> HIDE DEF s, pointers
    <3> QED
      BY <2>1, <3>1, <3>2
  <2>3. PICK b \in Nat, e \in Nat : b = pointers[p] /\ e = pointers[p + 1]
    <3>1. pointers \in Seq(Nat) /\ p \in 1 .. Len(pointers) /\ p + 1 \in 1 .. Len(pointers)
      BY <2>1 DEF WellFormedRanges
    <3> HIDE DEF pointers
    <3> QED
      BY <3>1
  <2>4. \A x, y \in b + 1 .. e : x < y => nodes[x] < nodes[y]
    BY <2>1, <2>3 DEF WellFormedRanges
  <2> DEFINE r == RangeAt(pointers, s)
  <2>5. Positions(r) = b .. e - 1 /\ r.begin = b
    <3>1. s + 1 = p /\ s + 2 = p + 1
      <4>1. s \in Nat
        BY InputFacts
      <4> HIDE DEF s
      <4> QED
        BY <2>2, <4>1
    <3> QED
      BY <2>3, <3>1 DEF RangeAt, Positions
  <2>6. ASSUME NEW k \in {i, j}
        PROVE  \E pos \in b .. e - 1 : nodes[pos + 1] = Third(k) /\ map(in.mapper, Read(in, k)) = pos - b
    <3>1. map(in.mapper, Read(in, k)) = find(nodes, r, Third(k)) - b
      BY <1>2, <2>5 DEF map, get_parent
    <3>2. map(in.mapper, Read(in, k)) \in Nat
      BY WellFormedFacts
    <3>3. ASSUME find(nodes, r, Third(k)) = -1 PROVE FALSE
      BY <2>3, <3>1, <3>2, <3>3
    <3>4. \E pos \in Positions(r) : nodes[pos + 1] = Third(k)
      BY <3>3 DEF find, not_found
    <3>5. find(nodes, r, Third(k)) = CHOOSE pos \in Positions(r) : nodes[pos + 1] = Third(k)
      BY <3>4 DEF find
    <3>6. find(nodes, r, Third(k)) \in Positions(r) /\ nodes[find(nodes, r, Third(k)) + 1] = Third(k)
      BY <3>4, <3>5
    <3> QED
      BY <2>5, <3>1, <3>6
  <2>7. PICK x \in b .. e - 1 : nodes[x + 1] = Third(i) /\ map(in.mapper, Read(in, i)) = x - b
    BY <2>6
  <2>8. PICK y \in b .. e - 1 : nodes[y + 1] = Third(j) /\ map(in.mapper, Read(in, j)) = y - b
    BY <2>6
  <2>9. x < y
    <3>1. x + 1 \in b + 1 .. e /\ y + 1 \in b + 1 .. e
      OBVIOUS
    <3>2. y + 1 < x + 1 => Third(j) < Third(i)
      BY <2>4, <2>7, <2>8, <3>1
    <3>3. Third(i) \in Nat /\ Third(j) \in Nat /\ Third(i) < Third(j)
      BY InputFacts
    <3>4. x # y
      BY <2>7, <2>8, <3>3
    <3> QED
      BY <3>2, <3>3, <3>4
  <2> QED
    BY <2>7, <2>8, <2>9
<1> QED
  BY <1>1, <1>2

(* The second level of a built trie is what the encoders and the mapper    *)
(* take: every node of the first has children, and they increase.          *)
LEMMA SecondLevelRanges ==
  ASSUME NEW in, NEW fp, NEW sn, NEW sp, NEW n, NEW m, NEW l,
         Leveled(in, fp, sn, sp, n, m, l)
  PROVE  WellFormedRanges(sn, fp)
<1>0. fp \in Seq(Nat) /\ sn \in Seq(Nat) /\ Len(sn) = m /\ Increasing(fp)
  BY DEF Leveled, Levels
<1>1. Len(fp) = l + 2 /\ m \in Nat /\ l \in Nat /\ fp[1] = 0 /\ fp[l + 2] = m
  BY LevelFacts
<1>2. ASSUME NEW p \in 1 .. l + 1
      PROVE  /\ fp[p] \in Nat /\ fp[p + 1] \in Nat /\ fp[p] < fp[p + 1] /\ fp[p + 1] <= m
             /\ p - 1 \in 0 .. l
  <2>1. p \in 1 .. l + 2 /\ p + 1 \in 1 .. l + 2 /\ l + 2 \in 1 .. l + 2 /\ p < p + 1 /\ p + 1 <= l + 2
    BY <1>1
  <2>2. fp[p] \in Nat /\ fp[p + 1] \in Nat /\ fp[p] < fp[p + 1] /\ fp[p + 1] <= fp[l + 2]
    BY <2>1, LevelFacts
  <2> QED
    BY <1>1, <2>2
<1>3. ASSUME NEW p \in 1 .. l + 1, NEW k \in fp[p] + 1 .. fp[p + 1]
      PROVE  k - 1 \in 0 .. m - 1 /\ NodePair(sp, in, k - 1)[1] = p - 1
  <2>1. PICK b \in Nat, e \in Nat : b = fp[p] /\ e = fp[p + 1] /\ e <= m
    BY <1>2
  <2>2. k \in Nat /\ k - 1 \in 0 .. m - 1 /\ b <= k - 1 /\ k - 1 < e
    BY <1>1, <2>1
  <2>3. LiesUnder(k - 1, p - 1, fp)
    <3>1. p - 1 + 1 = p /\ p - 1 + 2 = p + 1
      BY <1>1
    <3> QED
      BY <2>1, <2>2, <3>1 DEF LiesUnder
  <2>4. NodePair(sp, in, k - 1)[1] \in 0 .. l /\ LiesUnder(k - 1, NodePair(sp, in, k - 1)[1], fp)
    BY <2>2, NodesHaveOnePair
  <2>5. \A f \in 0 .. l : f \in 0 .. Len(fp) - 2
    BY <1>1
  <2>6. k - 1 \in Int
    BY <2>2
  <2> QED
    BY <1>0, <1>1, <1>2, <2>2, <2>3, <2>4, <2>5, <2>6, OneNode
<1>4. ASSUME NEW p \in 1 .. l + 1, NEW k \in fp[p] + 1 .. fp[p + 1], NEW j \in fp[p] + 1 .. fp[p + 1],
             k < j
      PROVE  sn[k] < sn[j]
  <2>1. PICK x \in 0 .. m - 1, y \in 0 .. m - 1 : x = k - 1 /\ y = j - 1
    BY <1>3
  <2>2. x + 1 = k /\ y + 1 = j /\ x < y
    <3>1. fp[p] \in Nat /\ fp[p + 1] \in Nat
      BY <1>2
    <3>2. k \in Int /\ j \in Int
      BY <3>1
    <3> QED
      BY <1>4, <2>1, <3>2
  <2>3. Before(NodePair(sp, in, x), NodePair(sp, in, y))
    BY <2>2, NodesAreRanked
  <2>4. NodePair(sp, in, x)[1] = p - 1 /\ NodePair(sp, in, y)[1] = p - 1
    BY <1>3, <2>1
  <2>5. p - 1 \in Int
    BY <1>2
  <2>6. NodePair(sp, in, x)[2] < NodePair(sp, in, y)[2]
    BY <2>3, <2>4, <2>5 DEF Before
  <2>7. sn[x + 1] = NodePair(sp, in, x)[2] /\ sn[y + 1] = NodePair(sp, in, y)[2]
    BY NodesHaveOnePair
  <2> QED
    BY <2>2, <2>6, <2>7
<1>5. Len(fp) > 1 /\ fp[Len(fp)] = Len(sn) /\ Len(fp) - 1 = l + 1
  BY <1>0, <1>1
<1> QED
  BY <1>0, <1>1, <1>2, <1>4, <1>5 DEF WellFormedRanges

(* The third level is mapped, line by line.                                *)
Mapped(tn, in, n) ==
  /\ tn \in Seq(Nat) /\ Len(tn) = n
  /\ \A i \in 1 .. n : tn[i] = map(in.mapper, Read(in, i))

(* And so is the third, also where the mapper replaced the ids by ranks.   *)
LEMMA ThirdLevelRanges ==
  ASSUME NEW in, NEW fp, NEW sn, NEW sp, NEW n, NEW m, NEW l,
         Leveled(in, fp, sn, sp, n, m, l), NEW tn, Mapped(tn, in, n)
  PROVE  WellFormedRanges(tn, sp)
<1>0. /\ sp \in Seq(Nat) /\ in \in Inputs /\ n = Len(in.lines)
      /\ tn \in Seq(Nat) /\ Len(tn) = n
  BY DEF Leveled, Mapped
<1>1. /\ Len(sp) = m + 1 /\ n \in Nat /\ n > 0 /\ m \in Nat /\ sp[1] = 0 /\ sp[m + 1] = n
  BY LevelFacts
<1>2. ASSUME NEW p \in 1 .. m
      PROVE  /\ sp[p] \in Nat /\ sp[p + 1] \in Nat /\ sp[p] < sp[p + 1] /\ sp[p + 1] <= n
             /\ p - 1 \in 0 .. m - 1
  <2>1. p \in 1 .. m + 1 /\ p + 1 \in 1 .. m + 1 /\ m + 1 \in 1 .. m + 1 /\ p < p + 1 /\ p + 1 <= m + 1
    BY <1>1
  <2>2. sp[p] \in Nat /\ sp[p + 1] \in Nat /\ sp[p] < sp[p + 1] /\ sp[p + 1] <= sp[m + 1]
    BY <2>1, LevelFacts
  <2> QED
    BY <1>1, <2>2
<1>3. ASSUME NEW p \in 1 .. m, NEW k \in sp[p] + 1 .. sp[p + 1]
      PROVE  k \in 1 .. n /\ Pair(in, k) = NodePair(sp, in, p - 1)
  <2>1. PICK b \in Nat, e \in Nat : b = sp[p] /\ e = sp[p + 1] /\ e <= n
    BY <1>2
  <2>2. k \in 1 .. n /\ b <= k - 1 /\ k - 1 < e
    BY <1>1, <2>1
  <2>3. LiesUnder(k - 1, p - 1, sp)
    <3>1. p - 1 + 1 = p /\ p - 1 + 2 = p + 1
      BY <1>1
    <3> QED
      BY <2>1, <2>2, <3>1 DEF LiesUnder
  <2> QED
    BY <1>2, <2>2, <2>3, NodesHaveOnePair
<1>4. ASSUME NEW p \in 1 .. m, NEW k \in sp[p] + 1 .. sp[p + 1], NEW j \in sp[p] + 1 .. sp[p + 1],
             k < j
      PROVE  tn[k] < tn[j]
  <2>1. k \in 1 .. n /\ j \in 1 .. n /\ Pair(in, k) = Pair(in, j)
    BY <1>3
  <2>2. Read(in, k).first = Read(in, j).first /\ Read(in, k).second = Read(in, j).second
    BY <2>1 DEF Pair
  <2>3. Precedes(Read(in, k), Read(in, j))
    BY <1>0, <1>4, <2>1, FileSorted
  <2>4. /\ Read(in, k) \in [first : Nat, second : Nat, third : Nat]
        /\ Read(in, j) \in [first : Nat, second : Nat, third : Nat]
    BY <1>0, <2>1, InputFacts
  <2>5. Read(in, k).third < Read(in, j).third
    BY <2>2, <2>3, <2>4 DEF Precedes
  <2> QED
    BY <1>0, <2>1, <2>2, <2>5, MapIncreases DEF Mapped
<1>5. m > 0
  <2>1. 1 \in 1 .. n
    BY <1>1
  <2>2. PICK j \in 0 .. m - 1 : TRUE
    BY <2>1, NodesHaveOnePair
  <2> QED
    BY <1>1, <2>2
<1>6. Len(sp) > 1 /\ sp[Len(sp)] = Len(tn) /\ Len(sp) - 1 = m
  BY <1>0, <1>1, <1>5
<1> QED
  BY <1>0, <1>1, <1>2, <1>4, <1>6 DEF WellFormedRanges

(* Both levels of a finished trie, whatever the permutation and mapper.    *)
LevelsInOrder ==
  pc = "done" =>
    /\ WellFormedRanges(trie.second_nodes, trie.first_pointers)
    /\ WellFormedRanges(trie.third_nodes, trie.second_pointers)

(* LevelsInOrder follows from the invariant.                               *)
LEMMA DoneInOrder == IInv => LevelsInOrder
<1> SUFFICES ASSUME IInv, pc = "done"
             PROVE  /\ WellFormedRanges(trie.second_nodes, trie.first_pointers)
                    /\ WellFormedRanges(trie.third_nodes, trie.second_pointers)
  BY DEF LevelsInOrder
<1>1. PICK n, m, l : n = Len(input.lines) /\ m = Len(trie.second_nodes) /\ l = Read(input, n).first
  OBVIOUS
<1>2. /\ Leveled(input, trie.first_pointers, trie.second_nodes, trie.second_pointers, n, m, l)
      /\ Mapped(trie.third_nodes, input, n)
  BY <1>1, DoneFacts DEF Mapped
<1> QED
  BY <1>2, SecondLevelRanges, ThirdLevelRanges

(* Every trie that is built gives its encoders, and the mapper of a trie   *)
(* built after it, levels with no empty range and no range out of order:   *)
(* what WellFormed asks of a mapper and the encoders of their input.       *)
THEOREM LevelsReadyToEncode == Spec => []LevelsInOrder
  BY DoneInOrder, AlwaysIInv, PTL

(* The children of every node of a finished trie strictly increase.        *)
THEOREM ChildrenSorted == Spec => []ChildrenIncrease
<1>1. ASSUME NEW nodes, NEW pointers, WellFormedRanges(nodes, pointers)
      PROVE  IncreasesWithin(nodes, pointers)
  <2> SUFFICES ASSUME NEW p \in 1 .. Len(pointers) - 1, NEW i \in pointers[p] + 1 .. pointers[p + 1] - 1
               PROVE  nodes[i] < nodes[i + 1]
    BY DEF IncreasesWithin
  <2>1. /\ pointers \in Seq(Nat)
        /\ \A k, j \in pointers[p] + 1 .. pointers[p + 1] : k < j => nodes[k] < nodes[j]
    BY <1>1 DEF WellFormedRanges
  <2>2. PICK b \in Nat, e \in Nat : b = pointers[p] /\ e = pointers[p + 1]
    BY <2>1
  <2>3. i \in b + 1 .. e /\ i + 1 \in b + 1 .. e /\ i < i + 1
    BY <2>2
  <2> QED
    BY <2>1, <2>2, <2>3
<1>2. IInv => ChildrenIncrease
  BY <1>1, DoneInOrder DEF ChildrenIncrease, LevelsInOrder
<1> QED
  BY <1>2, AlwaysIInv, PTL
=============================================================================
